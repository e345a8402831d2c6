------------------------- MODULE RevisionIdentityProofs -------------------------
(***************************************************************************)
(* Theorems about RevisionAudit, for any number of objects, handlers and   *)
(* requests, and whichever statements fail; and, in the second half, about *)
(* UserIdentity, for any number of addresses, identities, users, handlers  *)
(* and requests, whichever operations an instance has and whatever fails.  *)
(***************************************************************************)
EXTENDS RevisionAudit, UserIdentity, SequenceTheorems, FiniteSetTheorems, TLAPS

-----------------------------------------------------------------------------
(* What is left of a request *)

EditQuestionLeft ==
  {<<"checkQueue", "readObject", "saveText", "changeTags", "addRevision">>,
   <<"readObject", "saveText", "changeTags", "addRevision">>,
   <<"saveText", "changeTags", "addRevision">>,
   <<"changeTags", "addRevision">>,
   <<"addRevision">>}
EditOtherLeft ==
  {<<"checkQueue", "readObject", "saveText", "addRevision">>,
   <<"readObject", "saveText", "addRevision">>,
   <<"saveText", "addRevision">>,
   <<"addRevision">>}
SuggestLeft ==
  {<<"checkQueue", "readObject", "addRevision">>,
   <<"readObject", "addRevision">>,
   <<"addRevision">>}
ApproveQuestionLeft ==
  {<<"readRevision", "saveText", "changeTags", "close", "reward">>,
   <<"saveText", "changeTags", "close", "reward">>,
   <<"changeTags", "close", "reward">>,
   <<"close", "reward">>,
   <<"reward">>}
ApproveAnswerLeft ==
  {<<"readRevision", "saveText", "close", "reward">>,
   <<"saveText", "close", "reward">>,
   <<"close", "reward">>,
   <<"reward">>}
ApproveTagLeft ==
  {<<"readRevision", "saveText", "findTag", "close", "reward">>,
   <<"saveText", "findTag", "close", "reward">>,
   <<"findTag", "close", "reward">>,
   <<"close", "reward">>,
   <<"reward">>}
RejectLeft ==
  {<<"readRevision", "close">>,
   <<"close">>}

Left(op, k, s) ==
  \/ op = "edit" /\ k = "question" /\ s \in EditQuestionLeft
  \/ op = "edit" /\ k \in {"answer", "tag"} /\ s \in EditOtherLeft
  \/ op = "suggest" /\ s \in SuggestLeft
  \/ op = "approve" /\ k = "question" /\ s \in ApproveQuestionLeft
  \/ op = "approve" /\ k = "answer" /\ s \in ApproveAnswerLeft
  \/ op = "approve" /\ k = "tag" /\ s \in ApproveTagLeft
  \/ op = "reject" /\ s \in RejectLeft

\* Where a request stands, and what comes next.
LeftOK(op, k, s) ==
  /\ s \in Seq(Statements) /\ s # <<>> /\ Tail(s) \in Seq(Statements)
  /\ Len(s) = 1 <=> Tail(s) = <<>>
  /\ Tail(s) # <<>> => Left(op, k, Tail(s)) /\ Head(Tail(s)) \notin {"checkQueue", "readRevision"}
  /\ op \in Edits => Head(s) \in {"checkQueue", "readObject", "saveText", "changeTags", "addRevision"}
  /\ op = "suggest" => Head(s) \notin {"saveText", "changeTags"}
  /\ op \in Audits => Head(s) \in {"readRevision", "saveText", "changeTags", "findTag",
                                   "close", "reward"}
  /\ op = "reject" => Head(s) \in {"readRevision", "close"}
  /\ Tail(s) = <<>> => Head(s) \in {"addRevision", "close", "reward"}
  /\ Head(s) \in {"addRevision", "reward"} => Tail(s) = <<>>
  /\ Head(s) = "close" /\ Tail(s) # <<>> => Head(Tail(s)) = "reward"
  /\ Tail(s) # <<>> /\ Head(Tail(s)) = "reward" => Head(s) = "close" /\ op = "approve"
  /\ Head(s) = "reward" => op = "approve"
  /\ Tail(s) # <<>> /\ Head(Tail(s)) = "changeTags" => Head(s) = "saveText"
  /\ Head(s) = "saveText" => Tail(s) # <<>>
  /\ Head(s) = "saveText" /\ k = "question" => Head(Tail(s)) = "changeTags"
  /\ Head(s) = "saveText" /\ op = "approve" => Head(Tail(s)) \in {"changeTags", "findTag", "close"}
  /\ Head(s) = "changeTags" => k = "question"
  /\ Head(s) = "changeTags" /\ op = "approve" => Tail(s) # <<>> /\ Head(Tail(s)) = "close"
  /\ Head(s) = "findTag" => k = "tag"

LEMMA LeftFacts ==
  ASSUME NEW op, NEW k, NEW s, Left(op, k, s)
  PROVE  LeftOK(op, k, s)
<1>1. CASE op = "edit" /\ k = "question" /\ s \in EditQuestionLeft
  <2>1. CASE s = <<"checkQueue", "readObject", "saveText", "changeTags", "addRevision">>
    BY <1>1, <2>1 DEF LeftOK, Left, EditQuestionLeft, Edits, Audits, Statements
  <2>2. CASE s = <<"readObject", "saveText", "changeTags", "addRevision">>
    BY <1>1, <2>2 DEF LeftOK, Left, EditQuestionLeft, Edits, Audits, Statements
  <2>3. CASE s = <<"saveText", "changeTags", "addRevision">>
    BY <1>1, <2>3 DEF LeftOK, Left, EditQuestionLeft, Edits, Audits, Statements
  <2>4. CASE s = <<"changeTags", "addRevision">>
    BY <1>1, <2>4 DEF LeftOK, Left, EditQuestionLeft, Edits, Audits, Statements
  <2>5. CASE s = <<"addRevision">>
    BY <1>1, <2>5 DEF LeftOK, Left, EditQuestionLeft, Edits, Audits, Statements
  <2> QED BY <1>1, <2>1, <2>2, <2>3, <2>4, <2>5 DEF EditQuestionLeft
<1>2. CASE op = "edit" /\ k \in {"answer", "tag"} /\ s \in EditOtherLeft
  <2>1. CASE s = <<"checkQueue", "readObject", "saveText", "addRevision">>
    BY <1>2, <2>1 DEF LeftOK, Left, EditOtherLeft, Edits, Audits, Statements
  <2>2. CASE s = <<"readObject", "saveText", "addRevision">>
    BY <1>2, <2>2 DEF LeftOK, Left, EditOtherLeft, Edits, Audits, Statements
  <2>3. CASE s = <<"saveText", "addRevision">>
    BY <1>2, <2>3 DEF LeftOK, Left, EditOtherLeft, Edits, Audits, Statements
  <2>4. CASE s = <<"addRevision">>
    BY <1>2, <2>4 DEF LeftOK, Left, EditOtherLeft, Edits, Audits, Statements
  <2> QED BY <1>2, <2>1, <2>2, <2>3, <2>4 DEF EditOtherLeft
<1>3. CASE op = "suggest" /\ s \in SuggestLeft
  <2>1. CASE s = <<"checkQueue", "readObject", "addRevision">>
    BY <1>3, <2>1 DEF LeftOK, Left, SuggestLeft, Edits, Audits, Statements
  <2>2. CASE s = <<"readObject", "addRevision">>
    BY <1>3, <2>2 DEF LeftOK, Left, SuggestLeft, Edits, Audits, Statements
  <2>3. CASE s = <<"addRevision">>
    BY <1>3, <2>3 DEF LeftOK, Left, SuggestLeft, Edits, Audits, Statements
  <2> QED BY <1>3, <2>1, <2>2, <2>3 DEF SuggestLeft
<1>4. CASE op = "approve" /\ k = "question" /\ s \in ApproveQuestionLeft
  <2>1. CASE s = <<"readRevision", "saveText", "changeTags", "close", "reward">>
    BY <1>4, <2>1 DEF LeftOK, Left, ApproveQuestionLeft, Edits, Audits, Statements
  <2>2. CASE s = <<"saveText", "changeTags", "close", "reward">>
    BY <1>4, <2>2 DEF LeftOK, Left, ApproveQuestionLeft, Edits, Audits, Statements
  <2>3. CASE s = <<"changeTags", "close", "reward">>
    BY <1>4, <2>3 DEF LeftOK, Left, ApproveQuestionLeft, Edits, Audits, Statements
  <2>4. CASE s = <<"close", "reward">>
    BY <1>4, <2>4 DEF LeftOK, Left, ApproveQuestionLeft, Edits, Audits, Statements
  <2>5. CASE s = <<"reward">>
    BY <1>4, <2>5 DEF LeftOK, Left, ApproveQuestionLeft, Edits, Audits, Statements
  <2> QED BY <1>4, <2>1, <2>2, <2>3, <2>4, <2>5 DEF ApproveQuestionLeft
<1>5. CASE op = "approve" /\ k = "answer" /\ s \in ApproveAnswerLeft
  <2>1. CASE s = <<"readRevision", "saveText", "close", "reward">>
    BY <1>5, <2>1 DEF LeftOK, Left, ApproveAnswerLeft, Edits, Audits, Statements
  <2>2. CASE s = <<"saveText", "close", "reward">>
    BY <1>5, <2>2 DEF LeftOK, Left, ApproveAnswerLeft, Edits, Audits, Statements
  <2>3. CASE s = <<"close", "reward">>
    BY <1>5, <2>3 DEF LeftOK, Left, ApproveAnswerLeft, Edits, Audits, Statements
  <2>4. CASE s = <<"reward">>
    BY <1>5, <2>4 DEF LeftOK, Left, ApproveAnswerLeft, Edits, Audits, Statements
  <2> QED BY <1>5, <2>1, <2>2, <2>3, <2>4 DEF ApproveAnswerLeft
<1>6. CASE op = "approve" /\ k = "tag" /\ s \in ApproveTagLeft
  <2>1. CASE s = <<"readRevision", "saveText", "findTag", "close", "reward">>
    BY <1>6, <2>1 DEF LeftOK, Left, ApproveTagLeft, Edits, Audits, Statements
  <2>2. CASE s = <<"saveText", "findTag", "close", "reward">>
    BY <1>6, <2>2 DEF LeftOK, Left, ApproveTagLeft, Edits, Audits, Statements
  <2>3. CASE s = <<"findTag", "close", "reward">>
    BY <1>6, <2>3 DEF LeftOK, Left, ApproveTagLeft, Edits, Audits, Statements
  <2>4. CASE s = <<"close", "reward">>
    BY <1>6, <2>4 DEF LeftOK, Left, ApproveTagLeft, Edits, Audits, Statements
  <2>5. CASE s = <<"reward">>
    BY <1>6, <2>5 DEF LeftOK, Left, ApproveTagLeft, Edits, Audits, Statements
  <2> QED BY <1>6, <2>1, <2>2, <2>3, <2>4, <2>5 DEF ApproveTagLeft
<1>7. CASE op = "reject" /\ s \in RejectLeft
  <2>1. CASE s = <<"readRevision", "close">>
    BY <1>7, <2>1 DEF LeftOK, Left, RejectLeft, Edits, Audits, Statements
  <2>2. CASE s = <<"close">>
    BY <1>7, <2>2 DEF LeftOK, Left, RejectLeft, Edits, Audits, Statements
  <2> QED BY <1>7, <2>1, <2>2 DEF RejectLeft
<1> QED BY <1>1, <1>2, <1>3, <1>4, <1>5, <1>6, <1>7 DEF Left

\* A request begins with all its statements.
LEMMA ProgramLeft ==
  ASSUME NEW o \in Objects, NEW op \in Edits \cup Audits
  PROVE  Left(op, Kind[o], Program(op, o)) /\ Head(Program(op, o)) \in {"checkQueue", "readRevision"}
<1>1. Kind[o] \in Kinds
  BY RevisionAssumption
<1>2. CASE op = "edit"
  BY <1>1, <1>2 DEF Program, Update, Left, EditQuestionLeft, EditOtherLeft, Kinds
<1>3. CASE op = "suggest"
  BY <1>3 DEF Program, Suggest, Left, SuggestLeft
<1>4. CASE op = "approve"
  BY <1>1, <1>4 DEF Program, Approve, Left, ApproveQuestionLeft, ApproveAnswerLeft,
                    ApproveTagLeft, Kinds
<1>5. CASE op = "reject"
  BY <1>5 DEF Program, Reject, Left, RejectLeft
<1> QED BY <1>2, <1>3, <1>4, <1>5 DEF Edits, Audits

-----------------------------------------------------------------------------
(* Types *)

Sent == [op : Edits \cup Audits, obj : Objects, rev : Texts, text : Texts]

\* What a handler serves, and the revision an audit is about.
WorkAt(h) ==
  IF todo[h] = <<>> THEN req[h] = NoRequest
  ELSE /\ req[h] \in Sent
       /\ Left(req[h].op, Kind[req[h].obj], todo[h])
       /\ req[h].op \in Audits => /\ req[h].rev \in 1..Len(revision)
                                  /\ revision[req[h].rev].obj = req[h].obj
                                  /\ revision[req[h].rev].text = req[h].text

ControlOK ==
  /\ todo \in [Handlers -> Seq(Statements)]
  /\ req \in [Handlers -> Sent \cup {NoRequest}]
  /\ \A h \in Handlers : WorkAt(h)

DataOK ==
  /\ text \in [Objects -> Texts]
  /\ tagsOf \in [Objects -> Texts \cup {Mixed}]
  /\ deleted \in [Objects -> BOOLEAN]
  /\ revision \in Seq(Revision) /\ Len(revision) \in Nat
  /\ revisionId \in [Objects -> 0..Len(revision)]
  /\ received \in Texts
  /\ rewarded \subseteq 1..Len(revision)
  /\ broken \in [Objects -> BOOLEAN]

Typed == ControlOK /\ DataOK

\* The rows stay, except for their status, and new ones follow.
RowsStay ==
  /\ revision' \in Seq(Revision) /\ Len(revision') \in Nat /\ Len(revision) <= Len(revision')
  /\ \A r \in 1..Len(revision) :
       revision'[r].obj = revision[r].obj /\ revision'[r].text = revision[r].text

\* Only handler h moves: it ends its request, or goes on with a later statement.
Onward(h) ==
  /\ \A g \in Handlers \ {h} : todo'[g] = todo[g] /\ req'[g] = req[g]
  /\ todo' \in [Handlers -> Seq(Statements)] /\ req' \in [Handlers -> Sent \cup {NoRequest}]
  /\ \/ todo'[h] = <<>> /\ req'[h] = NoRequest
     \/ /\ todo'[h] # <<>> /\ req'[h] = req[h]
        /\ Left(req[h].op, Kind[req[h].obj], todo'[h])

LEMMA HandlerFacts ==
  ASSUME Typed, NEW h \in Handlers, Busy(h)
  PROVE  /\ req[h] \in Sent /\ req[h].obj \in Objects /\ req[h].text \in Texts
         /\ req[h].op \in Edits \cup Audits
         /\ LeftOK(req[h].op, Kind[req[h].obj], todo[h])
         /\ Kind[req[h].obj] \in Kinds
         /\ req[h].op \in Audits => /\ req[h].rev \in 1..Len(revision)
                                    /\ revision[req[h].rev].obj = req[h].obj
                                    /\ revision[req[h].rev].text = req[h].text
<1>1. WorkAt(h) /\ todo[h] # <<>>
  BY DEF Typed, ControlOK, Busy
<1>2. req[h] \in Sent
  BY <1>1 DEF WorkAt
<1>3. req[h].obj \in Objects /\ req[h].text \in Texts /\ req[h].op \in Edits \cup Audits
  BY <1>2 DEF Sent
<1> QED BY <1>1, <1>2, <1>3, LeftFacts, RevisionAssumption DEF WorkAt

LEMMA AdvanceOnward ==
  ASSUME Typed, NEW h \in Handlers, Busy(h), Advance(h)
  PROVE  /\ Onward(h) /\ todo'[h] = Tail(todo[h])
         /\ Tail(todo[h]) # <<>> => req'[h] = req[h]
<1>1. LeftOK(req[h].op, Kind[req[h].obj], todo[h])
  BY HandlerFacts
<1>2. todo'[h] = Tail(todo[h]) /\ todo' \in [Handlers -> Seq(Statements)]
  BY <1>1 DEF Advance, Typed, ControlOK, LeftOK
<1>3. /\ req'[h] = IF Tail(todo[h]) = <<>> THEN NoRequest ELSE req[h]
      /\ req' \in [Handlers -> Sent \cup {NoRequest}]
  BY <1>1 DEF Advance, Typed, ControlOK, LeftOK
<1>4. \A g \in Handlers \ {h} : todo'[g] = todo[g] /\ req'[g] = req[g]
  BY DEF Advance, Typed, ControlOK
<1> QED BY <1>1, <1>2, <1>3, <1>4 DEF Onward, LeftOK

LEMMA ReturnOnward ==
  ASSUME Typed, NEW h \in Handlers, Return(h)
  PROVE  Onward(h) /\ todo'[h] = <<>>
<1>1. <<>> \in Seq(Statements)
  OBVIOUS
<1> QED BY <1>1 DEF Return, Onward, Typed, ControlOK

\* A step of one handler keeps what handlers serve.
LEMMA OnwardKeeps ==
  ASSUME Typed, NEW h \in Handlers, Busy(h), Onward(h), RowsStay
  PROVE  ControlOK'
<1>1. ASSUME NEW g \in Handlers
      PROVE  WorkAt(g)'
  <2>1. CASE g # h
    <3>1. WorkAt(g)
      BY DEF Typed, ControlOK
    <3>2. Len(revision) \in Nat /\ Len(revision') \in Nat
      BY DEF RowsStay, Typed, DataOK
    <3> QED BY <2>1, <3>1, <3>2 DEF Onward, RowsStay, WorkAt
  <2>2. CASE g = h
    <3>1. /\ req[h] \in Sent
          /\ req[h].op \in Audits => /\ req[h].rev \in 1..Len(revision)
                                     /\ revision[req[h].rev].obj = req[h].obj
                                     /\ revision[req[h].rev].text = req[h].text
      BY HandlerFacts
    <3>2. Len(revision) \in Nat /\ Len(revision') \in Nat
      BY DEF RowsStay, Typed, DataOK
    <3> QED BY <2>2, <3>1, <3>2 DEF Onward, RowsStay, WorkAt
  <2> QED BY <2>1, <2>2
<1> QED BY <1>1 DEF ControlOK, Onward

LEMMA SameRows ==
  ASSUME Typed, revision' = revision
  PROVE  RowsStay
BY DEF RowsStay, Typed, DataOK

LEMMA StartControl ==
  ASSUME Typed, NEW h \in Handlers, NEW op \in Edits \cup Audits, NEW o \in Objects,
         NEW r \in Texts, NEW t \in Texts, Start(h, op, o, r, t),
         op \in Audits => /\ r \in 1..Len(revision) /\ revision[r].obj = o
                          /\ revision[r].text = t
  PROVE  Typed'
<1> DEFINE q == [op |-> op, obj |-> o, rev |-> r, text |-> t]
<1>1. q \in Sent
  BY DEF Sent
<1>2. Left(op, Kind[o], Program(op, o))
  BY ProgramLeft
<1>3. Program(op, o) \in Seq(Statements) /\ Program(op, o) # <<>>
  BY <1>2, LeftFacts DEF LeftOK
<1>4. /\ todo' = [todo EXCEPT ![h] = Program(op, o)] /\ req' = [req EXCEPT ![h] = q]
      /\ UNCHANGED <<text, tagsOf, deleted, revisionId, revision, rewarded, broken>>
      /\ received < MaxRequests /\ received' = received + 1
  BY DEF Start, object
<1>5. q.op = op /\ q.obj = o /\ q.rev = r /\ q.text = t
  OBVIOUS
<1> HIDE DEF q
<1>6. ASSUME NEW g \in Handlers
      PROVE  WorkAt(g)'
  <2>1. CASE g = h
    <3>1. todo'[g] = Program(op, o) /\ req'[g] = q
      BY <1>4, <2>1 DEF Typed, ControlOK
    <3> QED BY <1>1, <1>2, <1>3, <1>4, <1>5, <3>1 DEF WorkAt
  <2>2. CASE g # h
    <3>1. todo'[g] = todo[g] /\ req'[g] = req[g]
      BY <1>4, <2>2 DEF Typed, ControlOK
    <3> QED BY <3>1, <1>4 DEF WorkAt, Typed, ControlOK
  <2> QED BY <2>1, <2>2
<1>7. ControlOK'
  BY <1>1, <1>3, <1>4, <1>6 DEF Typed, ControlOK
<1>8. DataOK'
  <2>1. received' \in Texts
    BY <1>4, RevisionAssumption DEF Typed, DataOK, Texts
  <2> QED BY <1>4, <2>1 DEF Typed, DataOK
<1> QED BY <1>7, <1>8 DEF Typed

LEMMA EditTyped ==
  ASSUME Typed, NEW h \in Handlers, NEW op \in Edits, NEW o \in Objects, ReceiveEdit(h, op, o)
  PROVE  Typed'
<1>1. 0 \in Texts /\ received + 1 \in Texts
  BY RevisionAssumption DEF ReceiveEdit, Start, Typed, DataOK, Texts
<1>2. op \notin Audits
  BY DEF Edits, Audits
<1> QED BY <1>1, <1>2, StartControl DEF ReceiveEdit

LEMMA AuditTyped ==
  ASSUME Typed, NEW h \in Handlers, NEW op \in Audits, NEW r \in Texts, ReceiveAudit(h, op, r)
  PROVE  Typed'
<1>1. r \in 1..Len(revision) /\ Start(h, op, revision[r].obj, r, revision[r].text)
  BY DEF ReceiveAudit, Typed, DataOK
<1>2. revision[r] \in Revision
  BY <1>1 DEF Typed, DataOK
<1>3. revision[r].obj \in Objects /\ revision[r].text \in Texts
  BY <1>2 DEF Revision
<1> QED BY <1>1, <1>3, StartControl

LEMMA StatementTyped ==
  ASSUME Typed, NEW h \in Handlers, Step(h) \/ Fail(h) \/ FailTags(h) \/ FailToSave(h)
  PROVE  Typed' /\ RowsStay /\ Onward(h) /\ Busy(h)
<1>1. Busy(h)
  BY DEF Step, CheckQueue, ReadObject, SaveText, ChangeTags, AddRevision, ReadRevision, FindTag,
         Close, Reward, Fail, FailTags, FailToSave, At
<1> DEFINE q == req[h]
<1>2. /\ q.obj \in Objects /\ q.text \in Texts /\ q.op \in Edits \cup Audits
      /\ q.op \in Audits => q.rev \in 1..Len(revision)
      /\ LeftOK(q.op, Kind[q.obj], todo[h])
  BY <1>1, HandlerFacts
<1>3. Onward(h)
  <2>1. CASE Advance(h)
    BY <1>1, <2>1, AdvanceOnward
  <2>2. CASE Return(h)
    BY <2>2, ReturnOnward
  <2>3. CASE FailToSave(h)
    <3>1. q.op = "approve" /\ Kind[q.obj] # "tag"
      BY <2>3 DEF FailToSave
    <3>2. Left(q.op, Kind[q.obj], <<"close", "reward">>)
      BY <3>1, <1>2, HandlerFacts, <1>1 DEF Left, ApproveQuestionLeft, ApproveAnswerLeft, Kinds
    <3>3. <<"close", "reward">> \in Seq(Statements)
      BY DEF Statements
    <3>4. todo' = [todo EXCEPT ![h] = <<"close", "reward">>] /\ req' = req
      BY <2>3 DEF FailToSave
    <3> QED BY <3>2, <3>3, <3>4 DEF Onward, Typed, ControlOK
  <2> QED BY <2>1, <2>2, <2>3 DEF Step, CheckQueue, ReadObject, SaveText, ChangeTags, AddRevision,
             ReadRevision, FindTag, Close, Reward, Fail, FailTags
<1>4. DataOK' /\ RowsStay
  <2>1. CASE SaveText(h)
    BY <1>2, <2>1, SameRows DEF SaveText, Typed, DataOK
  <2>2. CASE ChangeTags(h)
    BY <1>2, <2>2, SameRows DEF ChangeTags, Typed, DataOK
  <2>3. CASE AddRevision(h)
    <3> DEFINE row == [obj |-> q.obj, text |-> q.text,
                       status |-> IF q.op = "edit" THEN "passed" ELSE "unreviewed"]
    <3>1. row \in Revision /\ row.obj = q.obj
      BY <1>2 DEF Revision, RevisionStatuses
    <3>2. revision' = Append(revision, row)
      BY <2>3 DEF AddRevision
    <3> HIDE DEF row
    <3>3. /\ revision' \in Seq(Revision) /\ Len(revision') = Len(revision) + 1
          /\ \A r \in 1..Len(revision) : revision'[r] = revision[r]
      BY <3>1, <3>2, AppendProperties DEF Typed, DataOK
    <3>4. revisionId' = [revisionId EXCEPT ![q.obj] = Len(revision) + 1]
      BY <2>3 DEF AddRevision
    <3>5. RowsStay
      BY <3>3 DEF RowsStay, Typed, DataOK
    <3>6. revisionId' \in [Objects -> 0..Len(revision')] /\ rewarded \subseteq 1..Len(revision')
      BY <1>2, <3>3, <3>4 DEF Typed, DataOK
    <3> QED BY <2>3, <3>3, <3>5, <3>6 DEF AddRevision, object, Typed, DataOK
  <2>4. CASE Close(h)
    <3>1. q.op \in Audits /\ q.rev \in 1..Len(revision)
      BY <1>2, <2>4 DEF Close, At, LeftOK
    <3>2. revision[q.rev] \in Revision
      BY <3>1 DEF Typed, DataOK
    <3> DEFINE st == IF q.op = "approve" THEN "passed" ELSE "rejected"
    <3>3. [revision[q.rev] EXCEPT !.status = st] \in Revision
      BY <3>2 DEF Revision, RevisionStatuses
    <3>4. revision' = [revision EXCEPT ![q.rev] = [revision[q.rev] EXCEPT !.status = st]]
      BY <2>4 DEF Close
    <3> HIDE DEF st
    <3>5. revision' \in Seq(Revision) /\ Len(revision') = Len(revision)
      BY <3>1, <3>3, <3>4, ExceptSeq DEF Typed, DataOK
    <3>6. \A r \in 1..Len(revision) :
            revision'[r].obj = revision[r].obj /\ revision'[r].text = revision[r].text
      BY <3>1, <3>2, <3>4 DEF Typed, DataOK, Revision
    <3> QED BY <2>4, <3>5, <3>6 DEF Close, object, RowsStay, Typed, DataOK
  <2>5. CASE Reward(h)
    <3>1. q.op \in Audits
      BY <1>2, <2>5 DEF Reward, At, LeftOK, Audits
    <3> QED BY <1>2, <2>5, <3>1, SameRows DEF Reward, object, Typed, DataOK
  <2>6. CASE CheckQueue(h) \/ ReadObject(h) \/ ReadRevision(h) \/ FindTag(h)
    BY <2>6, SameRows DEF CheckQueue, ReadObject, ReadRevision, FindTag, object, Typed, DataOK
  <2>7. CASE Fail(h) \/ FailTags(h) \/ FailToSave(h)
    BY <2>7, <1>2, SameRows DEF Fail, FailTags, FailToSave, Break, object, Typed, DataOK
  <2> QED BY <2>1, <2>2, <2>3, <2>4, <2>5, <2>6, <2>7 DEF Step
<1> QED BY <1>1, <1>3, <1>4, OnwardKeeps DEF Typed

LEMMA TypedInit == Init => Typed
<1> SUFFICES ASSUME Init PROVE Typed
  OBVIOUS
<1>1. 0 \in Texts
  BY RevisionAssumption DEF Texts
<1>2. ControlOK
  BY DEF Init, ControlOK, WorkAt
<1>3. revision \in Seq(Revision) /\ Len(revision) = 0
  BY DEF Init
<1> QED BY <1>1, <1>2, <1>3 DEF Init, Typed, DataOK

LEMMA TypedStep ==
  ASSUME Typed, [Next]_vars
  PROVE  Typed'
<1>1. CASE \E h \in Handlers :
              \/ \E op \in Edits, o \in Objects : ReceiveEdit(h, op, o)
              \/ \E op \in Audits, r \in Texts : ReceiveAudit(h, op, r)
  BY <1>1, EditTyped, AuditTyped
<1>2. CASE \E h \in Handlers : Step(h) \/ Fail(h) \/ FailTags(h) \/ FailToSave(h)
  BY <1>2, StatementTyped
<1>3. CASE \E o \in Objects : ToggleDeleted(o)
  <2>1. PICK o \in Objects : ToggleDeleted(o)
    BY <1>3
  <2>2. received' \in Texts /\ deleted' \in [Objects -> BOOLEAN]
    BY <2>1, RevisionAssumption DEF ToggleDeleted, Typed, DataOK, Texts
  <2> QED BY <2>1, <2>2 DEF ToggleDeleted, Typed, DataOK, ControlOK, WorkAt
<1>4. CASE UNCHANGED vars
  BY <1>4 DEF vars, Typed, DataOK, ControlOK, WorkAt
<1> QED BY <1>1, <1>2, <1>3, <1>4 DEF Next

\* Every variable of RevisionAudit has its type, whatever fails.
THEOREM TypeCorrect == Spec => []TypeOK
<1>1. Typed => TypeOK
  <2> SUFFICES ASSUME Typed PROVE TypeOK
    OBVIOUS
  <2>1. ASSUME NEW h \in Handlers
        PROVE  /\ Busy(h) <=> req[h] # NoRequest
               /\ Busy(h) => /\ req[h] \in [op : Edits \cup Audits, obj : Objects,
                                            rev : Texts, text : Texts]
                             /\ req[h].op \in Audits => req[h].rev \in DOMAIN revision
    BY RevisionAssumption DEF Typed, ControlOK, DataOK, WorkAt, Busy, Sent
  <2> QED BY <2>1 DEF Typed, ControlOK, DataOK, TypeOK
<1> QED BY <1>1, TypedInit, TypedStep, PTL DEF Spec

-----------------------------------------------------------------------------
(* What a statement does to the rows *)

\* Revision r is in the table and waits for its audit.
Waits(r) == r \in 1..Len(revision) /\ revision[r].status = "unreviewed"

Added(h) ==
  /\ At(h, "addRevision")
  /\ Len(revision') = Len(revision) + 1
  /\ \A r \in 1..Len(revision) : revision'[r] = revision[r]
  /\ revision'[Len(revision) + 1].obj = req[h].obj
  /\ revision'[Len(revision) + 1].text = req[h].text
  /\ revision'[Len(revision) + 1].status =
       IF req[h].op = "edit" THEN "passed" ELSE "unreviewed"

Closed(h) ==
  /\ At(h, "close")
  /\ req[h].op \in Audits /\ req[h].rev \in 1..Len(revision)
  /\ Len(revision') = Len(revision)
  /\ \A r \in 1..Len(revision) :
       /\ revision'[r].obj = revision[r].obj /\ revision'[r].text = revision[r].text
       /\ revision'[r].status = IF r = req[h].rev
                                THEN IF req[h].op = "approve" THEN "passed" ELSE "rejected"
                                ELSE revision[r].status

Statement(h) == Step(h) \/ Fail(h) \/ FailTags(h) \/ FailToSave(h)

LEMMA RowSteps ==
  ASSUME Typed, NEW h \in Handlers, Statement(h)
  PROVE  \/ revision' = revision /\ ~AddRevision(h) /\ ~Close(h)
         \/ AddRevision(h) /\ Added(h)
         \/ Close(h) /\ Closed(h)
<1>1. CASE AddRevision(h)
  <2> DEFINE row == [obj |-> req[h].obj, text |-> req[h].text,
                     status |-> IF req[h].op = "edit" THEN "passed" ELSE "unreviewed"]
  <2>1. Busy(h)
    BY <1>1 DEF AddRevision, At
  <2>2. row \in Revision
    BY <2>1, HandlerFacts DEF Revision, RevisionStatuses
  <2>3. revision' = Append(revision, row)
    BY <1>1 DEF AddRevision
  <2>4. /\ row.obj = req[h].obj /\ row.text = req[h].text
        /\ row.status = IF req[h].op = "edit" THEN "passed" ELSE "unreviewed"
    OBVIOUS
  <2> HIDE DEF row
  <2>5. /\ Len(revision') = Len(revision) + 1
        /\ \A r \in 1..Len(revision) : revision'[r] = revision[r]
        /\ revision'[Len(revision) + 1] = row
    BY <2>2, <2>3, AppendProperties DEF Typed, DataOK
  <2> QED BY <1>1, <2>4, <2>5 DEF AddRevision, Added
<1>2. CASE Close(h)
  <2>1. Busy(h) /\ Head(todo[h]) = "close"
    BY <1>2 DEF Close, At
  <2>2. req[h].op \in Audits /\ req[h].rev \in 1..Len(revision)
    BY <2>1, HandlerFacts DEF LeftOK, Edits, Audits
  <2>3. \A r \in 1..Len(revision) : revision[r] \in Revision
    BY DEF Typed, DataOK
  <2> DEFINE st == IF req[h].op = "approve" THEN "passed" ELSE "rejected"
  <2>4. revision' = [revision EXCEPT ![req[h].rev] = [revision[req[h].rev] EXCEPT !.status = st]]
    BY <1>2 DEF Close
  <2>5. Len(revision') = Len(revision)
    BY <2>2, <2>4, ExceptSeq DEF Typed, DataOK
  <2>6. \A r \in 1..Len(revision) :
          revision'[r] = IF r = req[h].rev THEN [revision[r] EXCEPT !.status = st] ELSE revision[r]
    <3> DEFINE new == [revision[req[h].rev] EXCEPT !.status = st]
    <3>1. revision' = [revision EXCEPT ![req[h].rev] = new]
      BY <2>4
    <3> HIDE DEF new
    <3>2. \A r \in 1..Len(revision) :
            revision'[r] = IF r = req[h].rev THEN new ELSE revision[r]
      BY <2>2, <3>1 DEF Typed, DataOK
    <3> QED BY <3>2 DEF new
  <2> HIDE DEF st
  <2>7. \A r \in 1..Len(revision) :
           /\ revision'[r].obj = revision[r].obj /\ revision'[r].text = revision[r].text
           /\ revision'[r].status = IF r = req[h].rev THEN st ELSE revision[r].status
    BY <2>3, <2>6 DEF Revision
  <2> QED BY <1>2, <2>1, <2>2, <2>5, <2>7 DEF Close, Closed, At, st
<1>3. CASE ~AddRevision(h) /\ ~Close(h)
  BY <1>3 DEF Statement, Step, CheckQueue, ReadObject, SaveText, ChangeTags, ReadRevision, FindTag,
         Reward, Fail, FailTags, FailToSave
<1> QED BY <1>1, <1>2, <1>3

\* Which revisions wait after a statement.
LEMMA WaitsSteps ==
  ASSUME Typed, NEW h \in Handlers, Statement(h)
  PROVE  \A r \in Nat :
           Waits(r)' <=> \/ Waits(r) /\ ~(Close(h) /\ r = req[h].rev)
                         \/ AddRevision(h) /\ req[h].op # "edit" /\ r = Len(revision) + 1
<1>1. Len(revision) \in Nat
  BY DEF Typed, DataOK
<1>2. ~(AddRevision(h) /\ Close(h))
  BY DEF AddRevision, Close, At
<1>3. CASE revision' = revision /\ ~AddRevision(h) /\ ~Close(h)
  BY <1>3 DEF Waits
<1>4. CASE AddRevision(h) /\ Added(h)
  BY <1>1, <1>2, <1>4 DEF Waits, Added
<1>5. CASE Close(h) /\ Closed(h)
  BY <1>1, <1>2, <1>5 DEF Waits, Closed
<1> QED BY <1>3, <1>4, <1>5, RowSteps

\* The handler is beyond the look at what was decided or waits, and has
\* something to write of its edit or decision.
Past(h) == Busy(h) /\ Head(todo[h]) \notin {"checkQueue", "readRevision", "reward"}

\* What a statement leaves to do.
LEMMA Moves ==
  ASSUME Typed, NEW h \in Handlers, Statement(h)
  PROVE  /\ Busy(h) /\ Onward(h)
         /\ \/ todo'[h] = <<>>
            \/ /\ todo'[h] = Tail(todo[h]) /\ Tail(todo[h]) # <<>>
               /\ ~Fail(h) /\ ~FailToSave(h)
               /\ FailTags(h) => req[h].op = "edit"
               /\ CheckQueue(h) => Unreviewed(req[h].obj) = {}
               /\ ReadRevision(h) => revision[req[h].rev].status = "unreviewed"
            \/ FailToSave(h) /\ todo'[h] = <<"close", "reward">>
<1>1. Busy(h) /\ Onward(h)
  BY StatementTyped DEF Statement
<1>2. CASE Return(h)
  BY <1>1, <1>2, ReturnOnward
<1>3. CASE FailToSave(h)
  BY <1>1, <1>3 DEF FailToSave, Typed, ControlOK
<1>4. CASE Advance(h) /\ ~FailToSave(h)
  <2>1. todo'[h] = Tail(todo[h])
    BY <1>1, <1>4, AdvanceOnward
  <2>2. CASE Return(h)
    BY <1>2, <2>2
  <2>3. CASE ~Return(h)
    BY <1>1, <1>4, <2>1, <2>3 DEF Fail, FailTags, CheckQueue, ReadRevision
  <2> QED BY <2>2, <2>3
<1> QED BY <1>1, <1>2, <1>3, <1>4 DEF Statement, Step, CheckQueue, ReadObject, SaveText, ChangeTags,
       AddRevision, ReadRevision, FindTag, Close, Reward, Fail, FailTags

\* A step receives a request, performs a statement, or deletes or recovers.
LEMMA NextCases ==
  ASSUME Typed, [Next]_vars
  PROVE  \/ \E h \in Handlers, op \in Edits \cup Audits, o \in Objects, r \in Texts, t \in Texts :
              /\ Start(h, op, o, r, t)
              /\ op \in Edits => t = received + 1
              /\ op \in Audits => /\ r \in 1..Len(revision) /\ revision[r].obj = o
                                 /\ revision[r].text = t
         \/ \E h \in Handlers : Statement(h)
         \/ \E o \in Objects : ToggleDeleted(o)
         \/ UNCHANGED vars
<1>1. ASSUME NEW h \in Handlers, NEW op \in Edits, NEW o \in Objects, ReceiveEdit(h, op, o)
      PROVE  \E r \in Texts, t \in Texts : Start(h, op, o, r, t) /\ t = received + 1
  <2>1. 0 \in Texts /\ received + 1 \in Texts
    BY <1>1, RevisionAssumption DEF ReceiveEdit, Start, Typed, DataOK, Texts
  <2> QED BY <1>1, <2>1 DEF ReceiveEdit
<1>2. ASSUME NEW h \in Handlers, NEW op \in Audits, NEW r \in Texts, ReceiveAudit(h, op, r)
      PROVE  \E o \in Objects, t \in Texts :
               /\ Start(h, op, o, r, t)
               /\ r \in 1..Len(revision) /\ revision[r].obj = o /\ revision[r].text = t
  <2>1. r \in 1..Len(revision) /\ Start(h, op, revision[r].obj, r, revision[r].text)
    BY <1>2 DEF ReceiveAudit, Typed, DataOK
  <2>2. revision[r] \in Revision
    BY <2>1 DEF Typed, DataOK
  <2>3. revision[r].obj \in Objects /\ revision[r].text \in Texts
    BY <2>2 DEF Revision
  <2> QED BY <2>1, <2>3
<1>3. Edits \cap Audits = {}
  BY DEF Edits, Audits
<1>4. CASE \E h \in Handlers, op \in Edits, o \in Objects : ReceiveEdit(h, op, o)
  <2>1. PICK h \in Handlers, op \in Edits, o \in Objects : ReceiveEdit(h, op, o)
    BY <1>4
  <2> QED BY <1>1, <1>3, <2>1
<1>5. CASE \E h \in Handlers, op \in Audits, r \in Texts : ReceiveAudit(h, op, r)
  <2>1. PICK h \in Handlers, op \in Audits, r \in Texts : ReceiveAudit(h, op, r)
    BY <1>5
  <2> QED BY <1>2, <1>3, <2>1
<1> QED BY <1>4, <1>5 DEF Next, Statement

-----------------------------------------------------------------------------
(* One edit and one audit of an object at a time *)

Serial ==
  \A g, h \in Handlers :
    Busy(g) /\ Busy(h) /\ req[g].obj = req[h].obj /\ (req[g].op \in Edits <=> req[h].op \in Edits)
      => g = h

\* An edit past the queue has found it empty, an audit past its look at the
\* revision has found it unreviewed, and both are still true.
Sound(h) ==
  /\ req[h].op \in Edits => \A r \in Nat : Waits(r) => revision[r].obj # req[h].obj
  /\ req[h].op \in Audits => \E r \in Nat : r = req[h].rev /\ Waits(r)

QueueInv ==
  /\ \A r, s \in Nat : Waits(r) /\ Waits(s) /\ revision[r].obj = revision[s].obj => r = s
  /\ \A h \in Handlers : Past(h) => Sound(h)

Queued == Typed /\ Serial /\ QueueInv

\* So only one handler writes to an object.
LEMMA OneWriter ==
  ASSUME Queued, NEW g \in Handlers, NEW h \in Handlers, Past(g), Past(h),
         req[g].obj = req[h].obj
  PROVE  g = h
<1>1. /\ req[g].op \in Edits \cup Audits /\ req[h].op \in Edits \cup Audits
      /\ req[g].op \in Audits => req[g].rev \in Nat /\ revision[req[g].rev].obj = req[g].obj
      /\ req[h].op \in Audits => req[h].rev \in Nat /\ revision[req[h].rev].obj = req[h].obj
  BY HandlerFacts DEF Queued, Past, Typed, DataOK
<1>2. CASE req[g].op \in Edits /\ req[h].op \in Audits
  BY <1>1, <1>2 DEF Queued, QueueInv, Sound
<1>3. CASE req[h].op \in Edits /\ req[g].op \in Audits
  BY <1>1, <1>3 DEF Queued, QueueInv, Sound
<1>4. CASE req[g].op \in Edits <=> req[h].op \in Edits
  BY <1>4 DEF Queued, Serial, Past
<1> QED BY <1>1, <1>2, <1>3, <1>4

\* A request that has just been received is past nothing.
LEMMA Received ==
  ASSUME Typed, NEW h \in Handlers, NEW op \in Edits \cup Audits, NEW o \in Objects,
         NEW r \in Texts, NEW t \in Texts, Start(h, op, o, r, t)
  PROVE  /\ ~Busy(h) /\ Busy(h)' /\ ~Past(h)'
         /\ Head(todo'[h]) \in {"checkQueue", "readRevision"}
         /\ req'[h] = [op |-> op, obj |-> o, rev |-> r, text |-> t]
         /\ \A g \in Handlers \ {h} : todo'[g] = todo[g] /\ req'[g] = req[g]
         /\ UNCHANGED <<object, revisionId, revision, rewarded, broken>>
<1>1. Left(op, Kind[o], Program(op, o)) /\ Head(Program(op, o)) \in {"checkQueue", "readRevision"}
  BY ProgramLeft
<1>2. Program(op, o) # <<>>
  BY <1>1, LeftFacts DEF LeftOK
<1>3. todo'[h] = Program(op, o) /\ req'[h] = [op |-> op, obj |-> o, rev |-> r, text |-> t]
  BY DEF Start, Typed, ControlOK
<1> QED BY <1>1, <1>2, <1>3 DEF Start, Busy, Past, Typed, ControlOK

LEMMA SerialStep ==
  ASSUME OneAtATime, Typed, Serial, [Next]_vars
  PROVE  Serial'
<1>1. ASSUME NEW h \in Handlers, NEW op \in Edits \cup Audits, NEW o \in Objects,
             NEW r \in Texts, NEW t \in Texts, Start(h, op, o, r, t)
      PROVE  Serial'
  <2>1. \A g \in Handlers : Busy(g) /\ req[g].obj = o => ~(req[g].op \in Edits <=> op \in Edits)
    BY <1>1 DEF Start
  <2>2. /\ \A g \in Handlers \ {h} : (Busy(g)' <=> Busy(g)) /\ req'[g] = req[g]
        /\ req'[h].op = op /\ req'[h].obj = o
    <3>1. /\ req'[h] = [op |-> op, obj |-> o, rev |-> r, text |-> t]
          /\ \A g \in Handlers \ {h} : todo'[g] = todo[g] /\ req'[g] = req[g]
      BY <1>1, Received
    <3> QED BY <3>1 DEF Busy
  <2>3. ASSUME NEW f \in Handlers, NEW g \in Handlers, Busy(f)', Busy(g)',
               req'[f].obj = req'[g].obj, req'[f].op \in Edits <=> req'[g].op \in Edits
        PROVE  f = g
    BY <2>1, <2>2, <2>3 DEF Serial
  <2> QED BY <2>3 DEF Serial
<1>2. ASSUME NEW h \in Handlers, Statement(h)
      PROVE  Serial'
  <2>1. \A g \in Handlers : Busy(g)' => Busy(g) /\ req'[g] = req[g]
    BY <1>2, Moves DEF Onward, Busy
  <2> QED BY <2>1 DEF Serial
<1>3. CASE \E o \in Objects : ToggleDeleted(o)
  BY <1>3 DEF ToggleDeleted, Serial, Busy
<1>4. CASE UNCHANGED vars
  <2>1. todo' = todo /\ req' = req
    BY <1>4 DEF vars
  <2> QED BY <2>1 DEF Serial, Busy
<1> QED BY <1>1, <1>2, <1>3, <1>4, NextCases DEF Queued

LEMMA QueueStep ==
  ASSUME Queued, [Next]_vars
  PROVE  QueueInv'
<1>1. ASSUME NEW h \in Handlers, NEW op \in Edits \cup Audits, NEW o \in Objects,
             NEW r \in Texts, NEW t \in Texts, Start(h, op, o, r, t)
      PROVE  QueueInv'
  <2>1. \A g \in Handlers : Past(g)' => Past(g) /\ req'[g] = req[g]
    BY <1>1, Received DEF Queued, Past, Busy
  <2>2. revision' = revision
    BY <1>1 DEF Start
  <2> QED BY <2>1, <2>2 DEF Queued, QueueInv, Sound, Waits
<1>2. ASSUME NEW h \in Handlers, Statement(h)
      PROVE  QueueInv'
  <2> USE DEF Queued
  <2>1. Len(revision) \in Nat
    BY DEF Typed, DataOK
  <2>2. \A r \in 1..Len(revision) : revision'[r].obj = revision[r].obj
    BY <1>2, StatementTyped DEF Statement, RowsStay
  <2>3. \A r \in Nat :
          Waits(r)' <=> \/ Waits(r) /\ ~(Close(h) /\ r = req[h].rev)
                        \/ AddRevision(h) /\ req[h].op # "edit" /\ r = Len(revision) + 1
    BY <1>2, WaitsSteps
  <2>4. AddRevision(h) => /\ Past(h) /\ req[h].op \in Edits /\ Busy(h)
                          /\ revision'[Len(revision) + 1].obj = req[h].obj
    <3>1. AddRevision(h) => Busy(h) /\ Head(todo[h]) = "addRevision"
      BY DEF AddRevision, At
    <3>2. AddRevision(h) => revision'[Len(revision) + 1].obj = req[h].obj
      BY <1>2, RowSteps DEF Added, AddRevision, Close, At
    <3> QED BY <3>1, <3>2, HandlerFacts DEF Past, LeftOK, Audits
  <2>5. Close(h) => Past(h) /\ req[h].op \in Audits
    <3>1. Close(h) => Busy(h) /\ Head(todo[h]) = "close"
      BY DEF Close, At
    <3> QED BY <3>1, HandlerFacts DEF Past, LeftOK, Edits
  <2>6. \A r, s \in Nat : Waits(r)' /\ Waits(s)' /\ revision'[r].obj = revision'[s].obj => r = s
    BY <2>1, <2>2, <2>3, <2>4 DEF QueueInv, Sound, Waits
  <2>7. ASSUME NEW g \in Handlers, Past(g)', g # h
        PROVE  Sound(g)'
    <3>1. Past(g) /\ req'[g] = req[g]
      BY <1>2, <2>7, Moves DEF Onward, Past, Busy
    <3>2. ASSUME req[g].op \in Edits, NEW r \in Nat, Waits(r)'
          PROVE  revision'[r].obj # req[g].obj
      <4>1. CASE Waits(r)
        BY <2>2, <3>1, <3>2, <4>1 DEF QueueInv, Sound, Waits
      <4>2. CASE AddRevision(h) /\ r = Len(revision) + 1
        BY <2>4, <2>7, <3>1, <4>2, OneWriter
      <4> QED BY <2>3, <3>2, <4>1, <4>2
    <3>3. ASSUME req[g].op \in Audits, NEW r \in Nat, r = req[g].rev
          PROVE  Waits(r)'
      <4>1. Waits(req[g].rev) /\ req[g].rev \in Nat /\ revision[req[g].rev].obj = req[g].obj
        BY <2>1, <3>1, <3>3, HandlerFacts DEF QueueInv, Sound, Waits, Past
      <4>2. Close(h) => req[h].rev # req[g].rev
        <5>1. ASSUME Close(h), req[h].rev = req[g].rev
              PROVE  FALSE
          <6>1. revision[req[h].rev].obj = req[h].obj
            BY <2>5, <5>1, HandlerFacts DEF Past
          <6> QED BY <2>5, <2>7, <3>1, <4>1, <5>1, <6>1, OneWriter
        <5> QED BY <5>1
      <4> QED BY <2>3, <3>3, <4>1, <4>2
    <3>4. req[g].op \in Audits => req[g].rev \in Nat
      BY <2>1, <3>1 DEF QueueInv, Sound, Waits
    <3> QED BY <3>1, <3>2, <3>3, <3>4 DEF Sound
  <2>8. ASSUME Past(h)'
        PROVE  Sound(h)'
    <3>1. /\ Busy(h) /\ req'[h] = req[h] /\ LeftOK(req[h].op, Kind[req[h].obj], todo[h])
          /\ req[h].op \in Edits \cup Audits
      BY <1>2, <2>8, Moves, HandlerFacts DEF Onward, Past, Busy
    <3>2. ~AddRevision(h) /\ ~Close(h)
      <4>1. Head(todo'[h]) # "reward" /\ todo'[h] # <<>>
        BY <2>8 DEF Past, Busy
      <4>2. ~FailToSave(h) => todo'[h] = Tail(todo[h])
        BY <1>2, <4>1, Moves
      <4>3. (AddRevision(h) \/ Close(h)) => ~FailToSave(h)
        BY DEF AddRevision, Close, FailToSave, At
      <4> QED BY <3>1, <4>1, <4>2, <4>3 DEF LeftOK, AddRevision, Close, At
    <3>3. \A r \in Nat : Waits(r)' <=> Waits(r)
      BY <2>3, <3>2
    <3>4. /\ req[h].op \in Edits => \A r \in Nat : Waits(r) => revision[r].obj # req[h].obj
          /\ req[h].op \in Audits => \E r \in Nat : r = req[h].rev /\ Waits(r)
      <4>1. CASE Past(h)
        BY <4>1 DEF QueueInv, Sound
      <4>2. CASE Head(todo[h]) = "checkQueue"
        <5>1. CheckQueue(h)
          BY <1>2, <2>8, <4>2, Moves DEF Statement, Step, At, ReadObject, SaveText, ChangeTags,
             AddRevision, ReadRevision, FindTag, Close, Reward, FailTags, FailToSave, Past, Busy
        <5>2. Unreviewed(req[h].obj) = {}
          BY <1>2, <2>8, <5>1, Moves DEF CheckQueue, FailToSave, At, Past, Busy
        <5>3. req[h].op \in Edits
          BY <3>1, <4>2 DEF LeftOK
        <5> QED BY <2>1, <5>2, <5>3 DEF Unreviewed, Waits, Typed, DataOK, Edits, Audits
      <4>3. CASE Head(todo[h]) = "readRevision"
        <5>1. ReadRevision(h)
          BY <1>2, <2>8, <4>3, Moves DEF Statement, Step, At, ReadObject, SaveText, ChangeTags,
             AddRevision, CheckQueue, FindTag, Close, Reward, FailTags, FailToSave, Past, Busy
        <5>2. revision[req[h].rev].status = "unreviewed"
          BY <1>2, <2>8, <5>1, Moves DEF ReadRevision, FailToSave, At, Past, Busy
        <5>3. req[h].op \in Audits
          BY <3>1, <4>3 DEF LeftOK
        <5>4. req[h].rev \in 1..Len(revision) /\ req[h].rev \in Nat
          BY <2>1, <3>1, <5>3, HandlerFacts
        <5> QED BY <5>2, <5>3, <5>4 DEF Waits, Edits, Audits
      <4>4. CASE Head(todo[h]) = "reward"
        <5>1. todo'[h] # <<>> /\ Tail(todo[h]) = <<>> /\ ~FailToSave(h)
          BY <2>8, <3>1, <4>4 DEF Past, Busy, LeftOK, FailToSave, At
        <5> QED BY <1>2, <5>1, Moves
      <4> QED BY <3>1, <4>1, <4>2, <4>3, <4>4 DEF Past
    <3>5. \A r \in Nat : Waits(r) => revision'[r].obj = revision[r].obj
      BY <2>2 DEF Waits
    <3> QED BY <3>1, <3>3, <3>4, <3>5 DEF Sound
  <2> QED BY <2>6, <2>7, <2>8 DEF QueueInv, Sound
<1>3. CASE \E o \in Objects : ToggleDeleted(o)
  BY <1>3 DEF ToggleDeleted, Queued, QueueInv, Sound, Past, Busy, Waits
<1>4. CASE UNCHANGED vars
  <2>1. todo' = todo /\ req' = req /\ revision' = revision
    BY <1>4 DEF vars
  <2> QED BY <2>1 DEF Queued, QueueInv, Sound, Past, Busy, Waits
<1> QED BY <1>1, <1>2, <1>3, <1>4, NextCases DEF Queued

LEMMA QueuedInit == Init => Queued
BY TypedInit DEF Init, Queued, Serial, QueueInv, Sound, Waits, Past, Busy

LEMMA QueuedStep ==
  ASSUME OneAtATime, Queued, [Next]_vars
  PROVE  Queued'
BY TypedStep, SerialStep, QueueStep DEF Queued

\* "This post currently has an edit waiting" (UpdateQuestion, AnswerService.Update
\* and UpdateTag): with one edit and one audit of an object at a time, at most
\* one edit of it waits, whatever fails.
THEOREM OneEditWaits == OneAtATime => (Spec => []OneUnreviewed)
<1> SUFFICES ASSUME OneAtATime PROVE Spec => []OneUnreviewed
  OBVIOUS
<1>1. Queued => OneUnreviewed
  <2> SUFFICES ASSUME Queued, NEW o \in Objects, NEW r \in Unreviewed(o), NEW s \in Unreviewed(o)
               PROVE  r = s
    BY DEF OneUnreviewed
  <2>1. DOMAIN revision = 1..Len(revision) /\ Len(revision) \in Nat
    BY DEF Queued, Typed, DataOK
  <2>2. r \in Nat /\ s \in Nat /\ Waits(r) /\ Waits(s) /\ revision[r].obj = revision[s].obj
    BY <2>1 DEF Unreviewed, Waits
  <2> QED BY <2>2 DEF Queued, QueueInv, Sound
<1>2. Queued /\ [Next]_vars => Queued'
  BY QueuedStep
<1> QED BY <1>1, <1>2, QueuedInit, PTL DEF Spec

-----------------------------------------------------------------------------
(* The tags of a question *)

\* What a statement does to the objects.
LEMMA ObjectSteps ==
  ASSUME Typed, NEW h \in Handlers, Statement(h), NEW o \in Objects
  PROVE  /\ Busy(h) /\ req[h].obj \in Objects
         /\ text'[o] = IF SaveText(h) /\ o = req[h].obj THEN req[h].text ELSE text[o]
         /\ ~(ChangeTags(h) \/ FailTags(h)) \/ o # req[h].obj => tagsOf'[o] = tagsOf[o]
         /\ ChangeTags(h) /\ o = req[h].obj => tagsOf'[o] = req[h].text
         /\ broken[o] => broken'[o]
         /\ (Fail(h) \/ FailTags(h) \/ FailToSave(h)) /\ o = req[h].obj => broken'[o]
<1>1. Busy(h)
  BY Moves
<1>2. req[h].obj \in Objects
  BY <1>1, HandlerFacts
<1>3. /\ text \in [Objects -> Texts] /\ tagsOf \in [Objects -> Texts \cup {Mixed}]
      /\ broken \in [Objects -> BOOLEAN]
  BY DEF Typed, DataOK
<1>4. (Fail(h) \/ FailTags(h) \/ FailToSave(h)) /\ o = req[h].obj => broken'[o]
  BY <1>2, <1>3 DEF Fail, FailTags, FailToSave, Break
<1>5. CASE SaveText(h)
  <2>1. ~ChangeTags(h) /\ ~FailTags(h) /\ broken' = broken
    BY <1>5 DEF SaveText, ChangeTags, FailTags, At
  <2> QED BY <1>1, <1>2, <1>3, <1>5, <1>4, <2>1 DEF SaveText
<1>6. CASE ChangeTags(h)
  <2>1. ~SaveText(h) /\ broken' = broken
    BY <1>6 DEF SaveText, ChangeTags, At
  <2> QED BY <1>1, <1>2, <1>3, <1>6, <1>4, <2>1 DEF ChangeTags, object
<1>7. CASE FailTags(h)
  BY <1>1, <1>2, <1>3, <1>7 DEF FailTags, Break, SaveText, ChangeTags, At
<1>8. CASE Fail(h) \/ FailToSave(h)
  <2>1. /\ text' = text /\ tagsOf' = tagsOf
        /\ broken' = [broken EXCEPT ![req[h].obj] = TRUE]
    BY <1>8 DEF Fail, FailToSave, Break, object
  <2>2. SaveText(h) => broken' = broken
    BY DEF SaveText
  <2>3. CASE SaveText(h) \/ ChangeTags(h)
    BY <1>5, <1>6, <2>3
  <2> QED BY <1>1, <1>2, <1>3, <2>1, <2>3
<1>9. CASE \/ CheckQueue(h) \/ ReadObject(h) \/ AddRevision(h) \/ ReadRevision(h)
           \/ FindTag(h) \/ Close(h) \/ Reward(h)
  <2>1. text' = text /\ tagsOf' = tagsOf /\ broken' = broken /\ ~SaveText(h) /\ ~ChangeTags(h)
    BY <1>9 DEF CheckQueue, ReadObject, AddRevision, ReadRevision, FindTag, Close, Reward, object,
       SaveText, ChangeTags, At
  <2>2. CASE Fail(h) \/ FailTags(h) \/ FailToSave(h)
    BY <1>7, <1>8, <2>2
  <2> QED BY <1>1, <1>2, <1>3, <2>1, <2>2
<1> QED BY <1>5, <1>6, <1>7, <1>8, <1>9 DEF Statement, Step

\* Who is about to change tags has saved the text they belong to, and nobody
\* has saved another one since.
TagInv ==
  /\ \A h \in Handlers : At(h, "changeTags") => text[req[h].obj] = req[h].text
  /\ \A o \in Objects : Kind[o] = "question" /\ ~broken[o] =>
       \/ tagsOf[o] = text[o]
       \/ \E h \in Handlers : At(h, "changeTags") /\ req[h].obj = o

\* Which step a handler at a given statement is about to take.
LEMMA StatementAt ==
  ASSUME Typed, NEW h \in Handlers, Statement(h)
  PROVE  /\ SaveText(h) => Head(todo[h]) = "saveText"
         /\ At(h, "changeTags") => ChangeTags(h) \/ FailTags(h) \/ Fail(h)
         /\ At(h, "close") => Close(h) \/ Fail(h)
         /\ At(h, "saveText") => SaveText(h) \/ Fail(h) \/ FailToSave(h)
         /\ At(h, "reward") => Reward(h) \/ Fail(h)
BY DEF Statement, Step, CheckQueue, ReadObject, SaveText, ChangeTags, AddRevision, ReadRevision,
       FindTag, Close, Reward, FailTags, FailToSave, At

\* A handler that saves a text goes on.
LEMMA Saves ==
  ASSUME Typed, NEW h \in Handlers, SaveText(h)
  PROVE  /\ Busy(h) /\ Head(todo[h]) = "saveText" /\ LeftOK(req[h].op, Kind[req[h].obj], todo[h])
         /\ todo'[h] = Tail(todo[h]) /\ Busy(h)' /\ req'[h] = req[h]
<1>1. Busy(h) /\ Head(todo[h]) = "saveText" /\ Advance(h)
  BY DEF SaveText, At
<1>2. LeftOK(req[h].op, Kind[req[h].obj], todo[h])
  BY <1>1, HandlerFacts
<1> QED BY <1>1, <1>2, AdvanceOnward DEF LeftOK, Busy

LEMMA TagStep ==
  ASSUME Queued, TagInv, [Next]_vars
  PROVE  TagInv'
<1> USE DEF Queued
<1>1. ASSUME NEW h \in Handlers, NEW op \in Edits \cup Audits, NEW o \in Objects,
             NEW r \in Texts, NEW t \in Texts, Start(h, op, o, r, t)
      PROVE  TagInv'
  <2>1. ~At(h, "changeTags")' /\ ~At(h, "changeTags")
    BY <1>1, Received DEF At, Past
  <2>2. \A g \in Handlers \ {h} : todo'[g] = todo[g] /\ req'[g] = req[g]
    BY <1>1, Received
  <2>3. \A g \in Handlers : /\ At(g, "changeTags")' <=> At(g, "changeTags")
                            /\ At(g, "changeTags") => req'[g] = req[g]
    BY <2>1, <2>2 DEF At, Busy
  <2>4. text' = text /\ tagsOf' = tagsOf /\ broken' = broken
    BY <1>1 DEF Start, object
  <2> QED BY <2>3, <2>4 DEF TagInv
<1>2. ASSUME NEW h \in Handlers, Statement(h)
      PROVE  TagInv'
  <2>1. \A g \in Handlers \ {h} : /\ At(g, "changeTags")' <=> At(g, "changeTags")
                                  /\ req'[g] = req[g]
    BY <1>2, Moves DEF Onward, At, Busy
  <2>2. ASSUME NEW g \in Handlers, At(g, "changeTags")'
        PROVE  text'[req'[g].obj] = req'[g].text
    <3>1. CASE g # h
      <4>1. At(g, "changeTags") /\ req'[g] = req[g] /\ Past(g)
        BY <2>1, <2>2, <3>1 DEF At, Past
      <4>2. ~(SaveText(h) /\ req[h].obj = req[g].obj)
        BY <3>1, <4>1, Saves, OneWriter DEF Past
      <4>3. req[g].obj \in Objects
        BY <4>1, HandlerFacts DEF At
      <4> QED BY <1>2, <4>1, <4>2, <4>3, ObjectSteps DEF TagInv
    <3>2. CASE g = h
      <4>1. Busy(h) /\ todo'[h] # <<>> /\ Head(todo'[h]) = "changeTags" /\ req'[h] = req[h]
        BY <1>2, <2>2, <3>2, Moves DEF At, Busy, Onward
      <4>2. todo'[h] = Tail(todo[h]) /\ ~Fail(h) /\ ~FailToSave(h)
        BY <1>2, <4>1, Moves
      <4>3. SaveText(h)
        BY <1>2, <4>1, <4>2, HandlerFacts, StatementAt DEF LeftOK, At
      <4>4. req[h].obj \in Objects
        BY <4>1, HandlerFacts
      <4> QED BY <1>2, <3>2, <4>1, <4>3, <4>4, ObjectSteps
    <3> QED BY <3>1, <3>2
  <2>3. ASSUME NEW o \in Objects, Kind[o] = "question", ~broken'[o]
        PROVE  \/ tagsOf'[o] = text'[o]
               \/ \E g \in Handlers : At(g, "changeTags")' /\ req'[g].obj = o
    <3>1. ~broken[o] /\ ~((Fail(h) \/ FailTags(h) \/ FailToSave(h)) /\ o = req[h].obj)
      BY <1>2, <2>3, ObjectSteps
    <3>2. CASE SaveText(h) /\ req[h].obj = o
      <4>1. Busy(h)' /\ Head(todo'[h]) = "changeTags" /\ req'[h] = req[h]
        BY <2>3, <3>2, Saves DEF LeftOK
      <4> QED BY <3>2, <4>1 DEF At
    <3>3. CASE ChangeTags(h) /\ req[h].obj = o
      <4>1. At(h, "changeTags") /\ ~SaveText(h)
        BY <3>3 DEF ChangeTags, SaveText, At
      <4> QED BY <1>2, <3>3, <4>1, ObjectSteps DEF TagInv
    <3>4. CASE ~((SaveText(h) \/ ChangeTags(h)) /\ req[h].obj = o)
      <4>1. text'[o] = text[o] /\ tagsOf'[o] = tagsOf[o]
        BY <1>2, <3>1, <3>4, ObjectSteps
      <4>2. CASE tagsOf[o] = text[o]
        BY <4>1, <4>2
      <4>3. CASE \E g \in Handlers : At(g, "changeTags") /\ req[g].obj = o
        <5>1. PICK g \in Handlers : At(g, "changeTags") /\ req[g].obj = o
          BY <4>3
        <5>2. g # h
          BY <1>2, <3>1, <3>4, <5>1, StatementAt
        <5> QED BY <2>1, <5>1, <5>2
      <4> QED BY <2>3, <3>1, <4>2, <4>3 DEF TagInv
    <3> QED BY <3>2, <3>3, <3>4
  <2> QED BY <2>2, <2>3 DEF TagInv
<1>3. CASE \E o \in Objects : ToggleDeleted(o)
  BY <1>3 DEF ToggleDeleted, TagInv, At, Busy
<1>4. CASE UNCHANGED vars
  BY <1>4 DEF vars, TagInv, At, Busy
<1> QED BY <1>1, <1>2, <1>3, <1>4, NextCases

\* UpdateQuestion and revisionAuditQuestion write a text and its tags in two
\* statements: with one edit and one audit of a question at a time it has the
\* tags of the text it shows once nobody serves it, unless a request has failed.
THEOREM TagsAreOfText == OneAtATime => (Spec => []TagsFollowText)
<1> SUFFICES ASSUME OneAtATime PROVE Spec => []TagsFollowText
  OBVIOUS
<1>1. Init => TagInv
  BY DEF Init, TagInv, At, Busy
<1>2. Queued /\ TagInv => TagsFollowText
  BY DEF TagInv, TagsFollowText, Served, At
<1>3. Queued /\ TagInv /\ [Next]_vars => Queued' /\ TagInv'
  BY QueuedStep, TagStep
<1> QED BY <1>1, <1>2, <1>3, QueuedInit, PTL DEF Spec

-----------------------------------------------------------------------------
(* A rejected text is not shown *)

\* A request brings a text of its own; one that is only suggested is nowhere
\* shown before its revision is recorded.
TextInv ==
  /\ \A o \in Objects : text[o] \in 0..received
  /\ \A r \in 1..Len(revision) : revision[r].text \in 1..received
  /\ \A r, s \in 1..Len(revision) : revision[r].text = revision[s].text => r = s
  /\ \A h \in Handlers : Busy(h) /\ req[h].op \in Edits =>
       /\ req[h].text \in 1..received
       /\ \A r \in 1..Len(revision) : revision[r].text # req[h].text
       /\ req[h].op = "suggest" => \A o \in Objects : text[o] # req[h].text
  /\ \A g, h \in Handlers :
       Busy(g) /\ Busy(h) /\ req[g].op \in Edits /\ req[h].op \in Edits
         /\ req[g].text = req[h].text => g = h

LEMMA TextStart ==
  ASSUME Typed, TextInv, NEW h \in Handlers, NEW op \in Edits \cup Audits, NEW o \in Objects,
         NEW r \in Texts, NEW t \in Texts, Start(h, op, o, r, t), op \in Edits => t = received + 1
  PROVE  TextInv'
<1>1. /\ ~Busy(h) /\ req'[h].op = op /\ req'[h].text = t
      /\ \A g \in Handlers \ {h} : todo'[g] = todo[g] /\ req'[g] = req[g]
      /\ text' = text /\ revision' = revision
  <2>1. /\ ~Busy(h) /\ req'[h] = [op |-> op, obj |-> o, rev |-> r, text |-> t]
        /\ \A g \in Handlers \ {h} : todo'[g] = todo[g] /\ req'[g] = req[g]
        /\ UNCHANGED <<object, revisionId, revision, rewarded, broken>>
    BY Received
  <2> QED BY <2>1 DEF object
<1>2. received \in Nat /\ received' = received + 1
  BY RevisionAssumption DEF Start, Typed, DataOK, Texts
<1>3. \A g \in Handlers \ {h} : Busy(g)' <=> Busy(g)
  BY <1>1 DEF Busy
<1>4. ASSUME NEW g \in Handlers, Busy(g)', req'[g].op \in Edits
      PROVE  /\ req'[g].text \in 1..received'
             /\ \A s \in 1..Len(revision) : revision[s].text # req'[g].text
             /\ req'[g].op = "suggest" => \A p \in Objects : text[p] # req'[g].text
  <2>1. CASE g = h
    BY <1>1, <1>2, <1>4, <2>1 DEF TextInv
  <2>2. CASE g # h
    BY <1>1, <1>2, <1>3, <1>4, <2>2 DEF TextInv
  <2> QED BY <2>1, <2>2
<1>5. ASSUME NEW f \in Handlers, NEW g \in Handlers, Busy(f)', Busy(g)', req'[f].op \in Edits,
             req'[g].op \in Edits, req'[f].text = req'[g].text
      PROVE  f = g
  <2>1. CASE f # h /\ g # h
    BY <1>1, <1>3, <1>5, <2>1 DEF TextInv
  <2>2. ASSUME NEW e \in Handlers \ {h}, Busy(e)', req'[e].op \in Edits
        PROVE  req'[e].text \in 1..received
    BY <1>1, <1>3, <2>2 DEF TextInv
  <2>3. req'[h].op \in Edits => req'[h].text = received + 1
    BY <1>1
  <2> QED BY <1>2, <1>5, <2>1, <2>2, <2>3
<1>6. \A p \in Objects : text'[p] \in 0..received'
  BY <1>1, <1>2 DEF TextInv
<1>7. \A s \in 1..Len(revision) : revision[s].text \in 1..received'
  BY <1>2 DEF TextInv
<1>8. \A q, s \in 1..Len(revision) : revision[q].text = revision[s].text => q = s
  BY DEF TextInv
<1> QED BY <1>1, <1>4, <1>5, <1>6, <1>7, <1>8 DEF TextInv

LEMMA TextStatement ==
  ASSUME Typed, TextInv, NEW h \in Handlers, Statement(h)
  PROVE  TextInv'
<1>1. /\ Busy(h) /\ LeftOK(req[h].op, Kind[req[h].obj], todo[h])
      /\ req[h].op \in Edits \cup Audits
      /\ req[h].op \in Audits => /\ req[h].rev \in 1..Len(revision)
                                 /\ revision[req[h].rev].text = req[h].text
  BY Moves, HandlerFacts
<1>2. Len(revision) \in Nat /\ received' = received
  BY DEF Typed, DataOK, Statement, Step, CheckQueue, ReadObject, SaveText, ChangeTags, AddRevision,
         ReadRevision, FindTag, Close, Reward, Fail, FailTags, FailToSave
<1>3. \A g \in Handlers : Busy(g)' => Busy(g) /\ req'[g] = req[g]
  BY Moves DEF Onward, Busy
<1>4. AddRevision(h) => req[h].op \in Edits /\ ~Busy(h)' /\ ~SaveText(h)
  <2> SUFFICES ASSUME AddRevision(h) PROVE req[h].op \in Edits /\ ~Busy(h)' /\ ~SaveText(h)
    OBVIOUS
  <2>1. Head(todo[h]) = "addRevision" /\ Advance(h) /\ ~SaveText(h)
    BY DEF AddRevision, SaveText, At
  <2>2. todo'[h] = Tail(todo[h])
    BY <1>1, <2>1, AdvanceOnward
  <2> QED BY <1>1, <2>1, <2>2 DEF LeftOK, Busy, Audits
<1>5. SaveText(h) => req[h].op # "suggest"
  BY <1>1, StatementAt DEF LeftOK
<1>6. \A o \in Objects :
        text'[o] = IF SaveText(h) /\ o = req[h].obj THEN req[h].text ELSE text[o]
  BY ObjectSteps
<1>7. \A o \in Objects : text'[o] \in 0..received
  <2>1. req[h].text \in 0..received
    BY <1>1 DEF TextInv
  <2> QED BY <1>6, <2>1 DEF TextInv
<1>8. \A g \in Handlers : Busy(g) /\ req[g].op = "suggest" =>
        \A o \in Objects : text'[o] # req[g].text
  <2> SUFFICES ASSUME NEW g \in Handlers, Busy(g), req[g].op = "suggest", NEW o \in Objects
               PROVE  text'[o] # req[g].text
    OBVIOUS
  <2>1. req[g].op \in Edits
    BY DEF Edits
  <2>2. CASE SaveText(h) /\ o = req[h].obj
    BY <1>1, <1>5, <1>6, <2>1, <2>2 DEF TextInv
  <2>3. CASE ~(SaveText(h) /\ o = req[h].obj)
    BY <1>6, <2>1, <2>3 DEF TextInv
  <2> QED BY <2>2, <2>3
<1>9. /\ \A r \in 1..Len(revision') : revision'[r].text \in 1..received
      /\ \A r, s \in 1..Len(revision') : revision'[r].text = revision'[s].text => r = s
      /\ \A g \in Handlers : Busy(g)' /\ req[g].op \in Edits =>
           \A r \in 1..Len(revision') : revision'[r].text # req[g].text
  <2>1. CASE AddRevision(h) /\ Added(h)
    <3>1. \A r \in 1..Len(revision') :
            revision'[r].text = IF r = Len(revision) + 1 THEN req[h].text ELSE revision[r].text
      BY <1>2, <2>1 DEF Added
    <3>2. /\ req[h].text \in 1..received
          /\ \A r \in 1..Len(revision) : revision[r].text # req[h].text
      BY <1>1, <1>4, <2>1 DEF TextInv
    <3>3. \A g \in Handlers : Busy(g)' /\ req[g].op \in Edits => req[g].text # req[h].text
      BY <1>1, <1>3, <1>4, <2>1 DEF TextInv
    <3>4. \A r \in 1..Len(revision') : r = Len(revision) + 1 \/ r \in 1..Len(revision)
      BY <1>2, <2>1 DEF Added
    <3>5. \A r \in 1..Len(revision') : revision'[r].text \in 1..received
      BY <3>1, <3>2, <3>4 DEF TextInv
    <3>6. \A r, s \in 1..Len(revision') : revision'[r].text = revision'[s].text => r = s
      BY <3>1, <3>2, <3>4 DEF TextInv
    <3>7. \A g \in Handlers : Busy(g)' /\ req[g].op \in Edits =>
            \A r \in 1..Len(revision') : revision'[r].text # req[g].text
      BY <1>3, <3>1, <3>3, <3>4 DEF TextInv
    <3> QED BY <3>5, <3>6, <3>7
  <2>2. CASE revision' = revision \/ Closed(h)
    <3>1. /\ Len(revision') = Len(revision)
          /\ \A r \in 1..Len(revision) : revision'[r].text = revision[r].text
      BY <2>2 DEF Closed
    <3> QED BY <1>3, <3>1 DEF TextInv
  <2> QED BY <2>1, <2>2, RowSteps
<1> QED BY <1>2, <1>3, <1>7, <1>8, <1>9 DEF TextInv, Edits

LEMMA TextStep ==
  ASSUME Typed, TextInv, [Next]_vars
  PROVE  TextInv'
<1>1. CASE \E o \in Objects : ToggleDeleted(o)
  <2>1. /\ text' = text /\ revision' = revision /\ todo' = todo /\ req' = req
        /\ received \in Nat /\ received' = received + 1
    BY <1>1, RevisionAssumption DEF ToggleDeleted, Typed, DataOK, Texts
  <2>2. 0..received \subseteq 0..received' /\ 1..received \subseteq 1..received'
    BY <2>1
  <2> QED BY <2>1, <2>2 DEF TextInv, Busy
<1>2. CASE UNCHANGED vars
  <2>1. /\ text' = text /\ revision' = revision /\ todo' = todo /\ req' = req
        /\ received' = received
    BY <1>2 DEF vars
  <2> QED BY <2>1 DEF TextInv, Busy
<1> QED BY <1>1, <1>2, NextCases, TextStart, TextStatement

\* Handler h has saved the text of revision r and is about to say so.
Approving(h, r) ==
  /\ Busy(h) /\ req[h].op = "approve" /\ req[h].rev = r
  /\ Head(todo[h]) \in {"changeTags", "close"}

Excused(o) == broken[o] \/ Kind[o] = "tag"

\* A text that waits is shown only while it is approved, a rejected one never,
\* and points are given for what has passed.
ShownInv ==
  /\ \A r \in 1..Len(revision) :
       revision[r].status = "unreviewed" /\ revision[r].text = text[revision[r].obj] =>
         Excused(revision[r].obj) \/ \E h \in Handlers : Approving(h, r)
  /\ \A r \in 1..Len(revision) :
       revision[r].status = "rejected" /\ revision[r].text = text[revision[r].obj] =>
         Excused(revision[r].obj)
  /\ \A r \in rewarded : revision[r].status = "passed"
  /\ \A h \in Handlers : At(h, "reward") =>
       \E r \in rewarded \cup 1..Len(revision) : r = req[h].rev /\ revision[r].status = "passed"

Decided == Queued /\ TextInv /\ ShownInv

\* A statement leaves a revision that is neither added nor closed as it is, and
\* saves its text only to approve it.
LEMMA RowKept ==
  ASSUME Decided, NEW h \in Handlers, Statement(h), NEW r \in 1..Len(revision)
  PROVE  /\ r \in Nat /\ r \in 1..Len(revision') /\ revision[r].obj \in Objects
         /\ revision'[r].obj = revision[r].obj /\ revision'[r].text = revision[r].text
         /\ \/ revision'[r].status = revision[r].status
            \/ /\ Closed(h) /\ r = req[h].rev /\ Waits(r)
               /\ req[h].obj = revision[r].obj /\ Past(h)
               /\ revision'[r].status = IF req[h].op = "approve" THEN "passed" ELSE "rejected"
         /\ \/ text'[revision[r].obj] = text[revision[r].obj]
            \/ text'[revision[r].obj] # revision[r].text
            \/ SaveText(h) /\ req[h].op = "approve" /\ req[h].rev = r /\ Waits(r)
         /\ Excused(revision[r].obj) => Excused(revision[r].obj)'
<1> USE DEF Decided, Queued
<1>1. Len(revision) \in Nat /\ revision[r] \in Revision
  BY DEF Typed, DataOK
<1>2. /\ r \in 1..Len(revision')
      /\ revision'[r].obj = revision[r].obj /\ revision'[r].text = revision[r].text
  BY <1>1, StatementTyped DEF Statement, RowsStay
<1>3. revision[r].obj \in Objects
  BY <1>1 DEF Revision
<1>4. /\ Busy(h) /\ LeftOK(req[h].op, Kind[req[h].obj], todo[h])
      /\ req[h].op \in Edits \cup Audits
      /\ req[h].op \in Audits => /\ req[h].rev \in 1..Len(revision)
                                 /\ revision[req[h].rev].obj = req[h].obj
                                 /\ revision[req[h].rev].text = req[h].text
  BY Moves, HandlerFacts
<1>5. Closed(h) /\ r = req[h].rev => Waits(r) /\ req[h].obj = revision[r].obj /\ Past(h)
  BY <1>4 DEF Closed, QueueInv, Sound, Past, At
<1>6. \/ revision'[r].status = revision[r].status
      \/ /\ Closed(h) /\ r = req[h].rev
         /\ revision'[r].status = IF req[h].op = "approve" THEN "passed" ELSE "rejected"
  BY RowSteps DEF Added, Closed
<1>7. \/ text'[revision[r].obj] = text[revision[r].obj]
      \/ text'[revision[r].obj] # revision[r].text
      \/ SaveText(h) /\ req[h].op = "approve" /\ req[h].rev = r /\ Waits(r)
  <2> SUFFICES ASSUME text'[revision[r].obj] # text[revision[r].obj],
                      text'[revision[r].obj] = revision[r].text
               PROVE  SaveText(h) /\ req[h].op = "approve" /\ req[h].rev = r /\ Waits(r)
    OBVIOUS
  <2>1. SaveText(h) /\ req[h].text = revision[r].text
    BY <1>3, ObjectSteps
  <2>2. Head(todo[h]) = "saveText" /\ Past(h)
    BY <1>4, <2>1, StatementAt DEF Past
  <2>3. req[h].op \in Audits
    BY <1>4, <2>1 DEF TextInv
  <2>4. req[h].op = "approve"
    BY <1>4, <2>2, <2>3 DEF LeftOK, Audits
  <2>5. req[h].rev = r
    BY <1>4, <2>1, <2>3 DEF TextInv
  <2> QED BY <2>1, <2>2, <2>3, <2>4, <2>5 DEF QueueInv, Sound
<1>8. Excused(revision[r].obj) => Excused(revision[r].obj)'
  BY <1>2, <1>3, ObjectSteps DEF Excused
<1> QED BY <1>1, <1>2, <1>3, <1>5, <1>6, <1>7, <1>8

\* Whoever approves goes on until the revision is closed, or breaks its object.
LEMMA ApprovingKept ==
  ASSUME Decided, NEW h \in Handlers, Statement(h), NEW g \in Handlers,
         NEW r \in 1..Len(revision), Approving(g, r)
  PROVE  Approving(g, r)' \/ Excused(revision[r].obj)' \/ (Closed(h) /\ r = req[h].rev)
<1> USE DEF Decided, Queued
<1>1. /\ Busy(g) /\ req[g].op = "approve" /\ req[g].rev = r
      /\ Head(todo[g]) \in {"changeTags", "close"} /\ req[g].op \in Audits
  BY DEF Approving, Audits
<1>2. revision[r].obj = req[g].obj /\ LeftOK(req[g].op, Kind[req[g].obj], todo[g])
      /\ req[g].obj \in Objects
  BY <1>1, HandlerFacts
<1>3. revision'[r].obj = revision[r].obj
  BY RowKept
<1>4. CASE g # h
  BY <1>4, Moves DEF Onward, Approving, Busy
<1>5. CASE g = h
  <2>1. CASE Fail(h) \/ FailTags(h)
    <3>1. broken'[req[g].obj]
      BY <1>2, <1>5, <2>1, ObjectSteps
    <3> QED BY <1>2, <1>3, <3>1 DEF Excused
  <2>2. CASE Close(h)
    <3>1. Closed(h)
      BY <2>2, RowSteps DEF AddRevision, Close, At
    <3> QED BY <1>1, <1>5, <3>1
  <2>3. CASE ChangeTags(h)
    <3>1. Head(todo[h]) = "changeTags" /\ Advance(h) /\ Busy(h)
      BY <2>3 DEF ChangeTags, At
    <3>2. todo'[h] = Tail(todo[h]) /\ Tail(todo[h]) # <<>> /\ Head(Tail(todo[h])) = "close"
      BY <1>1, <1>2, <1>5, <3>1, AdvanceOnward DEF LeftOK
    <3>3. req'[h] = req[h]
      BY <3>1, <3>2, AdvanceOnward
    <3> QED BY <1>1, <1>5, <3>2, <3>3 DEF Approving, Busy
  <2> QED BY <1>1, <1>5, <2>1, <2>2, <2>3, StatementAt DEF At
<1> QED BY <1>4, <1>5

LEMMA WaitingShown ==
  ASSUME Decided, NEW h \in Handlers, Statement(h), NEW r \in 1..Len(revision'),
         revision'[r].status = "unreviewed", revision'[r].text = text'[revision'[r].obj]
  PROVE  Excused(revision[r].obj)' \/ \E g \in Handlers : Approving(g, r)'
<1> USE DEF Decided, Queued
<1>1. CASE r \in 1..Len(revision)
  <2>1. /\ revision'[r].obj = revision[r].obj /\ revision'[r].text = revision[r].text
        /\ revision[r].status = "unreviewed" /\ ~(Closed(h) /\ r = req[h].rev)
        /\ revision[r].obj \in Objects
    <3>1. ~(Closed(h) /\ r = req[h].rev)
      BY <1>1 DEF Closed
    <3> QED BY <1>1, <3>1, RowKept
  <2>2. CASE text'[revision[r].obj] = text[revision[r].obj]
    <3>1. Excused(revision[r].obj) \/ \E g \in Handlers : Approving(g, r)
      BY <1>1, <2>1, <2>2 DEF ShownInv
    <3> QED BY <1>1, <2>1, <3>1, RowKept, ApprovingKept
  <2>3. CASE SaveText(h) /\ req[h].op = "approve" /\ req[h].rev = r
    <3>1. /\ Busy(h) /\ Head(todo[h]) = "saveText"
          /\ todo'[h] = Tail(todo[h]) /\ Busy(h)' /\ req'[h] = req[h]
          /\ LeftOK(req[h].op, Kind[req[h].obj], todo[h])
      BY <2>3, Saves
    <3>2. /\ Head(todo'[h]) \in {"changeTags", "findTag", "close"}
          /\ Left(req[h].op, Kind[req[h].obj], todo'[h])
      BY <2>3, <3>1 DEF LeftOK, Busy
    <3>3. revision[r].obj = req[h].obj
      BY <2>3, <3>1, HandlerFacts DEF Audits
    <3>4. CASE Head(todo'[h]) = "findTag"
      <4>1. Kind[req[h].obj] = "tag"
        <5>1. LeftOK(req[h].op, Kind[req[h].obj], todo'[h])
          BY <3>2, LeftFacts
        <5> QED BY <3>4, <5>1 DEF LeftOK
      <4> QED BY <2>1, <3>3, <4>1 DEF Excused
    <3>5. CASE Head(todo'[h]) \in {"changeTags", "close"}
      BY <2>3, <3>1, <3>5 DEF Approving
    <3> QED BY <3>2, <3>4, <3>5
  <2> QED BY <1>1, <2>1, <2>2, <2>3, RowKept
<1>2. CASE r \notin 1..Len(revision)
  <2>1. Len(revision) \in Nat
    BY DEF Typed, DataOK
  <2>2. Added(h) /\ AddRevision(h) /\ r = Len(revision) + 1
    BY <1>2, <2>1, RowSteps DEF Added, Closed
  <2>3. /\ Busy(h) /\ req[h].op \in Edits /\ req[h].op # "edit" /\ ~SaveText(h)
        /\ revision'[r].obj = req[h].obj /\ revision'[r].text = req[h].text
        /\ req[h].obj \in Objects
    <3>1. Busy(h) /\ Head(todo[h]) = "addRevision" /\ ~SaveText(h)
      BY <2>2 DEF AddRevision, SaveText, At
    <3>2. req[h].op \in Edits /\ req[h].obj \in Objects
      BY <3>1, HandlerFacts DEF LeftOK, Audits
    <3> QED BY <2>2, <3>1, <3>2 DEF Added
  <2>4. text'[req[h].obj] = text[req[h].obj]
    BY <2>3, ObjectSteps
  <2> QED BY <2>3, <2>4 DEF TextInv, Edits
<1> QED BY <1>1, <1>2

LEMMA RejectedShown ==
  ASSUME Decided, NEW h \in Handlers, Statement(h), NEW r \in 1..Len(revision'),
         revision'[r].status = "rejected", revision'[r].text = text'[revision'[r].obj]
  PROVE  Excused(revision[r].obj)'
<1> USE DEF Decided, Queued
<1>1. r \in 1..Len(revision)
  <2>1. Len(revision) \in Nat
    BY DEF Typed, DataOK
  <2> QED BY <2>1, RowSteps DEF Added, Closed
<1>2. /\ revision'[r].obj = revision[r].obj /\ revision'[r].text = revision[r].text
      /\ Excused(revision[r].obj) => Excused(revision[r].obj)'
      /\ r \in Nat
  BY <1>1, RowKept
<1>3. CASE revision[r].status = "rejected"
  <2>1. text'[revision[r].obj] = text[revision[r].obj]
    BY <1>1, <1>2, <1>3, RowKept DEF Waits
  <2> QED BY <1>1, <1>2, <1>3, <2>1 DEF ShownInv
<1>4. CASE revision[r].status # "rejected"
  <2>1. Closed(h) /\ r = req[h].rev /\ Waits(r) /\ req[h].obj = revision[r].obj /\ Past(h)
        /\ req[h].op # "approve"
    BY <1>1, <1>4, RowKept
  <2>2. text'[revision[r].obj] = text[revision[r].obj]
    <3>1. ~SaveText(h)
      BY <2>1 DEF Closed, SaveText, At
    <3> QED BY <1>1, <3>1, RowKept, ObjectSteps
  <2>3. Excused(revision[r].obj) \/ \E g \in Handlers : Approving(g, r)
    BY <1>1, <1>2, <2>1, <2>2 DEF ShownInv, Waits
  <2>4. ASSUME NEW g \in Handlers, Approving(g, r)
        PROVE  FALSE
    <3>1. Past(g) /\ req[g].rev = r /\ req[g].op = "approve" /\ Busy(g) /\ req[g].op \in Audits
      BY <2>4 DEF Approving, Past, Audits
    <3>2. req[g].obj = req[h].obj
      BY <2>1, <3>1, HandlerFacts
    <3> QED BY <2>1, <3>1, <3>2, OneWriter
  <2> QED BY <1>2, <2>3, <2>4
<1> QED BY <1>3, <1>4

LEMMA RewardStatement ==
  ASSUME Decided, NEW h \in Handlers, Statement(h)
  PROVE  /\ \A r \in rewarded' : revision'[r].status = "passed"
         /\ \A g \in Handlers : At(g, "reward")' =>
              \E r \in 1..Len(revision') : r = req'[g].rev /\ revision'[r].status = "passed"
<1> USE DEF Decided, Queued
<1>1. rewarded \subseteq 1..Len(revision)
  BY DEF Typed, DataOK
<1>2. \A r \in 1..Len(revision) : revision[r].status = "passed" =>
        r \in 1..Len(revision') /\ revision'[r].status = "passed"
  BY RowKept DEF Waits
<1>3. \A g \in Handlers : At(g, "reward") =>
        \E r \in 1..Len(revision) : r = req[g].rev /\ revision[r].status = "passed"
  BY <1>1 DEF ShownInv
<1>4. rewarded' = rewarded \/ (At(h, "reward") /\ rewarded' = rewarded \cup {req[h].rev})
  BY DEF Statement, Step, CheckQueue, ReadObject, SaveText, ChangeTags, AddRevision, ReadRevision,
     FindTag, Close, Reward, Fail, FailTags, FailToSave
<1>5. \A r \in rewarded' : revision'[r].status = "passed"
  <2>1. \A r \in rewarded : r \in 1..Len(revision) /\ revision[r].status = "passed"
    BY <1>1 DEF ShownInv
  <2>2. At(h, "reward") =>
          req[h].rev \in 1..Len(revision) /\ revision[req[h].rev].status = "passed"
    BY <1>3
  <2>3. \A r \in rewarded' : r \in 1..Len(revision) /\ revision[r].status = "passed"
    BY <1>4, <2>1, <2>2
  <2> QED BY <1>2, <2>3
<1>6. ASSUME NEW g \in Handlers, At(g, "reward")'
      PROVE  \E r \in 1..Len(revision') : r = req'[g].rev /\ revision'[r].status = "passed"
  <2>1. CASE g # h
    <3>1. At(g, "reward") /\ req'[g] = req[g]
      BY <1>6, <2>1, Moves DEF Onward, At, Busy
    <3> QED BY <1>2, <1>3, <3>1
  <2>2. CASE g = h
    <3>1. /\ Busy(h) /\ todo'[h] # <<>> /\ Head(todo'[h]) = "reward" /\ req'[h] = req[h]
          /\ LeftOK(req[h].op, Kind[req[h].obj], todo[h])
      BY <1>6, <2>2, Moves, HandlerFacts DEF At, Busy, Onward
    <3>2. Head(todo[h]) = "close" /\ req[h].op = "approve" /\ ~Fail(h)
      <4>1. ~FailToSave(h) \/ todo'[h] # <<"close", "reward">>
        BY <3>1
      <4>2. todo'[h] = Tail(todo[h]) /\ Tail(todo[h]) # <<>> /\ ~Fail(h)
        BY <1>6, <3>1, <4>1, Moves
      <4> QED BY <3>1, <4>2 DEF LeftOK
    <3>3. Closed(h)
      <4>1. Close(h)
        BY <3>1, <3>2, StatementAt DEF At
      <4> QED BY <4>1, RowSteps DEF AddRevision, Close, At
    <3> QED BY <2>2, <3>1, <3>2, <3>3 DEF Closed
  <2> QED BY <2>1, <2>2
<1> QED BY <1>5, <1>6

LEMMA ShownStep ==
  ASSUME Decided, [Next]_vars
  PROVE  ShownInv'
<1> USE DEF Decided, Queued
<1>1. ASSUME NEW h \in Handlers, NEW op \in Edits \cup Audits, NEW o \in Objects,
             NEW r \in Texts, NEW t \in Texts, Start(h, op, o, r, t)
      PROVE  ShownInv'
  <2>1. /\ ~Busy(h) /\ Busy(h)' /\ ~Past(h)' /\ Head(todo'[h]) \in {"checkQueue", "readRevision"}
        /\ \A g \in Handlers \ {h} : todo'[g] = todo[g] /\ req'[g] = req[g]
    BY <1>1, Received
  <2>2. text' = text /\ revision' = revision /\ rewarded' = rewarded /\ broken' = broken
    BY <1>1 DEF Start, object
  <2>3. \A g \in Handlers : /\ At(g, "reward")' => At(g, "reward") /\ req'[g] = req[g]
                            /\ Busy(g) => g # h /\ Busy(g)' /\ todo'[g] = todo[g] /\ req'[g] = req[g]
    BY <2>1 DEF At, Busy
  <2>4. \A g \in Handlers, s \in 1..Len(revision) : Approving(g, s) => Approving(g, s)'
    BY <2>3 DEF Approving
  <2>5. \A p \in Objects : Excused(p)' <=> Excused(p)
    BY <2>2 DEF Excused
  <2> QED BY <2>2, <2>3, <2>4 DEF ShownInv, Excused
<1>2. ASSUME NEW h \in Handlers, Statement(h)
      PROVE  ShownInv'
  <2>1. \A r \in 1..Len(revision') :
          revision'[r].status = "unreviewed" /\ revision'[r].text = text'[revision'[r].obj] =>
            Excused(revision[r].obj)' \/ \E g \in Handlers : Approving(g, r)'
    BY <1>2, WaitingShown
  <2>2. \A r \in 1..Len(revision') :
          revision'[r].status = "rejected" /\ revision'[r].text = text'[revision'[r].obj] =>
            Excused(revision[r].obj)'
    BY <1>2, RejectedShown
  <2>3. /\ \A r \in rewarded' : revision'[r].status = "passed"
        /\ \A g \in Handlers : At(g, "reward")' =>
             \E r \in 1..Len(revision') : r = req'[g].rev /\ revision'[r].status = "passed"
    BY <1>2, RewardStatement
  <2> QED BY <2>1, <2>2, <2>3 DEF ShownInv
<1>3. CASE \E o \in Objects : ToggleDeleted(o)
  BY <1>3 DEF ToggleDeleted, ShownInv, Approving, Excused, At, Busy
<1>4. CASE UNCHANGED vars
  BY <1>4 DEF vars, ShownInv, Approving, Excused, At, Busy
<1> QED BY <1>1, <1>2, <1>3, <1>4, NextCases

LEMMA DecidedInit == Init => Decided
<1> SUFFICES ASSUME Init PROVE Decided
  OBVIOUS
<1>1. Queued
  BY QueuedInit
<1>2. TextInv
  BY DEF Init, TextInv, Busy
<1>3. ShownInv
  BY DEF Init, ShownInv, At, Busy
<1> QED BY <1>1, <1>2, <1>3 DEF Decided

LEMMA DecidedStep ==
  ASSUME OneAtATime, Decided, [Next]_vars
  PROVE  Decided'
BY QueuedStep, TextStep, ShownStep DEF Decided, Queued

\* RevisionAudit and its three helpers: with one edit and one audit of an
\* object at a time a rejected text is neither shown nor rewarded, unless a
\* request on the object has failed or it is a tag.
THEOREM RejectedStaysOut == OneAtATime => (Spec => []RejectedNotShown)
<1> SUFFICES ASSUME OneAtATime PROVE Spec => []RejectedNotShown
  OBVIOUS
<1>1. Decided => RejectedNotShown
  <2> SUFFICES ASSUME Decided, NEW r \in DOMAIN revision, revision[r].status = "rejected"
               PROVE  /\ r \notin rewarded
                      /\ revision[r].text = text[revision[r].obj] => Excused(revision[r].obj)
    BY DEF RejectedNotShown, Excused
  <2>1. r \in 1..Len(revision)
    BY DEF Decided, Queued, Typed, DataOK
  <2> QED BY <2>1 DEF Decided, ShownInv
<1>2. Decided /\ [Next]_vars => Decided'
  BY DecidedStep
<1> QED BY <1>1, <1>2, DecidedInit, PTL DEF Spec

-----------------------------------------------------------------------------
(* The statements implement the history of an object *)

\* Revision r is what waits to be shown on o.
Candidate(o, r) == Waits(r) /\ revision[r].obj = o /\ revision[r].text # text[o]

ProposedIs(o) ==
  /\ (\A r \in Nat : ~Candidate(o, r)) => Proposed[o] = NoRequest
  /\ \A r \in Nat : Candidate(o, r) => Proposed[o] = revision[r].text

LEMMA ProposedNow ==
  ASSUME Queued
  PROVE  \A o \in Objects : ProposedIs(o)
<1> SUFFICES ASSUME NEW o \in Objects PROVE ProposedIs(o)
  OBVIOUS
<1> DEFINE W == {revision[r].text : r \in Unreviewed(o)} \ {text[o]}
<1>1. Proposed[o] = IF W = {} THEN NoRequest ELSE CHOOSE t \in W : TRUE
  BY DEF Proposed
<1>2. DOMAIN revision = 1..Len(revision) /\ Len(revision) \in Nat
  BY DEF Queued, Typed, DataOK
<1>3. \A r : r \in Unreviewed(o) <=> r \in Nat /\ Waits(r) /\ revision[r].obj = o
  BY <1>2 DEF Unreviewed, Waits
<1>4. \A t \in W : \E r \in Nat : Candidate(o, r) /\ t = revision[r].text
  BY <1>3 DEF Candidate
<1>5. \A r \in Nat : Candidate(o, r) => revision[r].text \in W
  BY <1>3 DEF Candidate
<1>6. \A r, s \in Nat : Candidate(o, r) /\ Candidate(o, s) => r = s
  BY DEF Candidate, Queued, QueueInv
<1> HIDE DEF W
<1>7. ASSUME NEW r \in Nat, Candidate(o, r)
      PROVE  Proposed[o] = revision[r].text
  <2>1. W # {} /\ \A t \in W : t = revision[r].text
    BY <1>4, <1>5, <1>6, <1>7
  <2>2. (CHOOSE t \in W : TRUE) \in W
    BY <2>1
  <2> QED BY <1>1, <2>1, <2>2
<1>8. (\A r \in Nat : ~Candidate(o, r)) => Proposed[o] = NoRequest
  BY <1>1, <1>4
<1> QED BY <1>7, <1>8 DEF ProposedIs

LEMMA ProposedNext ==
  ASSUME Queued'
  PROVE  \A o \in Objects : ProposedIs(o)'
<1> SUFFICES ASSUME NEW o \in Objects PROVE ProposedIs(o)'
  OBVIOUS
<1> DEFINE W == {revision'[r].text : r \in Unreviewed(o)'} \ {text'[o]}
<1>1. Proposed'[o] = IF W = {} THEN NoRequest ELSE CHOOSE t \in W : TRUE
  BY DEF Proposed
<1>2. DOMAIN revision' = 1..Len(revision') /\ Len(revision') \in Nat
  BY DEF Queued, Typed, DataOK
<1>3. \A r : r \in Unreviewed(o)' <=> r \in Nat /\ Waits(r)' /\ revision'[r].obj = o
  BY <1>2 DEF Unreviewed, Waits
<1>4. \A t \in W : \E r \in Nat : Candidate(o, r)' /\ t = revision'[r].text
  BY <1>3 DEF Candidate
<1>5. \A r \in Nat : Candidate(o, r)' => revision'[r].text \in W
  BY <1>3 DEF Candidate
<1>6. \A r, s \in Nat : Candidate(o, r)' /\ Candidate(o, s)' => r = s
  BY DEF Candidate, Queued, QueueInv
<1> HIDE DEF W
<1>7. ASSUME NEW r \in Nat, Candidate(o, r)'
      PROVE  Proposed'[o] = revision'[r].text
  <2>1. W # {} /\ \A t \in W : t = revision'[r].text
    BY <1>4, <1>5, <1>6, <1>7
  <2>2. (CHOOSE t \in W : TRUE) \in W
    BY <2>1
  <2> QED BY <1>1, <2>1, <2>2
<1>8. (\A r \in Nat : ~Candidate(o, r)') => Proposed'[o] = NoRequest
  BY <1>1, <1>4
<1> QED BY <1>7, <1>8 DEF ProposedIs

LEMMA ProposedSame ==
  ASSUME Queued, Queued', NEW o \in Objects,
         \A r \in Nat : Candidate(o, r)' <=> Candidate(o, r),
         \A r \in Nat : Candidate(o, r) => revision'[r].text = revision[r].text
  PROVE  Proposed'[o] = Proposed[o]
<1>1. ProposedIs(o) /\ ProposedIs(o)'
  BY ProposedNow, ProposedNext
<1> QED BY <1>1 DEF ProposedIs

\* A statement changes at most what its object shows and what waits there.
LEMMA OthersKept ==
  ASSUME Decided, Decided', NEW h \in Handlers, Statement(h), NEW o \in Objects,
         o # req[h].obj \/ ~(SaveText(h) \/ Close(h) \/ (AddRevision(h) /\ req[h].op = "suggest"))
  PROVE  Proposed'[o] = Proposed[o]
<1> USE DEF Decided
<1>1. Len(revision) \in Nat
  BY DEF Queued, Typed, DataOK
<1>2. \A r \in Nat : Waits(r) => /\ revision'[r].obj = revision[r].obj
                                 /\ revision'[r].text = revision[r].text
  BY <1>1, RowKept DEF Waits
<1>3. text'[o] = text[o]
  BY ObjectSteps DEF Queued
<1>4. \A r \in Nat :
        Waits(r)' <=> \/ Waits(r) /\ ~(Close(h) /\ r = req[h].rev)
                      \/ AddRevision(h) /\ req[h].op # "edit" /\ r = Len(revision) + 1
  BY WaitsSteps DEF Queued
<1>5. Close(h) => revision[req[h].rev].obj = req[h].obj
  <2>1. Close(h) => Busy(h) /\ req[h].op \in Audits
    BY RowSteps DEF Queued, Close, AddRevision, At, Closed
  <2> QED BY <2>1, HandlerFacts DEF Queued
<1>6. AddRevision(h) => /\ revision'[Len(revision) + 1].obj = req[h].obj
                        /\ req[h].op # "edit" => req[h].op = "suggest"
  <2>1. AddRevision(h) => /\ Busy(h) /\ Head(todo[h]) = "addRevision"
                          /\ revision'[Len(revision) + 1].obj = req[h].obj
    BY RowSteps DEF Queued, Close, AddRevision, At, Added
  <2> QED BY <2>1, HandlerFacts DEF Queued, LeftOK, Edits, Audits
<1>7. ASSUME NEW r \in Nat
      PROVE  Candidate(o, r)' <=> Candidate(o, r)
  <2>1. CASE Waits(r)
    BY <1>2, <1>3, <1>4, <1>5, <2>1 DEF Candidate
  <2>2. CASE ~Waits(r)
    BY <1>3, <1>4, <1>6, <2>2 DEF Candidate
  <2> QED BY <2>1, <2>2
<1> QED BY <1>2, <1>7, ProposedSame DEF Candidate

LEMMA Function ==
  Proposed = [o \in Objects |-> Proposed[o]] /\ Proposed' = [o \in Objects |-> Proposed'[o]]
BY DEF Proposed

LEMMA HistoryStatement ==
  ASSUME Decided, Decided', NEW h \in Handlers, Statement(h),
         NEW o \in Objects, o = req[h].obj
  PROVE  [History!Next]_<<text, Proposed>>
<1> USE DEF Decided
<1>1. /\ Busy(h) /\ o \in Objects /\ req[h].text \in Texts /\ req[h].op \in Edits \cup Audits
      /\ LeftOK(req[h].op, Kind[o], todo[h])
      /\ req[h].op \in Audits => /\ req[h].rev \in 1..Len(revision)
                                 /\ revision[req[h].rev].obj = o
                                 /\ revision[req[h].rev].text = req[h].text
  BY Moves, HandlerFacts DEF Queued
<1>2. text \in [Objects -> Texts] /\ text' \in [Objects -> Texts] /\ Len(revision) \in Nat
  BY DEF Queued, Typed, DataOK
<1>3. ProposedIs(o) /\ ProposedIs(o)'
  BY <1>1, ProposedNow, ProposedNext
<1>4. \A p \in Objects \ {o} : Proposed'[p] = Proposed[p] /\ text'[p] = text[p]
  BY OthersKept, ObjectSteps DEF Queued
<1>5. NoRequest \notin Texts
  BY RevisionAssumption
<1>6. req[h].op \in Edits /\ Past(h) => \A r \in Nat : Waits(r) => revision[r].obj # o
  BY DEF Queued, QueueInv, Sound
<1>7. \A r \in Nat : Waits(r) => /\ revision'[r].obj = revision[r].obj
                                 /\ revision'[r].text = revision[r].text
  BY <1>2, RowKept DEF Waits
<1>8. \A r \in Nat :
        Waits(r)' <=> \/ Waits(r) /\ ~(Close(h) /\ r = req[h].rev)
                      \/ AddRevision(h) /\ req[h].op # "edit" /\ r = Len(revision) + 1
  BY WaitsSteps DEF Queued
<1>9. \A r, s \in Nat : Waits(r) /\ Waits(s) /\ revision[r].obj = revision[s].obj => r = s
  BY DEF Queued, QueueInv
<1>10. req[h].op \in Audits /\ Past(h) => Waits(req[h].rev) /\ req[h].rev \in Nat
  BY DEF Queued, QueueInv, Sound
<1>11. ASSUME Proposed'[o] = Proposed[o], text'[o] = text[o]
       PROVE  UNCHANGED <<text, Proposed>>
  BY <1>1, <1>2, <1>4, <1>11, Function
<1>12. CASE SaveText(h) /\ req[h].op \in Edits
  <2>1. Past(h) /\ ~AddRevision(h) /\ ~Close(h)
    BY <1>1, <1>12 DEF Past, SaveText, AddRevision, Close, At
  <2>2. Proposed[o] = NoRequest /\ Proposed'[o] = NoRequest
    BY <1>3, <1>6, <1>7, <1>8, <1>12, <2>1 DEF ProposedIs, Candidate
  <2>3. text' = [text EXCEPT ![o] = req[h].text] /\ Proposed' = Proposed
    BY <1>1, <1>4, <1>12, <2>2, Function DEF SaveText
  <2> QED BY <1>1, <2>2, <2>3 DEF History!Next, History!Edit
<1>13. CASE SaveText(h) /\ req[h].op \in Audits
  <2>1. Past(h) /\ ~AddRevision(h) /\ ~Close(h)
    BY <1>1, <1>13 DEF Past, SaveText, AddRevision, Close, At
  <2>2. text' = [text EXCEPT ![o] = req[h].text]
    BY <1>13 DEF SaveText
  <2>3. CASE text[o] = req[h].text
    <3>1. text'[o] = text[o]
      BY <1>1, <1>2, <2>2, <2>3
    <3>2. Proposed'[o] = Proposed[o]
      <4>1. \A r \in Nat : Candidate(o, r)' <=> Candidate(o, r)
        BY <1>7, <1>8, <2>1, <3>1 DEF Candidate
      <4> QED BY <1>1, <1>7, <4>1, ProposedSame DEF Candidate
    <3> QED BY <1>11, <3>1, <3>2
  <2>4. CASE text[o] # req[h].text
    <3>1. Proposed[o] = req[h].text
      BY <1>1, <1>3, <1>10, <1>13, <2>1, <2>4 DEF ProposedIs, Candidate
    <3>2. Proposed'[o] = NoRequest
      <4>1. text'[o] = req[h].text
        BY <1>1, <1>2, <2>2
      <4>2. \A r \in Nat : ~Candidate(o, r)'
        BY <1>1, <1>7, <1>8, <1>9, <1>10, <1>13, <2>1, <4>1 DEF Candidate
      <4> QED BY <1>3, <4>2 DEF ProposedIs
    <3>3. Proposed' = [Proposed EXCEPT ![o] = NoRequest]
      BY <1>1, <1>4, <3>2, Function
    <3> QED BY <1>1, <1>5, <2>2, <3>1, <3>3 DEF History!Next, History!Approve
  <2> QED BY <2>3, <2>4
<1>14. CASE AddRevision(h) /\ req[h].op = "suggest"
  <2>1. Past(h) /\ req[h].op \in Edits /\ ~SaveText(h) /\ Added(h)
    <3>1. Head(todo[h]) = "addRevision" /\ ~SaveText(h)
      BY <1>14 DEF AddRevision, SaveText, At
    <3>2. Added(h)
      BY <1>14, RowSteps DEF Queued, AddRevision, Close, At
    <3> QED BY <1>1, <1>14, <3>1, <3>2 DEF Past, Edits
  <2>2. text'[o] = text[o]
    BY <1>1, <2>1, ObjectSteps DEF Queued
  <2>3. text' = text
    BY <1>2, <1>4, <2>2
  <2>4. Proposed[o] = NoRequest
    BY <1>3, <1>6, <2>1 DEF ProposedIs, Candidate
  <2>5. Proposed'[o] = req[h].text
    <3>1. Len(revision) + 1 \in Nat
      BY <1>2
    <3>2. revision'[Len(revision) + 1].obj = o /\ revision'[Len(revision) + 1].text = req[h].text
      BY <2>1 DEF Added
    <3>3. text[o] # req[h].text
      BY <1>1, <1>14, <2>1 DEF TextInv
    <3>4. ASSUME NEW r \in Nat, r = Len(revision) + 1
          PROVE  Candidate(o, r)' /\ revision'[r].text = req[h].text
      BY <2>2, <1>8, <1>14, <3>2, <3>3, <3>4 DEF Candidate
    <3> QED BY <1>3, <3>1, <3>4 DEF ProposedIs
  <2>6. Proposed' = [Proposed EXCEPT ![o] = req[h].text]
    BY <1>1, <1>4, <2>5, Function
  <2> QED BY <1>1, <2>3, <2>4, <2>6 DEF History!Next, History!Propose
<1>15. CASE Close(h)
  <2>1. Past(h) /\ req[h].op \in Audits /\ ~SaveText(h) /\ ~AddRevision(h)
    <3>1. Head(todo[h]) = "close" /\ ~SaveText(h) /\ ~AddRevision(h)
      BY <1>15 DEF Close, AddRevision, SaveText, At
    <3> QED BY <1>1, <3>1 DEF Past, LeftOK, Edits
  <2>2. text'[o] = text[o]
    BY <1>1, <2>1, ObjectSteps DEF Queued
  <2>3. text' = text
    BY <1>2, <1>4, <2>2
  <2>4. Proposed'[o] = NoRequest
    <3>1. \A r \in Nat : ~Candidate(o, r)'
      BY <1>1, <1>7, <1>8, <1>9, <1>10, <1>15, <2>1 DEF Candidate
    <3> QED BY <1>3, <3>1 DEF ProposedIs
  <2>5. CASE Proposed[o] = NoRequest
    BY <1>11, <2>2, <2>4, <2>5
  <2>6. CASE Proposed[o] # NoRequest
    <3>1. Proposed' = [Proposed EXCEPT ![o] = NoRequest]
      BY <1>1, <1>4, <2>4, Function
    <3> QED BY <1>1, <2>3, <2>6, <3>1 DEF History!Next, History!Reject
  <2> QED BY <2>5, <2>6
<1>16. CASE ~(SaveText(h) \/ Close(h) \/ (AddRevision(h) /\ req[h].op = "suggest"))
  <2>1. Proposed'[o] = Proposed[o] /\ text'[o] = text[o]
    BY <1>1, <1>16, OthersKept, ObjectSteps DEF Queued
  <2> QED BY <1>11, <2>1
<1> QED BY <1>1, <1>12, <1>13, <1>14, <1>15, <1>16

\* What editing promises (RevisionHistory): nothing is written over a text that
\* an edit waits for, and what is approved is what was proposed, with one edit
\* and one audit of an object at a time and whatever fails.
THEOREM EditsImplementHistory == OneAtATime => (Spec => ImplementsHistory)
<1> SUFFICES ASSUME OneAtATime PROVE Spec => ImplementsHistory
  OBVIOUS
<1>1. Init => History!Init
  <2> SUFFICES ASSUME Init PROVE History!Init
    OBVIOUS
  <2>1. Queued /\ text \in [Objects -> Texts]
    BY QueuedInit DEF Queued, Typed, DataOK
  <2>2. \A o \in Objects : Proposed[o] = NoRequest
    BY <2>1, ProposedNow DEF Init, ProposedIs, Candidate, Waits
  <2>3. Proposed = [o \in Objects |-> NoRequest]
    BY <2>2, Function
  <2> QED BY <2>1, <2>3 DEF History!Init
<1>2. Decided /\ [Next]_vars => Decided'
  BY DecidedStep
<1>3. Decided /\ Decided' /\ [Next]_vars => [History!Next]_<<text, Proposed>>
  <2> SUFFICES ASSUME Decided, Decided', [Next]_vars
               PROVE  [History!Next]_<<text, Proposed>>
    OBVIOUS
  <2>1. CASE \E h \in Handlers : Statement(h)
    <3>1. PICK h \in Handlers : Statement(h)
      BY <2>1
    <3>2. req[h].obj \in Objects
      BY <3>1, ObjectSteps, Moves, HandlerFacts DEF Decided, Queued
    <3> QED BY <3>1, <3>2, HistoryStatement
  <2>2. CASE text' = text /\ revision' = revision
    BY <2>2 DEF Proposed, Unreviewed
  <2>3. CASE \/ \E h \in Handlers, op \in Edits \cup Audits, o \in Objects, r \in Texts, t \in Texts :
                  Start(h, op, o, r, t)
             \/ \E o \in Objects : ToggleDeleted(o)
             \/ UNCHANGED vars
    <3>1. text' = text /\ revision' = revision
      BY <2>3 DEF Start, ToggleDeleted, vars, object
    <3> QED BY <2>2, <3>1
  <2> QED BY <2>1, <2>3, NextCases DEF Decided, Queued
<1> QED BY <1>1, <1>2, <1>3, DecidedInit, PTL DEF Spec, ImplementsHistory, History!Spec

-----------------------------------------------------------------------------
(* The statements of a request *)

\* After a statement of an operation comes this one; the last is followed by the end.
Follows ==
  {<<"register", "lookMail", "insert">>, <<"register", "insert", "send">>,
   <<"register", "send", "end">>,
   <<"addUser", "lookMail", "insert">>, <<"addUser", "insert", "end">>,
   <<"editProfile", "lookMail", "writeProfile">>, <<"editProfile", "writeProfile", "end">>,
   <<"setPassword", "lookUser", "writePassword">>, <<"setPassword", "writePassword", "end">>,
   <<"askVerify", "lookUser", "send">>, <<"askVerify", "send", "end">>,
   <<"askChange", "lookUser", "lookMail">>, <<"askChange", "lookMail", "send">>,
   <<"askChange", "send", "end">>,
   <<"askReset", "lookMail", "send">>, <<"askReset", "send", "end">>,
   <<"unbind", "lookUser", "list">>, <<"unbind", "list", "unbind">>,
   <<"unbind", "unbind", "end">>}
  \cup
  {<<"external", "lookIdentity", "end">>,
   <<"external", "lookOwner", "confirm">>, <<"external", "saveLogin", "end">>,
   <<"external", "lookMail", "insert">>, <<"external", "insert", "lookBinding">>,
   <<"external", "lookBinding", "bind">>, <<"external", "bind", "confirm">>,
   <<"external", "confirm", "end">>,
   <<"bindMail", "readLogin", "lookMail">>, <<"bindMail", "lookMail", "insert">>,
   <<"bindMail", "insert", "saveLogin">>, <<"bindMail", "saveLogin", "send">>,
   <<"bindMail", "send", "end">>}
  \cup
  {<<op, "readCode", "burnCode">> : op \in Opens} \cup
  {<<op, "burnCode", "compareCode">> : op \in Opens} \cup
  {<<op, "compareCode", "lookMail">> : op \in Opens} \cup
  {<<"verify", "lookMail", "confirm">>, <<"verify", "confirm", "readLogin">>,
   <<"verify", "readLogin", "lookBinding">>, <<"verify", "lookBinding", "bind">>,
   <<"verify", "bind", "end">>,
   <<"changeMail", "lookMail", "lookUser">>, <<"changeMail", "lookUser", "writeMail">>,
   <<"changeMail", "writeMail", "confirm">>, <<"changeMail", "confirm", "end">>,
   <<"reset", "lookMail", "writePassword">>, <<"reset", "writePassword", "end">>}
  \cup
  {<<op, "lookUser", "writeStatus">> : op \in Changes} \cup
  {<<op, "writeStatus", "end">> : op \in Changes}

\* s is what an operation may have left.
Path(op, s) ==
  \A i \in DOMAIN s : <<op, s[i], IF i < Len(s) THEN s[i + 1] ELSE "end">> \in Follows

-----------------------------------------------------------------------------
(* What is known of users, and by handlers *)

Registered(u) == u \in Users /\ Exists(u)

\* An account that may be confirmed: somebody vouched for its address.
Sure(u) ==
  /\ Registered(u)
  /\ u \in lost \/ account[u].status = "deleted" \/ account[u].email \in vouched

\* The operations whose request names a user, and those whose request has an address.
OfUser == {"editProfile", "setPassword", "askVerify", "askChange", "unbind"} \cup Changes
WithAddress == {"register", "addUser", "askReset", "editProfile", "askChange", "bindMail"}
Mailing == {<<"register", "send">>, <<"askReset", "send">>, <<"bindMail", "saveLogin">>,
            <<"bindMail", "send">>}

\* What a handler that serves q knows when s is next.
KnowsUser(q, s) ==
  /\ q.op \in OfUser \/ <<q.op, s>> \in Mailing => Registered(q.user)
  /\ q.op \in WithAddress => q.email \in Emails
  /\ q.op \in Changes /\ s = "writeStatus" =>
       q.row \in AccountRows /\ q.row.status # "deleted" /\ q.row.email \in Emails
  /\ q.op = "unbind" /\ s = "unbind" => account[q.user].pass \/ q.listed >= 2
KnowsLogin(q, s) ==
  /\ q.key \in Keys => login[q.key] # None
  /\ q.op = "bindMail" => q.key \in Keys /\ (s # "readLogin" => q.identity \in Identities)
  /\ q.op = "external" =>
       /\ q.identity \in Identities
       /\ q.email \in Emails => q.email \in vouched
       /\ s \in {"lookMail", "insert", "lookBinding", "bind"} => q.email \in Emails
       /\ s \in {"lookOwner", "lookBinding", "bind", "confirm"} => Sure(q.user)
       /\ s \in {"lookBinding", "bind", "confirm"} => q.row \in AccountRows
KnowsCode(q, s) ==
  q.op \in Opens =>
    /\ q.code \in Codes /\ mail[q.code] # None /\ mail[q.code].link = q.op
    /\ s # "readCode" => /\ Registered(q.user) /\ q.email \in vouched \cup {None}
                         /\ q.op = "changeMail" => q.email \in Emails
    /\ q.op = "verify" =>
         /\ s \in {"confirm", "readLogin", "lookBinding", "bind"} =>
              Sure(q.user) /\ q.row \in AccountRows
         /\ s = "readLogin" => q.key \in Keys
         /\ s \in {"lookBinding", "bind"} => q.identity \in Identities
    /\ q.op = "changeMail" /\ s = "confirm" => Sure(q.user)
Knows(q, s) == KnowsUser(q, s) /\ KnowsLogin(q, s) /\ KnowsCode(q, s)

\* A handler is idle, or on a path of its operation with what it has to know there.
Working(h) ==
  todo[h] # <<>> =>
    req[h] \in AllRequests /\ Path(req[h].op, todo[h]) /\ Knows(req[h], Head(todo[h]))

AccountsRight ==
  \A u \in Users : Exists(u) =>
    /\ account[u].status # "deleted" => account[u].email \in Emails
    /\ account[u].mail = "available" => Sure(u)
BindingsRight == \A r \in Rows : binding[r] # None => Sure(binding[r].user)
MailsRight ==
  /\ \A c \in Codes : mail[c] # None =>
       /\ Registered(mail[c].user)
       /\ mail[c].link = "changeMail" => mail[c].email \in Emails
       /\ mail[c].key \in Keys => login[mail[c].key] # None
  /\ \A c \in valid : mail[c] # None

ProofInv ==
  /\ IdentityTypeOK /\ AccountsRight /\ BindingsRight /\ MailsRight
  /\ \A h \in Handlers : Working(h)

-----------------------------------------------------------------------------
(* One account for an address and for an identity *)

\* Where an operation has looked for the address it will store.
Storing == {<<"changeMail", "lookUser">>, <<"changeMail", "writeMail">>,
            <<"editProfile", "writeProfile">>, <<"register", "insert">>,
            <<"addUser", "insert">>, <<"external", "insert">>, <<"bindMail", "insert">>}

\* What a handler that is alone has found: what it will store is nobody else's.
FoundAlone(q, s) ==
  /\ <<q.op, s>> \in Storing =>
       \/ q.email \in contested
       \/ WithMail(q.email) \subseteq IF q.op = "editProfile" THEN {q.user} ELSE {}
  /\ s = "bind" /\ q.bound = None => q.identity \in contested \/ RowsOf(q.identity) = {}
AloneRight(h) == todo[h] # <<>> /\ alone[h] => FoundAlone(req[h], Head(todo[h]))

Unique ==
  /\ \A e \in Emails \ contested : \A u, v \in WithMail(e) : u = v
  /\ \A i \in Identities \ contested : \A r, s \in RowsOf(i) : r = s

OwnersInv == Unique /\ \A h \in Handlers : AloneRight(h)

LEMMA PathStep ==
  ASSUME NEW op, NEW s \in Seq(AllStatements), s # <<>>, Path(op, s)
  PROVE  /\ Tail(s) \in Seq(AllStatements) /\ Path(op, Tail(s))
         /\ <<op, Head(s), IF Tail(s) = <<>> THEN "end" ELSE Head(Tail(s))>> \in Follows
<1> DEFINE t == Tail(s)
<1>1. /\ Head(s) = s[1] /\ t \in Seq(AllStatements)
      /\ Len(s) \in Nat /\ Len(s) >= 1 /\ Len(t) = Len(s) - 1
      /\ DOMAIN s = 1..Len(s) /\ DOMAIN t = 1..(Len(s) - 1)
      /\ \A i \in 1..(Len(s) - 1) : t[i] = s[i + 1]
  BY EmptySeq, LenProperties, HeadTailProperties
<1>a. t = <<>> <=> Len(t) = 0
  <2> HIDE DEF t
  <2> QED BY <1>1, EmptySeq
<1>b. t # <<>> => Head(t) = t[1]
  <2> HIDE DEF t
  <2> QED BY <1>1, HeadTailProperties
<1> HIDE DEF t
<1>2. t = <<>> <=> Len(s) = 1
  BY <1>1, <1>a
<1>3. t # <<>> => Head(t) = s[2] /\ Len(s) > 1
  BY <1>1, <1>2, <1>b
<1>4. <<op, s[1], IF 1 < Len(s) THEN s[2] ELSE "end">> \in Follows
  <2>1. 1 \in DOMAIN s
    BY <1>1
  <2>2. \A i \in DOMAIN s : <<op, s[i], IF i < Len(s) THEN s[i + 1] ELSE "end">> \in Follows
    BY DEF Path
  <2>3. <<op, s[1], IF 1 < Len(s) THEN s[1 + 1] ELSE "end">> \in Follows
    BY <2>1, <2>2
  <2> QED BY <2>3
<1>5. <<op, Head(s), IF t = <<>> THEN "end" ELSE Head(t)>> \in Follows
  <2>1. CASE t = <<>>
    BY <1>1, <1>2, <1>4, <2>1
  <2>2. CASE t # <<>>
    BY <1>1, <1>3, <1>4, <2>2
  <2> QED BY <2>1, <2>2
<1>6. Path(op, t)
  <2> SUFFICES ASSUME NEW i \in DOMAIN t
               PROVE  <<op, t[i], IF i < Len(t) THEN t[i + 1] ELSE "end">> \in Follows
    BY DEF Path
  <2>1. i \in 1..(Len(s) - 1) /\ i + 1 \in 1..Len(s) /\ t[i] = s[i + 1]
    BY <1>1
  <2>2. <<op, s[i + 1], IF i + 1 < Len(s) THEN s[(i + 1) + 1] ELSE "end">> \in Follows
    BY <2>1, <1>1 DEF Path
  <2>3. CASE i < Len(t)
    <3>1. i + 1 \in 1..(Len(s) - 1) /\ i + 1 < Len(s) /\ t[i + 1] = s[(i + 1) + 1]
      BY <2>1, <2>3, <1>1
    <3> QED BY <3>1, <2>1, <2>2, <2>3
  <2>4. CASE ~(i < Len(t))
    <3>1. ~(i + 1 < Len(s))
      BY <2>1, <2>4, <1>1
    <3> QED BY <3>1, <2>1, <2>2, <2>4
  <2> QED BY <2>3, <2>4
<1> QED BY <1>1, <1>5, <1>6 DEF t

\* A list of statements of which each is followed by the next is a path, for the
\* lengths there are.
LEMMA PathOfOne ==
  ASSUME NEW op, NEW a \in AllStatements,
         <<op, a, "end">> \in Follows
  PROVE  /\ Path(op, <<a>>) /\ <<a>> \in Seq(AllStatements)
         /\ <<a>> # <<>> /\ Head(<<a>>) = a
<1> DEFINE s == <<a>>
<1>1. /\ s \in Seq(AllStatements) /\ DOMAIN s = 1..1 /\ Len(s) = 1 /\ s # <<>> /\ Head(s) = a
      /\ s[1] = a
  OBVIOUS
<1> HIDE DEF s
<1>2. ASSUME NEW i \in DOMAIN s
      PROVE  <<op, s[i], IF i < Len(s) THEN s[i + 1] ELSE "end">> \in Follows
  <2>1. i = 1
    BY <1>1, <1>2
  <2>2. CASE i = 1
    <3>1. s[i] = a /\ (IF i < Len(s) THEN s[i + 1] ELSE "end") = "end"
      BY <1>1, <2>2
    <3> QED BY <3>1
  <2> QED BY <2>1, <2>2
<1> QED BY <1>1, <1>2 DEF Path, s

LEMMA PathOfTwo ==
  ASSUME NEW op, NEW a \in AllStatements, NEW b \in AllStatements,
         <<op, a, b>> \in Follows, <<op, b, "end">> \in Follows
  PROVE  /\ Path(op, <<a, b>>) /\ <<a, b>> \in Seq(AllStatements)
         /\ <<a, b>> # <<>> /\ Head(<<a, b>>) = a
<1> DEFINE s == <<a, b>>
<1>1. /\ s \in Seq(AllStatements) /\ DOMAIN s = 1..2 /\ Len(s) = 2 /\ s # <<>> /\ Head(s) = a
      /\ s[1] = a /\ s[2] = b
  OBVIOUS
<1> HIDE DEF s
<1>2. ASSUME NEW i \in DOMAIN s
      PROVE  <<op, s[i], IF i < Len(s) THEN s[i + 1] ELSE "end">> \in Follows
  <2>1. i = 1 \/ i = 2
    BY <1>1, <1>2
  <2>2. CASE i = 1
    <3>1. s[i] = a /\ (IF i < Len(s) THEN s[i + 1] ELSE "end") = b
      BY <1>1, <2>2
    <3> QED BY <3>1
  <2>3. CASE i = 2
    <3>1. s[i] = b /\ (IF i < Len(s) THEN s[i + 1] ELSE "end") = "end"
      BY <1>1, <2>3
    <3> QED BY <3>1
  <2> QED BY <2>1, <2>2, <2>3
<1> QED BY <1>1, <1>2 DEF Path, s

LEMMA PathOfThree ==
  ASSUME NEW op, NEW a \in AllStatements, NEW b \in AllStatements, NEW c \in AllStatements,
         <<op, a, b>> \in Follows, <<op, b, c>> \in Follows, <<op, c, "end">> \in Follows
  PROVE  /\ Path(op, <<a, b, c>>) /\ <<a, b, c>> \in Seq(AllStatements)
         /\ <<a, b, c>> # <<>> /\ Head(<<a, b, c>>) = a
<1> DEFINE s == <<a, b, c>>
<1>1. /\ s \in Seq(AllStatements) /\ DOMAIN s = 1..3 /\ Len(s) = 3 /\ s # <<>> /\ Head(s) = a
      /\ s[1] = a /\ s[2] = b /\ s[3] = c
  OBVIOUS
<1> HIDE DEF s
<1>2. ASSUME NEW i \in DOMAIN s
      PROVE  <<op, s[i], IF i < Len(s) THEN s[i + 1] ELSE "end">> \in Follows
  <2>1. i = 1 \/ i = 2 \/ i = 3
    BY <1>1, <1>2
  <2>2. CASE i = 1
    <3>1. s[i] = a /\ (IF i < Len(s) THEN s[i + 1] ELSE "end") = b
      BY <1>1, <2>2
    <3> QED BY <3>1
  <2>3. CASE i = 2
    <3>1. s[i] = b /\ (IF i < Len(s) THEN s[i + 1] ELSE "end") = c
      BY <1>1, <2>3
    <3> QED BY <3>1
  <2>4. CASE i = 3
    <3>1. s[i] = c /\ (IF i < Len(s) THEN s[i + 1] ELSE "end") = "end"
      BY <1>1, <2>4
    <3> QED BY <3>1
  <2> QED BY <2>1, <2>2, <2>3, <2>4
<1> QED BY <1>1, <1>2 DEF Path, s

LEMMA PathOfFour ==
  ASSUME NEW op, NEW a \in AllStatements, NEW b \in AllStatements, NEW c \in AllStatements,
         NEW d \in AllStatements,
         <<op, a, b>> \in Follows, <<op, b, c>> \in Follows, <<op, c, d>> \in Follows,
         <<op, d, "end">> \in Follows
  PROVE  /\ Path(op, <<a, b, c, d>>) /\ <<a, b, c, d>> \in Seq(AllStatements)
         /\ <<a, b, c, d>> # <<>> /\ Head(<<a, b, c, d>>) = a
<1> DEFINE s == <<a, b, c, d>>
<1>1. /\ s \in Seq(AllStatements) /\ DOMAIN s = 1..4 /\ Len(s) = 4 /\ s # <<>> /\ Head(s) = a
      /\ s[1] = a /\ s[2] = b /\ s[3] = c /\ s[4] = d
  OBVIOUS
<1> HIDE DEF s
<1>2. ASSUME NEW i \in DOMAIN s
      PROVE  <<op, s[i], IF i < Len(s) THEN s[i + 1] ELSE "end">> \in Follows
  <2>1. i = 1 \/ i = 2 \/ i = 3 \/ i = 4
    BY <1>1, <1>2
  <2>2. CASE i = 1
    <3>1. s[i] = a /\ (IF i < Len(s) THEN s[i + 1] ELSE "end") = b
      BY <1>1, <2>2
    <3> QED BY <3>1
  <2>3. CASE i = 2
    <3>1. s[i] = b /\ (IF i < Len(s) THEN s[i + 1] ELSE "end") = c
      BY <1>1, <2>3
    <3> QED BY <3>1
  <2>4. CASE i = 3
    <3>1. s[i] = c /\ (IF i < Len(s) THEN s[i + 1] ELSE "end") = d
      BY <1>1, <2>4
    <3> QED BY <3>1
  <2>5. CASE i = 4
    <3>1. s[i] = d /\ (IF i < Len(s) THEN s[i + 1] ELSE "end") = "end"
      BY <1>1, <2>5
    <3> QED BY <3>1
  <2> QED BY <2>1, <2>2, <2>3, <2>4, <2>5
<1> QED BY <1>1, <1>2 DEF Path, s

LEMMA PathOfFive ==
  ASSUME NEW op, NEW a \in AllStatements, NEW b \in AllStatements, NEW c \in AllStatements,
         NEW d \in AllStatements, NEW e \in AllStatements,
         <<op, a, b>> \in Follows, <<op, b, c>> \in Follows, <<op, c, d>> \in Follows,
         <<op, d, e>> \in Follows, <<op, e, "end">> \in Follows
  PROVE  /\ Path(op, <<a, b, c, d, e>>) /\ <<a, b, c, d, e>> \in Seq(AllStatements)
         /\ <<a, b, c, d, e>> # <<>> /\ Head(<<a, b, c, d, e>>) = a
<1> DEFINE s == <<a, b, c, d, e>>
<1>1. /\ s \in Seq(AllStatements) /\ DOMAIN s = 1..5 /\ Len(s) = 5 /\ s # <<>> /\ Head(s) = a
      /\ s[1] = a /\ s[2] = b /\ s[3] = c /\ s[4] = d /\ s[5] = e
  OBVIOUS
<1> HIDE DEF s
<1>2. ASSUME NEW i \in DOMAIN s
      PROVE  <<op, s[i], IF i < Len(s) THEN s[i + 1] ELSE "end">> \in Follows
  <2>1. i = 1 \/ i = 2 \/ i = 3 \/ i = 4 \/ i = 5
    BY <1>1, <1>2
  <2>2. CASE i = 1
    <3>1. s[i] = a /\ (IF i < Len(s) THEN s[i + 1] ELSE "end") = b
      BY <1>1, <2>2
    <3> QED BY <3>1
  <2>3. CASE i = 2
    <3>1. s[i] = b /\ (IF i < Len(s) THEN s[i + 1] ELSE "end") = c
      BY <1>1, <2>3
    <3> QED BY <3>1
  <2>4. CASE i = 3
    <3>1. s[i] = c /\ (IF i < Len(s) THEN s[i + 1] ELSE "end") = d
      BY <1>1, <2>4
    <3> QED BY <3>1
  <2>5. CASE i = 4
    <3>1. s[i] = d /\ (IF i < Len(s) THEN s[i + 1] ELSE "end") = e
      BY <1>1, <2>5
    <3> QED BY <3>1
  <2>6. CASE i = 5
    <3>1. s[i] = e /\ (IF i < Len(s) THEN s[i + 1] ELSE "end") = "end"
      BY <1>1, <2>6
    <3> QED BY <3>1
  <2> QED BY <2>1, <2>2, <2>3, <2>4, <2>5, <2>6
<1> QED BY <1>1, <1>2 DEF Path, s
\* What comes behind a link begins with the check of its code.
LEMMA ThreeStatements ==
  ASSUME NEW a \in AllStatements, NEW b \in AllStatements, NEW c \in AllStatements,
         NEW s, s = <<a, b, c>>
  PROVE  s \in Seq(AllStatements) /\ Len(s) = 3 /\ s[1] = a /\ s[2] = b /\ s[3] = c
OBVIOUS

LEMMA CodePath ==
  ASSUME NEW op \in Opens, NEW t \in Seq(AllStatements), t # <<>>, Path(op, t), Head(t) = "lookMail"
  PROVE  /\ Path(op, VerifyCode \o t) /\ VerifyCode \o t \in Seq(AllStatements)
         /\ VerifyCode \o t # <<>> /\ Head(VerifyCode \o t) = "readCode"
<1> DEFINE s == VerifyCode \o t
<1>a. /\ VerifyCode \in Seq(AllStatements) /\ Len(VerifyCode) = 3
      /\ VerifyCode[1] = "readCode" /\ VerifyCode[2] = "burnCode" /\ VerifyCode[3] = "compareCode"
  <2>1. "readCode" \in AllStatements /\ "burnCode" \in AllStatements /\ "compareCode" \in AllStatements
    BY DEF AllStatements
  <2> QED BY <2>1, ThreeStatements DEF VerifyCode
<1>1. VerifyCode \in Seq(AllStatements) /\ Len(VerifyCode) = 3
  BY <1>a
<1>2. /\ Len(t) \in Nat /\ Len(t) >= 1 /\ DOMAIN t = 1..Len(t) /\ t[1] = "lookMail"
  BY EmptySeq, LenProperties, HeadTailProperties
<1>b. /\ s \in Seq(AllStatements) /\ Len(s) = Len(VerifyCode) + Len(t)
      /\ \A i \in 1..Len(VerifyCode) + Len(t) :
           s[i] = IF i <= Len(VerifyCode) THEN VerifyCode[i] ELSE t[i - Len(VerifyCode)]
  BY <1>1, ConcatProperties, Zenon
<1> HIDE DEF s
<1>3. /\ s \in Seq(AllStatements) /\ Len(s) = 3 + Len(t)
      /\ \A i \in 1..(3 + Len(t)) : s[i] = IF i <= 3 THEN VerifyCode[i] ELSE t[i - 3]
  BY <1>1, <1>b
<1>4. DOMAIN s = 1..(3 + Len(t)) /\ s # <<>> /\ Head(s) = s[1]
  BY <1>2, <1>3, EmptySeq, LenProperties, HeadTailProperties
<1>5. s[1] = "readCode" /\ s[2] = "burnCode" /\ s[3] = "compareCode" /\ s[4] = "lookMail"
  BY <1>a, <1>2, <1>3
<1>6. ASSUME NEW i \in DOMAIN s
      PROVE  <<op, s[i], IF i < Len(s) THEN s[i + 1] ELSE "end">> \in Follows
  <2>1. i = 1 \/ i = 2 \/ i = 3 \/ i \in 4..(3 + Len(t))
    BY <1>2, <1>4
  <2>2. CASE i = 1
    <3>1. s[i] = "readCode" /\ (IF i < Len(s) THEN s[i + 1] ELSE "end") = "burnCode"
      BY <1>2, <1>3, <1>5, <2>2
    <3> QED BY <3>1 DEF Follows
  <2>3. CASE i = 2
    <3>1. s[i] = "burnCode" /\ (IF i < Len(s) THEN s[i + 1] ELSE "end") = "compareCode"
      BY <1>2, <1>3, <1>5, <2>3
    <3> QED BY <3>1 DEF Follows
  <2>4. CASE i = 3
    <3>1. s[i] = "compareCode" /\ (IF i < Len(s) THEN s[i + 1] ELSE "end") = "lookMail"
      BY <1>2, <1>3, <1>5, <2>4
    <3> QED BY <3>1 DEF Follows
  <2>5. CASE i \in 4..(3 + Len(t))
    <3>1. i - 3 \in DOMAIN t /\ s[i] = t[i - 3] /\ (i < Len(s) <=> i - 3 < Len(t))
      BY <1>2, <1>3, <2>5
    <3>2. i < Len(s) => s[i + 1] = t[(i - 3) + 1]
      BY <1>2, <1>3, <2>5
    <3>3. <<op, t[i - 3], IF i - 3 < Len(t) THEN t[(i - 3) + 1] ELSE "end">> \in Follows
      BY <3>1 DEF Path
    <3> QED BY <3>1, <3>2, <3>3
  <2> QED BY <2>1, <2>2, <2>3, <2>4, <2>5
<1> QED BY <1>4, <1>5, <1>3, <1>6 DEF Path, s

\* What a request begins with.
First(op) ==
  IF op \in Opens THEN "readCode" ELSE IF op = "bindMail" THEN "readLogin"
  ELSE IF op = "external" THEN "lookIdentity"
  ELSE IF op \in {"setPassword", "unbind", "askVerify", "askChange"} \cup Changes THEN "lookUser"
  ELSE "lookMail"

\* The statements a request begins with are a path of its operation.
LEMMA ProgramPath ==
  ASSUME NEW op \in AllOperations
  PROVE  /\ StatementsOf(op) \in Seq(AllStatements) /\ StatementsOf(op) # <<>>
         /\ Path(op, StatementsOf(op)) /\ Head(StatementsOf(op)) = First(op)
<1>1. CASE op = "register"
  <2>1. StatementsOf(op) = <<"lookMail", "insert", "send">>
    BY <1>1 DEF StatementsOf, Changes, UserRegisterByEmail
  <2>2. /\ <<op, "lookMail", "insert">> \in Follows
        /\ <<op, "insert", "send">> \in Follows
        /\ <<op, "send", "end">> \in Follows
    BY <1>1 DEF Follows
  <2>4. /\ "lookMail" \in AllStatements /\ "insert" \in AllStatements
        /\ "send" \in AllStatements
    BY DEF AllStatements
  <2>5. First(op) = "lookMail"
    BY <1>1 DEF First, Opens, Changes
  <2> QED BY <2>5, <2>1, <2>2, <2>4, PathOfThree
<1>2. CASE op = "addUser"
  <2>1. StatementsOf(op) = <<"lookMail", "insert">>
    BY <1>2 DEF StatementsOf, Changes, AddUser
  <2>2. /\ <<op, "lookMail", "insert">> \in Follows
        /\ <<op, "insert", "end">> \in Follows
    BY <1>2 DEF Follows
  <2>4. /\ "lookMail" \in AllStatements /\ "insert" \in AllStatements
    BY DEF AllStatements
  <2>5. First(op) = "lookMail"
    BY <1>2 DEF First, Opens, Changes
  <2> QED BY <2>5, <2>1, <2>2, <2>4, PathOfTwo
<1>3. CASE op = "editProfile"
  <2>1. StatementsOf(op) = <<"lookMail", "writeProfile">>
    BY <1>3 DEF StatementsOf, Changes
  <2>2. /\ <<op, "lookMail", "writeProfile">> \in Follows
        /\ <<op, "writeProfile", "end">> \in Follows
    BY <1>3 DEF Follows
  <2>4. /\ "lookMail" \in AllStatements /\ "writeProfile" \in AllStatements
    BY DEF AllStatements
  <2>5. First(op) = "lookMail"
    BY <1>3 DEF First, Opens, Changes
  <2> QED BY <2>5, <2>1, <2>2, <2>4, PathOfTwo
<1>4. CASE op = "setPassword"
  <2>1. StatementsOf(op) = <<"lookUser", "writePassword">>
    BY <1>4 DEF StatementsOf, Changes
  <2>2. /\ <<op, "lookUser", "writePassword">> \in Follows
        /\ <<op, "writePassword", "end">> \in Follows
    BY <1>4 DEF Follows
  <2>4. /\ "lookUser" \in AllStatements /\ "writePassword" \in AllStatements
    BY DEF AllStatements
  <2>5. First(op) = "lookUser"
    BY <1>4 DEF First, Opens, Changes
  <2> QED BY <2>5, <2>1, <2>2, <2>4, PathOfTwo
<1>5. CASE op = "external"
  <2>1. StatementsOf(op) = <<"lookIdentity">>
    BY <1>5 DEF StatementsOf, Changes
  <2>2. /\ <<op, "lookIdentity", "end">> \in Follows
    BY <1>5 DEF Follows
  <2>4. /\ "lookIdentity" \in AllStatements
    BY DEF AllStatements
  <2>5. First(op) = "lookIdentity"
    BY <1>5 DEF First, Opens, Changes
  <2> QED BY <2>5, <2>1, <2>2, <2>4, PathOfOne
<1>6. CASE op = "bindMail"
  <2>1. StatementsOf(op) = <<"readLogin", "lookMail", "insert", "saveLogin", "send">>
    BY <1>6 DEF StatementsOf, Changes, BindingUserSendEmail
  <2>2. /\ <<op, "readLogin", "lookMail">> \in Follows
        /\ <<op, "lookMail", "insert">> \in Follows
        /\ <<op, "insert", "saveLogin">> \in Follows
        /\ <<op, "saveLogin", "send">> \in Follows
        /\ <<op, "send", "end">> \in Follows
    BY <1>6 DEF Follows
  <2>4. /\ "readLogin" \in AllStatements /\ "lookMail" \in AllStatements
        /\ "insert" \in AllStatements /\ "saveLogin" \in AllStatements
        /\ "send" \in AllStatements
    BY DEF AllStatements
  <2>5. First(op) = "readLogin"
    BY <1>6 DEF First, Opens, Changes
  <2> QED BY <2>5, <2>1, <2>2, <2>4, PathOfFive
<1>7. CASE op = "unbind"
  <2>1. StatementsOf(op) = <<"lookUser", "list", "unbind">>
    BY <1>7 DEF StatementsOf, Changes, ExternalLoginUnbinding
  <2>2. /\ <<op, "lookUser", "list">> \in Follows
        /\ <<op, "list", "unbind">> \in Follows
        /\ <<op, "unbind", "end">> \in Follows
    BY <1>7 DEF Follows
  <2>4. /\ "lookUser" \in AllStatements /\ "list" \in AllStatements
        /\ "unbind" \in AllStatements
    BY DEF AllStatements
  <2>5. First(op) = "lookUser"
    BY <1>7 DEF First, Opens, Changes
  <2> QED BY <2>5, <2>1, <2>2, <2>4, PathOfThree
<1>8. CASE op = "askVerify"
  <2>1. StatementsOf(op) = <<"lookUser", "send">>
    BY <1>8 DEF StatementsOf, Changes
  <2>2. /\ <<op, "lookUser", "send">> \in Follows
        /\ <<op, "send", "end">> \in Follows
    BY <1>8 DEF Follows
  <2>4. /\ "lookUser" \in AllStatements /\ "send" \in AllStatements
    BY DEF AllStatements
  <2>5. First(op) = "lookUser"
    BY <1>8 DEF First, Opens, Changes
  <2> QED BY <2>5, <2>1, <2>2, <2>4, PathOfTwo
<1>9. CASE op = "askChange"
  <2>1. StatementsOf(op) = <<"lookUser", "lookMail", "send">>
    BY <1>9 DEF StatementsOf, Changes
  <2>2. /\ <<op, "lookUser", "lookMail">> \in Follows
        /\ <<op, "lookMail", "send">> \in Follows
        /\ <<op, "send", "end">> \in Follows
    BY <1>9 DEF Follows
  <2>4. /\ "lookUser" \in AllStatements /\ "lookMail" \in AllStatements
        /\ "send" \in AllStatements
    BY DEF AllStatements
  <2>5. First(op) = "lookUser"
    BY <1>9 DEF First, Opens, Changes
  <2> QED BY <2>5, <2>1, <2>2, <2>4, PathOfThree
<1>10. CASE op = "askReset"
  <2>1. StatementsOf(op) = <<"lookMail", "send">>
    BY <1>10 DEF StatementsOf, Changes
  <2>2. /\ <<op, "lookMail", "send">> \in Follows
        /\ <<op, "send", "end">> \in Follows
    BY <1>10 DEF Follows
  <2>4. /\ "lookMail" \in AllStatements /\ "send" \in AllStatements
    BY DEF AllStatements
  <2>5. First(op) = "lookMail"
    BY <1>10 DEF First, Opens, Changes
  <2> QED BY <2>5, <2>1, <2>2, <2>4, PathOfTwo
<1>11. CASE op = "verify"
  <2> DEFINE t == <<"lookMail", "confirm", "readLogin", "lookBinding", "bind">>
  <2>1. Path(op, t) /\ t \in Seq(AllStatements) /\ t # <<>> /\ Head(t) = "lookMail"
    <3>1. /\ <<op, "lookMail", "confirm">> \in Follows
          /\ <<op, "confirm", "readLogin">> \in Follows
          /\ <<op, "readLogin", "lookBinding">> \in Follows
          /\ <<op, "lookBinding", "bind">> \in Follows
          /\ <<op, "bind", "end">> \in Follows
      BY <1>11 DEF Follows
    <3>4. /\ "lookMail" \in AllStatements /\ "confirm" \in AllStatements
          /\ "readLogin" \in AllStatements /\ "lookBinding" \in AllStatements
          /\ "bind" \in AllStatements
      BY DEF AllStatements
    <3> QED BY <3>1, <3>4, PathOfFive
  <2>2. StatementsOf(op) = VerifyCode \o t
    BY <1>11 DEF StatementsOf, Changes, UserVerifyEmail
  <2>3. op \in Opens
    BY <1>11 DEF Opens
  <2> HIDE DEF t
  <2>5. First(op) = "readCode"
    BY <1>11 DEF First, Opens, Changes
  <2> QED BY <2>5, <2>1, <2>2, <2>3, CodePath
<1>12. CASE op = "changeMail"
  <2> DEFINE t == <<"lookMail", "lookUser", "writeMail", "confirm">>
  <2>1. Path(op, t) /\ t \in Seq(AllStatements) /\ t # <<>> /\ Head(t) = "lookMail"
    <3>1. /\ <<op, "lookMail", "lookUser">> \in Follows
          /\ <<op, "lookUser", "writeMail">> \in Follows
          /\ <<op, "writeMail", "confirm">> \in Follows
          /\ <<op, "confirm", "end">> \in Follows
      BY <1>12 DEF Follows
    <3>4. /\ "lookMail" \in AllStatements /\ "lookUser" \in AllStatements
          /\ "writeMail" \in AllStatements /\ "confirm" \in AllStatements
      BY DEF AllStatements
    <3> QED BY <3>1, <3>4, PathOfFour
  <2>2. StatementsOf(op) = VerifyCode \o t
    BY <1>12 DEF StatementsOf, Changes, UserChangeEmailVerify
  <2>3. op \in Opens
    BY <1>12 DEF Opens
  <2> HIDE DEF t
  <2>5. First(op) = "readCode"
    BY <1>12 DEF First, Opens, Changes
  <2> QED BY <2>5, <2>1, <2>2, <2>3, CodePath
<1>13. CASE op = "reset"
  <2> DEFINE t == <<"lookMail", "writePassword">>
  <2>1. Path(op, t) /\ t \in Seq(AllStatements) /\ t # <<>> /\ Head(t) = "lookMail"
    <3>1. /\ <<op, "lookMail", "writePassword">> \in Follows
          /\ <<op, "writePassword", "end">> \in Follows
      BY <1>13 DEF Follows
    <3>4. /\ "lookMail" \in AllStatements /\ "writePassword" \in AllStatements
      BY DEF AllStatements
    <3> QED BY <3>1, <3>4, PathOfTwo
  <2>2. StatementsOf(op) = VerifyCode \o t
    BY <1>13 DEF StatementsOf, Changes, UpdatePasswordWhenForgot
  <2>3. op \in Opens
    BY <1>13 DEF Opens
  <2> HIDE DEF t
  <2>5. First(op) = "readCode"
    BY <1>13 DEF First, Opens, Changes
  <2> QED BY <2>5, <2>1, <2>2, <2>3, CodePath
<1>14. CASE op \in Changes
  <2>1. StatementsOf(op) = <<"lookUser", "writeStatus">>
    BY <1>14 DEF StatementsOf, Changes
  <2>2. /\ <<op, "lookUser", "writeStatus">> \in Follows
        /\ <<op, "writeStatus", "end">> \in Follows
    BY <1>14 DEF Follows
  <2>4. /\ "lookUser" \in AllStatements /\ "writeStatus" \in AllStatements
    BY DEF AllStatements
  <2>5. First(op) = "lookUser"
    BY <1>14 DEF First, Opens, Changes
  <2> QED BY <2>5, <2>1, <2>2, <2>4, PathOfTwo
<1> QED BY <1>1, <1>2, <1>3, <1>4, <1>5, <1>6, <1>7, <1>8, <1>9, <1>10, <1>11, <1>12, <1>13,
          <1>14 DEF AllOperations, Opens

-----------------------------------------------------------------------------
(* What every step keeps *)

\* Users, half-made logins and mails stay, passwords and what was vouched for too,
\* and an account that may be confirmed still may.
Grows ==
  /\ \A u \in Users : Exists(u) => Exists(u)' /\ (account[u].pass => account'[u].pass)
  /\ \A u \in Users : Sure(u) => Sure(u)'
  /\ \A k \in Keys : login[k] # None => login'[k] # None
  /\ \A c \in Codes : mail[c] # None => mail'[c] = mail[c]
  /\ vouched \subseteq vouched'

LEMMA NothingGrows ==
  ASSUME UNCHANGED <<account, mail, login, lost, vouched>>
  PROVE  Grows
BY DEF Grows, Sure, Registered, Exists

LEMMA KnowsGrows ==
  ASSUME Grows, NEW q, NEW s, Knows(q, s)
  PROVE  Knows(q, s)'
<1>1. \A u : (Registered(u) => Registered(u)') /\ (Sure(u) => Sure(u)')
  BY DEF Grows, Registered, Sure
<1>2. \A u : Registered(u) /\ account[u].pass => account'[u].pass
  BY DEF Grows, Registered
<1>3. KnowsUser(q, s)'
  <2>1. KnowsUser(q, s)
    BY DEF Knows
  <2>2. q.op = "unbind" => Registered(q.user)
    BY <2>1 DEF KnowsUser, OfUser
  <2> QED BY <1>1, <1>2, <2>1, <2>2 DEF KnowsUser
<1>4. KnowsLogin(q, s)'
  <2>1. KnowsLogin(q, s)
    BY DEF Knows
  <2> QED BY <1>1, <2>1 DEF KnowsLogin, Grows
<1>5. KnowsCode(q, s)'
  <2>1. KnowsCode(q, s)
    BY DEF Knows
  <2> QED BY <1>1, <2>1 DEF KnowsCode, Grows
<1> QED BY <1>3, <1>4, <1>5 DEF Knows

\* What an unchanged table keeps.
LEMMA TablesKept ==
  ASSUME ProofInv, Grows
  PROVE  /\ UNCHANGED account => AccountsRight'
         /\ UNCHANGED binding => BindingsRight'
         /\ UNCHANGED <<mail, valid>> => MailsRight'
<1>1. \A u : (Registered(u) => Registered(u)') /\ (Sure(u) => Sure(u)')
  BY DEF Grows, Registered, Sure
<1>2. UNCHANGED account => AccountsRight'
  BY <1>1 DEF ProofInv, AccountsRight, Exists
<1>3. UNCHANGED binding => BindingsRight'
  BY <1>1 DEF ProofInv, BindingsRight
<1>4. UNCHANGED <<mail, valid>> => MailsRight'
  BY <1>1 DEF ProofInv, MailsRight, Grows
<1> QED BY <1>2, <1>3, <1>4

\* A handler at a statement has what it knows there, and goes on along its path.
LEMMA AtStep ==
  ASSUME ProofInv, NEW h \in Handlers, NEW s, At(h, s)
  PROVE  \E q \in AllRequests, rest \in Seq(AllStatements) :
           /\ q = req[h] /\ rest = Tail(todo[h]) /\ Knows(q, s) /\ Path(q.op, rest)
           /\ <<q.op, s, IF rest = <<>> THEN "end" ELSE Head(rest)>> \in Follows
<1>1. todo[h] \in Seq(AllStatements) /\ todo[h] # <<>> /\ Head(todo[h]) = s
  BY DEF ProofInv, IdentityTypeOK, At, Busy
<1>2. req[h] \in AllRequests /\ Path(req[h].op, todo[h]) /\ Knows(req[h], s)
  BY <1>1 DEF ProofInv, Working
<1>3. /\ Tail(todo[h]) \in Seq(AllStatements) /\ Path(req[h].op, Tail(todo[h]))
      /\ <<req[h].op, s, IF Tail(todo[h]) = <<>> THEN "end" ELSE Head(Tail(todo[h]))>> \in Follows
  BY <1>1, <1>2, PathStep
<1> QED BY <1>2, <1>3

\* The handler of a step knows what it has to, and the others still do.
LEMMA WorkingKept ==
  ASSUME ProofInv, Grows, NEW h \in Handlers, NEW q, NEW rest \in Seq(AllStatements),
         Proceed(h, rest, q),
         rest # <<>> => q \in AllRequests /\ Path(q.op, rest) /\ Knows(q, Head(rest))'
  PROVE  /\ todo' \in [Handlers -> Seq(AllStatements)]
         /\ req' \in [Handlers -> AllRequests \cup {NoRequest}]
         /\ \A g \in Handlers : Working(g)'
<1>1. /\ todo \in [Handlers -> Seq(AllStatements)]
      /\ req \in [Handlers -> AllRequests \cup {NoRequest}]
  BY DEF ProofInv, IdentityTypeOK
<1>2. /\ todo' \in [Handlers -> Seq(AllStatements)]
      /\ req' \in [Handlers -> AllRequests \cup {NoRequest}]
  BY <1>1 DEF Proceed
<1>3. todo'[h] = rest /\ (rest # <<>> => req'[h] = q)
  BY <1>1 DEF Proceed
<1>4. Working(h)'
  BY <1>3 DEF Working
<1>5. ASSUME NEW g \in Handlers, g # h
      PROVE  Working(g)'
  <2>1. todo'[g] = todo[g] /\ req'[g] = req[g] /\ Working(g)
    BY <1>1, <1>5 DEF Proceed, ProofInv
  <2>2. PICK p, t : p = req[g] /\ t = todo[g]
    OBVIOUS
  <2>3. t # <<>> => Knows(p, Head(t))'
    BY <2>1, <2>2, KnowsGrows DEF Working
  <2> QED BY <2>1, <2>2, <2>3 DEF Working
<1> QED BY <1>2, <1>4, <1>5

LEMMA LeaveKept ==
  ASSUME ProofInv, Grows, NEW h \in Handlers, Leave(h)
  PROVE  /\ todo' \in [Handlers -> Seq(AllStatements)]
         /\ req' \in [Handlers -> AllRequests \cup {NoRequest}]
         /\ \A g \in Handlers : Working(g)'
<1>1. <<>> \in Seq(AllStatements)
  OBVIOUS
<1> QED BY <1>1, WorkingKept DEF Leave

\* A row of a user is written.
LEMMA AccountKept ==
  ASSUME ProofInv, NEW u \in Users, NEW a \in AccountRows,
         account' = [account EXCEPT ![u] = a], UNCHANGED <<mail, login>>,
         vouched \subseteq vouched', lost \subseteq lost',
         Exists(u) /\ account[u].pass => a.pass,
         Sure(u) \/ a.mail = "available" =>
           u \in lost' \/ a.status = "deleted" \/ a.email \in vouched',
         a.status # "deleted" => a.email \in Emails
  PROVE  account' \in [Users -> AccountRows \cup {None}] /\ Grows /\ AccountsRight'
<1>1. account \in [Users -> AccountRows \cup {None}] /\ a # None
  BY IdentityAssumption DEF ProofInv, IdentityTypeOK
<1>2. /\ account' \in [Users -> AccountRows \cup {None}] /\ account'[u] = a
      /\ \A v \in Users : v # u => account'[v] = account[v]
  BY <1>1
<1>3. \A v \in Users : Exists(v) => Exists(v)' /\ (account[v].pass => account'[v].pass)
  BY <1>1, <1>2 DEF Exists
<1>4. ASSUME NEW v \in Users, Sure(v)
      PROVE  Sure(v)'
  <2>1. CASE v = u
    BY <1>1, <1>2, <1>4, <2>1 DEF Sure, Registered, Exists
  <2>2. CASE v # u
    BY <1>2, <1>4, <2>2 DEF Sure, Registered, Exists
  <2> QED BY <2>1, <2>2
<1>5. Grows
  BY <1>3, <1>4 DEF Grows
<1>6. ASSUME NEW v \in Users, Exists(v)'
      PROVE  /\ account'[v].status # "deleted" => account'[v].email \in Emails
             /\ account'[v].mail = "available" => Sure(v)'
  <2>1. CASE v = u
    BY <1>1, <1>2, <1>6, <2>1 DEF Sure, Registered, Exists
  <2>2. CASE v # u
    <3>1. /\ account[v].status # "deleted" => account[v].email \in Emails
          /\ account[v].mail = "available" => Sure(v)
      BY <1>2, <1>6, <2>2 DEF ProofInv, AccountsRight, Exists
    <3> QED BY <1>2, <1>4, <2>2, <3>1
  <2> QED BY <2>1, <2>2
<1> QED BY <1>2, <1>5, <1>6 DEF AccountsRight

-----------------------------------------------------------------------------
(* The steps that only read *)

\* A step that stores nothing has to know what its handler goes on with.
LEMMA ReadKept ==
  ASSUME ProofInv, NEW h \in Handlers, NEW q, NEW rest \in Seq(AllStatements),
         Proceed(h, rest, q),
         rest # <<>> => q \in AllRequests /\ Path(q.op, rest) /\ Knows(q, Head(rest)),
         UNCHANGED <<data, cache, received, contested, lost, vouched>>,
         alone' \in [Handlers -> BOOLEAN]
  PROVE  ProofInv'
<1>1. Grows
  BY NothingGrows DEF data, cache
<1>2. rest # <<>> => Knows(q, Head(rest))'
  BY <1>1, KnowsGrows
<1>3. /\ todo' \in [Handlers -> Seq(AllStatements)]
      /\ req' \in [Handlers -> AllRequests \cup {NoRequest}]
      /\ \A g \in Handlers : Working(g)'
  BY <1>1, <1>2, WorkingKept
<1>4. AccountsRight' /\ BindingsRight' /\ MailsRight'
  BY <1>1, TablesKept DEF data, cache
<1>5. IdentityTypeOK'
  BY <1>3 DEF ProofInv, IdentityTypeOK, data, cache
<1> QED BY <1>3, <1>4, <1>5 DEF ProofInv

LEMMA AloneKept ==
  ASSUME ProofInv, NEW h \in Handlers, Looked(h) \/ Unnoticed
  PROVE  alone' \in [Handlers -> BOOLEAN] /\ UNCHANGED <<contested, lost, vouched>>
BY DEF ProofInv, IdentityTypeOK, Looked, Unnoticed

\* A request ends, or fails.
LEMMA LeaveReads ==
  ASSUME ProofInv, NEW h \in Handlers, Leave(h),
         UNCHANGED <<data, cache, received, contested, lost, vouched>>,
         alone' \in [Handlers -> BOOLEAN]
  PROVE  ProofInv'
<1>1. <<>> \in Seq(AllStatements)
  OBVIOUS
<1> QED BY <1>1, ReadKept DEF Leave

LEMMA GiveUpKept ==
  ASSUME ProofInv, NEW h \in Handlers, GiveUp(h)
  PROVE  ProofInv'
<1>1. alone' \in [Handlers -> BOOLEAN] /\ UNCHANGED <<contested, lost, vouched>>
  BY AloneKept DEF GiveUp
<1> QED BY <1>1, LeaveReads DEF GiveUp

LEMMA ListKept ==
  ASSUME ProofInv, NEW h \in Handlers, List(h)
  PROVE  ProofInv'
<1>1. /\ alone' \in [Handlers -> BOOLEAN]
      /\ UNCHANGED <<data, cache, received, contested, lost, vouched>>
  BY AloneKept DEF List
<1>2. CASE Leave(h)
  BY <1>1, <1>2, LeaveReads
<1>3. CASE ~Leave(h)
  <2>1. PICK q \in AllRequests, rest \in Seq(AllStatements) :
          /\ q = req[h] /\ rest = Tail(todo[h]) /\ Knows(q, "list") /\ Path(q.op, rest)
          /\ <<q.op, "list", IF rest = <<>> THEN "end" ELSE Head(rest)>> \in Follows
    BY AtStep DEF List
  <2>2. PICK n : n = Cardinality(Bound(q.user))
    OBVIOUS
  <2>3. Bound(q.user) \subseteq Rows /\ IsFiniteSet(Rows)
    BY FS_Interval, IdentityAssumption DEF Bound, Rows
  <2>4. n \in Nat
    BY <2>2, <2>3, FS_Subset, FS_CardinalityType
  <2>5. n >= 2 /\ GoOn(h, [q EXCEPT !.listed = n])
    BY <1>3, <2>1, <2>2, <2>4 DEF List, LastWayIn
  <2>6. PICK p : p = [q EXCEPT !.listed = n]
    OBVIOUS
  <2>7. /\ p \in AllRequests /\ p.op = q.op /\ p.user = q.user /\ p.email = q.email
        /\ p.key = q.key /\ p.identity = q.identity /\ p.code = q.code /\ p.row = q.row
        /\ p.listed = n
    BY <2>4, <2>6 DEF AllRequests
  <2>8. q.op = "unbind" /\ (rest # <<>> => Head(rest) = "unbind")
    BY <2>1 DEF Follows
  <2>9. rest # <<>> => Knows(p, Head(rest))
    <3>1. Knows(p, "unbind")
      BY <2>1, <2>5, <2>7, <2>8 DEF Knows, KnowsUser, KnowsLogin, KnowsCode, OfUser, Opens, Changes,
           Mailing
    <3> QED BY <3>1, <2>8
  <2> QED BY <1>1, <2>1, <2>5, <2>6, <2>7, <2>9, ReadKept DEF GoOn
<1> QED BY <1>2, <1>3

LEMMA CompareCodeKept ==
  ASSUME ProofInv, NEW h \in Handlers, CompareCode(h)
  PROVE  ProofInv'
<1>1. /\ alone' \in [Handlers -> BOOLEAN]
      /\ UNCHANGED <<data, cache, received, contested, lost, vouched>>
  BY AloneKept DEF CompareCode
<1>2. CASE Leave(h)
  BY <1>1, <1>2, LeaveReads
<1>3. CASE ~Leave(h)
  <2>1. PICK q \in AllRequests, rest \in Seq(AllStatements) :
          /\ q = req[h] /\ rest = Tail(todo[h]) /\ Knows(q, "compareCode") /\ Path(q.op, rest)
          /\ <<q.op, "compareCode", IF rest = <<>> THEN "end" ELSE Head(rest)>> \in Follows
    BY AtStep DEF CompareCode
  <2>2. GoOn(h, q)
    BY <1>3, <2>1 DEF CompareCode
  <2>3. q.op \in Opens /\ (rest # <<>> => Head(rest) = "lookMail")
    BY <2>1 DEF Follows
  <2>4. rest # <<>> => Knows(q, Head(rest))
    <3>1. Knows(q, "lookMail")
      BY <2>1, <2>3 DEF Knows, KnowsUser, KnowsLogin, KnowsCode, OfUser, Opens, Changes, Mailing,
           WithAddress
    <3> QED BY <3>1, <2>3
  <2> QED BY <1>1, <2>1, <2>2, <2>4, ReadKept DEF GoOn
<1> QED BY <1>2, <1>3

\* Who is not a member yet goes on with what he knows from his provider.
LEMMA UnknownPath ==
  ASSUME NEW q \in AllRequests, q.op = "external", NEW s, Knows(q, s)
  PROVE  /\ Unknown(q) \in Seq(AllStatements) /\ Path(q.op, Unknown(q))
         /\ Knows(q, Head(Unknown(q)))
<1>1. CASE q.email = None
  <2>1. Unknown(q) = <<"saveLogin">>
    BY <1>1 DEF Unknown, AskForEmail
  <2>2. "saveLogin" \in AllStatements /\ <<q.op, "saveLogin", "end">> \in Follows
    BY DEF AllStatements, Follows
  <2>3. /\ <<"saveLogin">> \in Seq(AllStatements) /\ Path(q.op, <<"saveLogin">>)
        /\ Head(<<"saveLogin">>) = "saveLogin"
    BY <2>2, PathOfOne
  <2>4. Knows(q, "saveLogin")
    BY DEF Knows, KnowsUser, KnowsLogin, KnowsCode, OfUser, Opens, Changes, Mailing, WithAddress
  <2> QED BY <2>1, <2>3, <2>4
<1>2. CASE q.email # None
  <2>1. Unknown(q) = <<"lookMail", "insert", "lookBinding", "bind", "confirm">>
    BY <1>2 DEF Unknown, LoginByEmail
  <2>2. /\ "lookMail" \in AllStatements /\ "insert" \in AllStatements /\ "lookBinding" \in AllStatements
        /\ "bind" \in AllStatements /\ "confirm" \in AllStatements
    BY DEF AllStatements
  <2>3. /\ <<q.op, "lookMail", "insert">> \in Follows /\ <<q.op, "insert", "lookBinding">> \in Follows
        /\ <<q.op, "lookBinding", "bind">> \in Follows /\ <<q.op, "bind", "confirm">> \in Follows
        /\ <<q.op, "confirm", "end">> \in Follows
    BY DEF Follows
  <2>4. /\ Unknown(q) \in Seq(AllStatements) /\ Path(q.op, Unknown(q))
        /\ Head(Unknown(q)) = "lookMail"
    BY <2>1, <2>2, <2>3, PathOfFive
  <2>5. q.email \in Emails
    BY <1>2 DEF AllRequests
  <2>6. Knows(q, "lookMail")
    BY <2>5 DEF Knows, KnowsUser, KnowsLogin, KnowsCode, OfUser, Opens, Changes, Mailing,
         WithAddress
  <2> QED BY <2>4, <2>6
<1> QED BY <1>1, <1>2

LEMMA LookIdentityKept ==
  ASSUME ProofInv, NEW h \in Handlers, LookIdentity(h)
  PROVE  ProofInv'
<1>1. /\ alone' \in [Handlers -> BOOLEAN]
      /\ UNCHANGED <<data, cache, received, contested, lost, vouched>>
  BY AloneKept DEF LookIdentity
<1>2. PICK q \in AllRequests, rest \in Seq(AllStatements) :
        /\ q = req[h] /\ rest = Tail(todo[h]) /\ Knows(q, "lookIdentity") /\ Path(q.op, rest)
        /\ <<q.op, "lookIdentity", IF rest = <<>> THEN "end" ELSE Head(rest)>> \in Follows
  BY AtStep DEF LookIdentity
<1>3. q.op = "external"
  BY <1>2 DEF Follows
<1>4. CASE Proceed(h, Unknown(q), q)
  BY <1>1, <1>2, <1>3, <1>4, UnknownPath, ReadKept
<1>5. ASSUME NEW r \in RowsOf(q.identity),
             Proceed(h, LoginDirectly, [q EXCEPT !.user = binding[r].user])
      PROVE  ProofInv'
  <2>1. r \in Rows /\ binding[r] # None /\ binding[r] \in BindingRows
    BY <1>5 DEF RowsOf, ProofInv, IdentityTypeOK
  <2>2. PICK u : u = binding[r].user
    OBVIOUS
  <2>3. u \in Users /\ Sure(u)
    BY <2>1, <2>2 DEF BindingRows, ProofInv, BindingsRight
  <2>4. PICK p : p = [q EXCEPT !.user = u]
    OBVIOUS
  <2>5. /\ p \in AllRequests /\ p.op = q.op /\ p.user = u /\ p.email = q.email
        /\ p.key = q.key /\ p.identity = q.identity /\ p.code = q.code /\ p.row = q.row
    BY <2>3, <2>4 DEF AllRequests
  <2>6. Knows(p, "lookOwner")
    BY <1>2, <1>3, <2>3, <2>5 DEF Knows, KnowsUser, KnowsLogin, KnowsCode, OfUser, Opens, Changes,
         Mailing, WithAddress
  <2>7. "lookOwner" \in AllStatements /\ "confirm" \in AllStatements
    BY DEF AllStatements
  <2>8. <<p.op, "lookOwner", "confirm">> \in Follows /\ <<p.op, "confirm", "end">> \in Follows
    BY <1>3, <2>5 DEF Follows
  <2>9. /\ LoginDirectly \in Seq(AllStatements) /\ Path(p.op, LoginDirectly)
        /\ Head(LoginDirectly) = "lookOwner"
    BY <2>7, <2>8, PathOfTwo DEF LoginDirectly
  <2> QED BY <1>1, <1>5, <2>2, <2>4, <2>5, <2>6, <2>9, ReadKept
<1> QED BY <1>2, <1>4, <1>5 DEF LookIdentity

LEMMA LookOwnerKept ==
  ASSUME ProofInv, NEW h \in Handlers, LookOwner(h)
  PROVE  ProofInv'
<1>1. /\ alone' \in [Handlers -> BOOLEAN]
      /\ UNCHANGED <<data, cache, received, contested, lost, vouched>>
  BY AloneKept DEF LookOwner
<1>2. PICK q \in AllRequests, rest \in Seq(AllStatements) :
        /\ q = req[h] /\ rest = Tail(todo[h]) /\ Knows(q, "lookOwner") /\ Path(q.op, rest)
        /\ <<q.op, "lookOwner", IF rest = <<>> THEN "end" ELSE Head(rest)>> \in Follows
  BY AtStep DEF LookOwner
<1>3. q.op = "external" /\ (rest # <<>> => Head(rest) = "confirm")
  BY <1>2 DEF Follows
<1>4. CASE Live(q.user)
  <2>1. PICK a : a = account[q.user]
    OBVIOUS
  <2>2. Sure(q.user)
    BY <1>2, <1>3 DEF Knows, KnowsLogin
  <2>3. a \in AccountRows
    BY <2>1, <2>2 DEF Sure, Registered, Exists, ProofInv, IdentityTypeOK
  <2>4. PICK p : p = [q EXCEPT !.row = a]
    OBVIOUS
  <2>5. /\ p \in AllRequests /\ p.op = q.op /\ p.user = q.user /\ p.email = q.email
        /\ p.key = q.key /\ p.identity = q.identity /\ p.code = q.code /\ p.row = a
    BY <2>3, <2>4 DEF AllRequests
  <2>6. Knows(p, "confirm")
    BY <1>2, <1>3, <2>2, <2>3, <2>5 DEF Knows, KnowsUser, KnowsLogin, KnowsCode, OfUser, Opens,
         Changes, Mailing, WithAddress
  <2>7. Proceed(h, rest, p)
    BY <1>2, <1>4, <2>1, <2>4 DEF LookOwner, GoOn
  <2>8. rest # <<>> => Knows(p, Head(rest)) /\ Path(p.op, rest)
    BY <1>2, <1>3, <2>5, <2>6
  <2> QED BY <1>1, <2>5, <2>7, <2>8, ReadKept
<1>5. CASE ~Live(q.user)
  <2>1. PICK p : p = [q EXCEPT !.user = None]
    OBVIOUS
  <2>2. /\ p \in AllRequests /\ p.op = q.op /\ p.user = None /\ p.email = q.email
        /\ p.key = q.key /\ p.identity = q.identity /\ p.code = q.code /\ p.row = q.row
    BY <2>1 DEF AllRequests
  <2>3. Unknown(p) = Unknown(q)
    BY <2>2 DEF Unknown
  <2>4. Knows(p, "saveLogin")
    BY <1>2, <1>3, <2>2 DEF Knows, KnowsUser, KnowsLogin, KnowsCode, OfUser, Opens, Changes,
         Mailing, WithAddress
  <2>5. Proceed(h, Unknown(p), p)
    BY <1>2, <1>5, <2>1, <2>3 DEF LookOwner
  <2> QED BY <1>1, <1>3, <2>2, <2>4, <2>5, UnknownPath, ReadKept
<1> QED BY <1>4, <1>5

LEMMA ReadLoginKept ==
  ASSUME ProofInv, NEW h \in Handlers, ReadLogin(h)
  PROVE  ProofInv'
<1>1. /\ alone' \in [Handlers -> BOOLEAN]
      /\ UNCHANGED <<data, cache, received, contested, lost, vouched>>
  BY AloneKept DEF ReadLogin
<1>2. CASE Leave(h)
  BY <1>1, <1>2, LeaveReads
<1>3. CASE ~Leave(h)
  <2>1. PICK q \in AllRequests, rest \in Seq(AllStatements) :
          /\ q = req[h] /\ rest = Tail(todo[h]) /\ Knows(q, "readLogin") /\ Path(q.op, rest)
          /\ <<q.op, "readLogin", IF rest = <<>> THEN "end" ELSE Head(rest)>> \in Follows
    BY AtStep DEF ReadLogin
  <2>2. \/ q.op = "bindMail" /\ (rest # <<>> => Head(rest) = "lookMail")
        \/ q.op = "verify" /\ (rest # <<>> => Head(rest) = "lookBinding")
    BY <2>1 DEF Follows
  <2>3. q.key \in Keys /\ login[q.key] # None
    BY <2>1, <2>2 DEF Knows, KnowsLogin, KnowsCode, Opens
  <2>4. PICK i : i = login[q.key].identity
    OBVIOUS
  <2>5. i \in Identities
    BY <2>3, <2>4 DEF ProofInv, IdentityTypeOK, Logins
  <2>6. PICK p : p = [q EXCEPT !.identity = i]
    OBVIOUS
  <2>7. /\ p \in AllRequests /\ p.op = q.op /\ p.user = q.user /\ p.email = q.email
        /\ p.key = q.key /\ p.identity = i /\ p.code = q.code /\ p.row = q.row
    BY <2>5, <2>6 DEF AllRequests
  <2>8. Proceed(h, rest, p)
    BY <1>3, <2>1, <2>4, <2>6 DEF ReadLogin, GoOn
  <2>9. rest # <<>> => Knows(p, Head(rest))
    <3>1. q.op = "bindMail" => Knows(p, "lookMail")
      BY <2>1, <2>5, <2>7 DEF Knows, KnowsUser, KnowsLogin, KnowsCode, OfUser, Opens,
           Changes, Mailing, WithAddress
    <3>2. q.op = "verify" => Knows(p, "lookBinding")
      BY <2>1, <2>5, <2>7 DEF Knows, KnowsUser, KnowsLogin, KnowsCode, OfUser, Opens,
           Changes, Mailing, WithAddress
    <3> QED BY <2>2, <3>1, <3>2
  <2> QED BY <1>1, <2>1, <2>7, <2>8, <2>9, ReadKept
<1> QED BY <1>2, <1>3

LEMMA LookBindingKept ==
  ASSUME ProofInv, NEW h \in Handlers, LookBinding(h)
  PROVE  ProofInv'
<1>1. /\ alone' \in [Handlers -> BOOLEAN]
      /\ UNCHANGED <<data, cache, received, contested, lost, vouched>>
  BY AloneKept DEF LookBinding
<1>2. PICK q \in AllRequests, rest \in Seq(AllStatements) :
        /\ q = req[h] /\ rest = Tail(todo[h]) /\ Knows(q, "lookBinding") /\ Path(q.op, rest)
        /\ <<q.op, "lookBinding", IF rest = <<>> THEN "end" ELSE Head(rest)>> \in Follows
  BY AtStep DEF LookBinding
<1>3. q.op \in {"external", "verify"} /\ (rest # <<>> => Head(rest) = "bind")
  BY <1>2 DEF Follows
<1>4. CASE GoOn(h, q)
  <2>1. Knows(q, "bind")
    BY <1>2, <1>3 DEF Knows, KnowsUser, KnowsLogin, KnowsCode, OfUser, Opens, Changes, Mailing,
         WithAddress
  <2>2. rest # <<>> => Knows(q, Head(rest))
    BY <1>3, <2>1
  <2> QED BY <1>1, <1>2, <1>4, <2>2, ReadKept DEF GoOn
<1>5. ASSUME NEW r \in RowsOf(q.identity), GoOn(h, [q EXCEPT !.bound = r])
      PROVE  ProofInv'
  <2>1. PICK p : p = [q EXCEPT !.bound = r]
    OBVIOUS
  <2>2. /\ p \in AllRequests /\ p.op = q.op /\ p.user = q.user /\ p.email = q.email
        /\ p.key = q.key /\ p.identity = q.identity /\ p.code = q.code /\ p.row = q.row
    BY <2>1 DEF AllRequests, RowsOf
  <2>3. Knows(p, "bind")
    BY <1>2, <1>3, <2>2 DEF Knows, KnowsUser, KnowsLogin, KnowsCode, OfUser, Opens, Changes,
         Mailing, WithAddress
  <2>4. rest # <<>> => Knows(p, Head(rest)) /\ Path(p.op, rest)
    BY <1>2, <1>3, <2>2, <2>3
  <2> QED BY <1>1, <1>2, <1>5, <2>1, <2>2, <2>4, ReadKept DEF GoOn
<1> QED BY <1>2, <1>4, <1>5 DEF LookBinding

LEMMA LookUserKept ==
  ASSUME ProofInv, NEW h \in Handlers, LookUser(h)
  PROVE  ProofInv'
<1>1. /\ alone' \in [Handlers -> BOOLEAN]
      /\ UNCHANGED <<data, cache, received, contested, lost, vouched>>
  BY AloneKept DEF LookUser
<1>2. CASE Leave(h)
  BY <1>1, <1>2, LeaveReads
<1>3. CASE ~Leave(h)
  <2>1. PICK q \in AllRequests, rest \in Seq(AllStatements) :
          /\ q = req[h] /\ rest = Tail(todo[h]) /\ Knows(q, "lookUser") /\ Path(q.op, rest)
          /\ <<q.op, "lookUser", IF rest = <<>> THEN "end" ELSE Head(rest)>> \in Follows
    BY AtStep DEF LookUser
  <2>2. /\ q.op \in {"setPassword", "askVerify", "askChange", "unbind", "changeMail"} \cup Changes
        /\ rest # <<>> => \/ q.op = "setPassword" /\ Head(rest) = "writePassword"
                          \/ q.op = "askVerify" /\ Head(rest) = "send"
                          \/ q.op = "askChange" /\ Head(rest) = "lookMail"
                          \/ q.op = "unbind" /\ Head(rest) = "list"
                          \/ q.op = "changeMail" /\ Head(rest) = "writeMail"
                          \/ q.op \in Changes /\ Head(rest) = "writeStatus"
    BY <2>1 DEF Follows, Opens, Changes
  <2>3. Registered(q.user)
    BY <2>1, <2>2 DEF Knows, KnowsUser, KnowsCode, OfUser, Opens
  <2>4. PICK a : a = account[q.user]
    OBVIOUS
  <2>5. a \in AccountRows /\ (a.status # "deleted" => a.email \in Emails)
    BY <2>3, <2>4 DEF Registered, Exists, ProofInv, IdentityTypeOK, AccountsRight
  <2>6. CASE q.op = "unbind" /\ a.pass
    <3>1. Proceed(h, <<"unbind">>, q)
      BY <1>3, <2>1, <2>4, <2>6 DEF LookUser
    <3>2. "unbind" \in AllStatements /\ <<q.op, "unbind", "end">> \in Follows
      BY <2>6 DEF AllStatements, Follows
    <3>3. /\ <<"unbind">> \in Seq(AllStatements) /\ Path(q.op, <<"unbind">>)
          /\ Head(<<"unbind">>) = "unbind"
      BY <3>2, PathOfOne
    <3>4. Knows(q, "unbind")
      BY <2>1, <2>3, <2>4, <2>6 DEF Knows, KnowsUser, KnowsLogin, KnowsCode, OfUser, Opens,
           Changes, Mailing, WithAddress
    <3> QED BY <1>1, <3>1, <3>3, <3>4, ReadKept
  <2>7. CASE ~(q.op = "unbind" /\ a.pass)
    <3>1. PICK e : e = IF q.op = "askVerify" THEN a.email ELSE q.email
      OBVIOUS
    <3>2. e \in Emails \cup {None}
      BY <2>5, <3>1 DEF AllRequests, AccountRows
    <3>3. PICK p : p = [q EXCEPT !.row = a, !.email = e]
      OBVIOUS
    <3>4. /\ p \in AllRequests /\ p.op = q.op /\ p.user = q.user /\ p.email = e
          /\ p.key = q.key /\ p.identity = q.identity /\ p.code = q.code /\ p.row = a
          /\ p.listed = q.listed
      BY <2>5, <3>2, <3>3 DEF AllRequests
    <3>5. /\ ~(q.op \in Changes /\ a.status = "deleted")
          /\ GoOn(h, [q EXCEPT !.row = a, !.email = IF q.op = "askVerify" THEN a.email ELSE @])
      BY <1>3, <2>1, <2>4, <2>7 DEF LookUser
    <3>6. [q EXCEPT !.row = a, !.email = IF q.op = "askVerify" THEN a.email ELSE @] = p
      BY <3>1, <3>3 DEF AllRequests
    <3>7. Proceed(h, rest, p)
      BY <2>1, <3>5, <3>6 DEF GoOn
    <3>8. rest # <<>> => Knows(p, Head(rest))
      <4>1. q.op \in Changes => a.status # "deleted" /\ a.email \in Emails
        BY <2>5, <3>5
      <4>2. q.op \in WithAddress \cup Opens => e = q.email
        BY <3>1 DEF WithAddress, Opens
      <4>3. rest # <<>> => KnowsUser(p, Head(rest))
        BY <2>1, <2>2, <2>3, <2>5, <3>4, <4>1, <4>2 DEF Knows, KnowsUser, OfUser, Changes, Mailing,
             WithAddress
      <4>4. rest # <<>> => KnowsLogin(p, Head(rest))
        BY <2>1, <2>2, <3>4 DEF Knows, KnowsLogin, Changes
      <4>5. rest # <<>> => KnowsCode(p, Head(rest))
        BY <2>1, <2>2, <3>4, <4>2 DEF Knows, KnowsCode, Changes, Opens
      <4> QED BY <4>3, <4>4, <4>5 DEF Knows
    <3> QED BY <1>1, <2>1, <3>4, <3>7, <3>8, ReadKept
  <2> QED BY <2>6, <2>7
<1> QED BY <1>2, <1>3

\* What an operation does after it has looked for an address.
LEMMA AfterLookMail ==
  ASSUME NEW op, NEW s, <<op, "lookMail", s>> \in Follows
  PROVE  \/ op \in {"register", "addUser", "external", "bindMail"} /\ s = "insert"
         \/ op = "editProfile" /\ s = "writeProfile"
         \/ op \in {"askChange", "askReset"} /\ s = "send"
         \/ op = "verify" /\ s = "confirm"
         \/ op = "changeMail" /\ s = "lookUser"
         \/ op = "reset" /\ s = "writePassword"
BY DEF Follows, Opens, Changes

LEMMA LookMailKept ==
  ASSUME ProofInv, NEW h \in Handlers, LookMail(h)
  PROVE  ProofInv'
<1>1. /\ alone' \in [Handlers -> BOOLEAN]
      /\ UNCHANGED <<data, cache, received, contested, lost, vouched>>
  BY AloneKept DEF LookMail
<1>2. CASE Leave(h)
  BY <1>1, <1>2, LeaveReads
<1>3. PICK q \in AllRequests, rest \in Seq(AllStatements) :
        /\ q = req[h] /\ rest = Tail(todo[h]) /\ Knows(q, "lookMail") /\ Path(q.op, rest)
        /\ <<q.op, "lookMail", IF rest = <<>> THEN "end" ELSE Head(rest)>> \in Follows
  BY AtStep DEF LookMail
<1>4. CASE q.op \notin WantsOne /\ GoOn(h, q)
  <2>1. rest # <<>> => Knows(q, Head(rest))
    <3>1. rest # <<>> =>
            \/ q.op \in {"register", "addUser", "external", "bindMail"} /\ Head(rest) = "insert"
            \/ q.op = "editProfile" /\ Head(rest) = "writeProfile"
            \/ q.op = "askChange" /\ Head(rest) = "send"
            \/ q.op = "changeMail" /\ Head(rest) = "lookUser"
      BY <1>3, <1>4, AfterLookMail DEF WantsOne
    <3>2. rest # <<>> => KnowsUser(q, Head(rest))
      BY <1>3, <3>1 DEF Knows, KnowsUser, Changes, Mailing, OfUser
    <3>3. rest # <<>> => KnowsLogin(q, Head(rest))
      BY <1>3, <3>1 DEF Knows, KnowsLogin
    <3>4. rest # <<>> => KnowsCode(q, Head(rest))
      BY <1>3, <3>1 DEF Knows, KnowsCode, Opens
    <3> QED BY <3>2, <3>3, <3>4 DEF Knows
  <2> QED BY <1>1, <1>3, <1>4, <2>1, ReadKept DEF GoOn
<1>5. ASSUME NEW u \in WithMail(q.email),
             \/ q.op \in WantsOne /\ GoOn(h, [q EXCEPT !.user = u, !.row = account[u]])
             \/ q.op = "external"
                /\ Proceed(h, Tail(Tail(todo[h])), [q EXCEPT !.user = u, !.row = account[u]])
             \/ q.op = "bindMail" /\ Proceed(h, Tail(Tail(todo[h])), [q EXCEPT !.user = u])
      PROVE  ProofInv'
  <2>1. PICK a : a = account[u]
    OBVIOUS
  <2>2. /\ u \in Users /\ Registered(u) /\ a \in AccountRows /\ a.status # "deleted"
        /\ a.email = q.email /\ q.email \in Emails
    <3>1. u \in Users /\ Live(u) /\ a.email = q.email
      BY <1>5, <2>1 DEF WithMail
    <3> QED BY <2>1, <3>1 DEF Live, Registered, Exists, ProofInv, IdentityTypeOK, AccountsRight
  <2>3. q.email \in vouched => Sure(u)
    BY <2>1, <2>2 DEF Sure
  <2>4. PICK b : b = IF q.op = "bindMail" THEN q.row ELSE a
    OBVIOUS
  <2>5. PICK p : p = [q EXCEPT !.user = u, !.row = b]
    OBVIOUS
  <2>6. /\ p \in AllRequests /\ p.op = q.op /\ p.user = u /\ p.email = q.email
        /\ p.key = q.key /\ p.identity = q.identity /\ p.code = q.code /\ p.row = b
    BY <2>2, <2>4, <2>5 DEF AllRequests
  <2>7. CASE q.op \in WantsOne /\ GoOn(h, [q EXCEPT !.user = u, !.row = account[u]])
    <3>1. b = a
      BY <2>4, <2>7 DEF WantsOne
    <3>2. Proceed(h, rest, p)
      BY <1>3, <2>1, <2>5, <2>7, <3>1 DEF GoOn
    <3>3. rest # <<>> =>
            \/ q.op = "askReset" /\ Head(rest) = "send"
            \/ q.op = "verify" /\ Head(rest) = "confirm"
            \/ q.op = "reset" /\ Head(rest) = "writePassword"
      BY <1>3, <2>7, AfterLookMail DEF WantsOne
    <3>4. q.op = "verify" => Sure(u)
      BY <1>3, <2>2, <2>3, IdentityAssumption DEF Knows, KnowsCode, Opens
    <3>5. rest # <<>> => KnowsUser(p, Head(rest))
      BY <2>2, <2>6, <3>3 DEF KnowsUser, Changes, Mailing, OfUser
    <3>6. rest # <<>> => KnowsLogin(p, Head(rest))
      BY <1>3, <2>6, <3>3 DEF Knows, KnowsLogin
    <3>7. rest # <<>> => KnowsCode(p, Head(rest))
      BY <1>3, <2>2, <2>6, <3>1, <3>3, <3>4 DEF Knows, KnowsCode, Opens
    <3>8. rest # <<>> => Knows(p, Head(rest)) /\ Path(p.op, rest)
      BY <1>3, <2>6, <3>5, <3>6, <3>7 DEF Knows
    <3> QED BY <1>1, <2>6, <3>2, <3>8, ReadKept
  <2>8. CASE q.op \in {"external", "bindMail"} /\ Proceed(h, Tail(rest), p)
    <3>1. rest # <<>> /\ Head(rest) = "insert"
      BY <1>3, <2>8, AfterLookMail
    <3>2. /\ Tail(rest) \in Seq(AllStatements) /\ Path(q.op, Tail(rest))
          /\ <<q.op, "insert", IF Tail(rest) = <<>> THEN "end" ELSE Head(Tail(rest))>> \in Follows
      BY <1>3, <3>1, PathStep
    <3>3. PICK t \in Seq(AllStatements) : t = Tail(rest)
      BY <3>2
    <3>4. t # <<>> => \/ q.op = "external" /\ Head(t) = "lookBinding"
                      \/ q.op = "bindMail" /\ Head(t) = "saveLogin"
      BY <2>8, <3>2, <3>3 DEF Follows, Opens, Changes
    <3>5. q.op = "external" => Sure(u) /\ b = a
      BY <1>3, <2>2, <2>3, <2>4 DEF Knows, KnowsLogin
    <3>6. t # <<>> => KnowsUser(p, Head(t))
      BY <2>2, <2>6, <3>4 DEF KnowsUser, Changes, Mailing, OfUser
    <3>7. t # <<>> => KnowsLogin(p, Head(t))
      BY <1>3, <2>2, <2>6, <3>4, <3>5 DEF Knows, KnowsLogin
    <3>8. t # <<>> => KnowsCode(p, Head(t))
      BY <2>6, <3>4 DEF KnowsCode, Opens
    <3>9. t # <<>> => Knows(p, Head(t)) /\ Path(p.op, t)
      BY <2>6, <3>2, <3>3, <3>6, <3>7, <3>8 DEF Knows
    <3> QED BY <1>1, <2>6, <2>8, <3>3, <3>9, ReadKept
  <2>9. q.op = "bindMail" => [q EXCEPT !.user = u] = p
    BY <2>4, <2>5 DEF AllRequests
  <2>10. q.op # "bindMail" => [q EXCEPT !.user = u, !.row = account[u]] = p
    BY <2>1, <2>4, <2>5
  <2> QED BY <1>3, <1>5, <2>7, <2>8, <2>9, <2>10
<1>6. CASE q.op = "editProfile" /\ GoOn(h, q)
  BY <1>4, <1>6 DEF WantsOne
<1> QED BY <1>2, <1>3, <1>4, <1>5, <1>6 DEF LookMail

-----------------------------------------------------------------------------
(* The steps that write the cache *)

LEMMA SendKept ==
  ASSUME ProofInv, NEW h \in Handlers, Send(h)
  PROVE  ProofInv'
<1>1. alone' = alone /\ UNCHANGED <<data, login, received, contested, lost, vouched>>
  BY DEF Send, Unnoticed
<1>2. PICK q \in AllRequests, rest \in Seq(AllStatements) :
        /\ q = req[h] /\ rest = Tail(todo[h]) /\ Knows(q, "send") /\ Path(q.op, rest)
        /\ <<q.op, "send", IF rest = <<>> THEN "end" ELSE Head(rest)>> \in Follows
  BY AtStep DEF Send
<1>3. /\ q.op \in {"register", "askVerify", "askChange", "askReset", "bindMail"}
      /\ rest = <<>> \/ Head(rest) = "end"
  BY <1>2 DEF Follows
<1>4. Registered(q.user)
  BY <1>2, <1>3 DEF Knows, KnowsUser, OfUser, Mailing
<1>5. PICK m : m = [link |-> LinkOf(q.op), email |-> q.email, user |-> q.user, key |-> q.key]
  OBVIOUS
<1>6. /\ m \in Mails /\ m # None /\ m.user = q.user /\ m.key = q.key
      /\ m.link = "changeMail" => m.email \in Emails
  <2>1. LinkOf(q.op) \in Opens /\ (LinkOf(q.op) = "changeMail" => q.op = "askChange")
    BY <1>3 DEF LinkOf, Opens
  <2>2. q.op = "askChange" => q.email \in Emails
    BY <1>2 DEF Knows, KnowsUser, WithAddress
  <2>3. m \in Mails
    BY <1>4, <1>5, <2>1 DEF Mails, AllRequests, Registered
  <2> QED BY <1>5, <2>1, <2>2, <2>3, IdentityAssumption
<1>7. PICK c \in Codes : /\ mail[c] = None /\ mail' = [mail EXCEPT ![c] = m]
                         /\ valid' = valid \cup {c} /\ latest' = [latest EXCEPT ![q.user] = c]
  BY <1>2, <1>5 DEF Send
<1>8. /\ mail \in [Codes -> Mails \cup {None}] /\ valid \subseteq Codes
      /\ latest \in [Users -> Codes \cup {None}]
  BY DEF ProofInv, IdentityTypeOK
<1>9. /\ mail' \in [Codes -> Mails \cup {None}] /\ valid' \subseteq Codes
      /\ latest' \in [Users -> Codes \cup {None}]
  BY <1>4, <1>6, <1>7, <1>8 DEF Registered
<1>10. mail'[c] = m /\ \A d \in Codes : d # c => mail'[d] = mail[d]
  BY <1>7, <1>8
<1>11. \A u : (Registered(u) => Registered(u)') /\ (Sure(u) => Sure(u)')
  BY <1>1 DEF Registered, Exists, Sure, data
<1>12. Grows
  BY <1>1, <1>7, <1>10, <1>11 DEF Grows, data, Exists
<1>13. MailsRight'
  <2>1. q.key \in Keys => login[q.key] # None
    BY <1>2 DEF Knows, KnowsLogin
  <2>2. Registered(m.user)' /\ (m.key \in Keys => login'[m.key] # None)
    BY <1>1, <1>4, <1>6, <1>11, <2>1
  <2>3. ASSUME NEW d \in Codes
        PROVE  (mail[d] # None =>
                  /\ Registered(mail[d].user)
                  /\ mail[d].link = "changeMail" => mail[d].email \in Emails
                  /\ mail[d].key \in Keys => login[mail[d].key] # None)'
    <3>1. CASE d = c
      BY <1>6, <1>10, <2>2, <3>1
    <3>2. CASE d # c
      BY <1>1, <1>10, <1>11, <3>2 DEF ProofInv, MailsRight
    <3> QED BY <3>1, <3>2
  <2>4. ASSUME NEW d \in valid'
        PROVE  mail'[d] # None
    <3>1. d = c \/ (d \in valid /\ d \in Codes)
      BY <1>7, <1>8
    <3>2. d \in valid => mail[d] # None
      BY DEF ProofInv, MailsRight
    <3> QED BY <1>6, <1>10, <3>1, <3>2
  <2> QED BY <2>3, <2>4 DEF MailsRight
<1>14. AccountsRight' /\ BindingsRight'
  BY <1>1, <1>12, TablesKept DEF data
<1>15. /\ todo' \in [Handlers -> Seq(AllStatements)]
       /\ req' \in [Handlers -> AllRequests \cup {NoRequest}]
       /\ \A g \in Handlers : Working(g)'
  <2>1. rest = <<>>
    <3>1. rest # <<>> => Head(rest) \in AllStatements
      BY HeadTailProperties
    <3> QED BY <1>3, <3>1 DEF AllStatements
  <2>2. Proceed(h, rest, q)
    BY <1>2 DEF Send, GoOn
  <2> QED BY <1>12, <2>1, <2>2, WorkingKept
<1>16. IdentityTypeOK'
  BY <1>1, <1>9, <1>15 DEF ProofInv, IdentityTypeOK, data
<1> QED BY <1>13, <1>14, <1>15, <1>16 DEF ProofInv

LEMMA ReadCodeKept ==
  ASSUME ProofInv, NEW h \in Handlers, ReadCode(h)
  PROVE  ProofInv'
<1>1. UNCHANGED <<data, cache, received, alone, contested, lost>>
  BY DEF ReadCode
<1>2. PICK q \in AllRequests, rest \in Seq(AllStatements) :
        /\ q = req[h] /\ rest = Tail(todo[h]) /\ Knows(q, "readCode") /\ Path(q.op, rest)
        /\ <<q.op, "readCode", IF rest = <<>> THEN "end" ELSE Head(rest)>> \in Follows
  BY AtStep DEF ReadCode
<1>3. CASE Leave(h) /\ UNCHANGED vouched
  BY <1>1, <1>3, LeaveReads DEF ProofInv, IdentityTypeOK
<1>4. CASE q.code \in valid
  <2>1. PICK m : m = mail[q.code]
    OBVIOUS
  <2>2. q.op \in Opens /\ (rest # <<>> => Head(rest) = "burnCode")
    BY <1>2 DEF Follows
  <2>3. /\ m \in Mails /\ m # None /\ m.link = q.op /\ Registered(m.user)
        /\ m.link = "changeMail" => m.email \in Emails
        /\ m.key \in Keys => login[m.key] # None
        /\ q.code \in Codes
    BY <1>2, <2>1, <2>2 DEF Knows, KnowsCode, ProofInv, MailsRight, IdentityTypeOK
  <2>4. vouched' = vouched \cup ({m.email} \ {None})
    BY <1>2, <1>4, <2>1 DEF ReadCode
  <2>5. m.email \in Emails \cup {None}
    BY <2>3 DEF Mails
  <2>6. vouched' \subseteq Emails /\ vouched \subseteq vouched' /\ m.email \in vouched' \cup {None}
    BY <2>4, <2>5 DEF ProofInv, IdentityTypeOK
  <2>7. Grows
    BY <1>1, <2>6 DEF Grows, data, cache, Exists, Sure, Registered
  <2>8. PICK p : p = [q EXCEPT !.email = m.email, !.user = m.user, !.key = m.key]
    OBVIOUS
  <2>9. /\ p \in AllRequests /\ p.op = q.op /\ p.user = m.user /\ p.email = m.email
        /\ p.key = m.key /\ p.code = q.code
    BY <2>3, <2>8 DEF AllRequests, Mails
  <2>10. Proceed(h, rest, p)
    BY <1>2, <1>4, <2>1, <2>8 DEF ReadCode, GoOn
  <2>11. Knows(p, "burnCode")'
    <3>1. Registered(m.user)' /\ (m.key \in Keys => login'[m.key] # None)
      BY <1>1, <2>3 DEF Registered, Exists, data, cache
    <3>2. KnowsUser(p, "burnCode")'
      BY <2>2, <2>9 DEF KnowsUser, Changes, Mailing, OfUser, WithAddress, Opens
    <3>3. KnowsLogin(p, "burnCode")'
      BY <2>2, <2>9, <3>1 DEF KnowsLogin, Opens
    <3>4. KnowsCode(p, "burnCode")'
      BY <1>1, <2>1, <2>2, <2>3, <2>6, <2>9, <3>1 DEF KnowsCode, Opens, cache
    <3> QED BY <3>2, <3>3, <3>4 DEF Knows
  <2>12. /\ todo' \in [Handlers -> Seq(AllStatements)]
         /\ req' \in [Handlers -> AllRequests \cup {NoRequest}]
         /\ \A g \in Handlers : Working(g)'
    BY <1>2, <2>2, <2>7, <2>9, <2>10, <2>11, WorkingKept
  <2>13. AccountsRight' /\ BindingsRight' /\ MailsRight'
    BY <1>1, <2>7, TablesKept DEF data, cache
  <2>14. IdentityTypeOK'
    BY <1>1, <2>6, <2>12 DEF ProofInv, IdentityTypeOK, data, cache
  <2> QED BY <2>12, <2>13, <2>14 DEF ProofInv
<1> QED BY <1>2, <1>3, <1>4 DEF ReadCode

LEMMA BurnCodeKept ==
  ASSUME ProofInv, NEW h \in Handlers, BurnCode(h)
  PROVE  ProofInv'
<1>1. UNCHANGED <<data, mail, latest, login, received, alone, contested, lost, vouched>>
  BY DEF BurnCode, Unnoticed
<1>2. PICK q \in AllRequests, rest \in Seq(AllStatements) :
        /\ q = req[h] /\ rest = Tail(todo[h]) /\ Knows(q, "burnCode") /\ Path(q.op, rest)
        /\ <<q.op, "burnCode", IF rest = <<>> THEN "end" ELSE Head(rest)>> \in Follows
  BY AtStep DEF BurnCode
<1>3. Grows
  BY <1>1, NothingGrows DEF data
<1>4. q.op \in Opens /\ (rest # <<>> => Head(rest) = "compareCode")
  BY <1>2 DEF Follows
<1>5. Knows(q, "compareCode")'
  <2>1. Knows(q, "compareCode")
    BY <1>2, <1>4 DEF Knows, KnowsUser, KnowsLogin, KnowsCode, OfUser, Opens, Changes, Mailing,
         WithAddress
  <2> QED BY <1>3, <2>1, KnowsGrows
<1>6. /\ todo' \in [Handlers -> Seq(AllStatements)]
      /\ req' \in [Handlers -> AllRequests \cup {NoRequest}]
      /\ \A g \in Handlers : Working(g)'
  <2>1. Proceed(h, rest, q)
    BY <1>2 DEF BurnCode, GoOn
  <2> QED BY <1>2, <1>3, <1>4, <1>5, <2>1, WorkingKept
<1>7. valid' \subseteq valid
  BY DEF BurnCode
<1>8. MailsRight'
  BY <1>1, <1>7 DEF ProofInv, MailsRight, Registered, Exists, data
<1>9. AccountsRight' /\ BindingsRight'
  BY <1>1, <1>3, TablesKept DEF data
<1>10. IdentityTypeOK'
  BY <1>1, <1>6, <1>7 DEF ProofInv, IdentityTypeOK, data
<1> QED BY <1>6, <1>8, <1>9, <1>10 DEF ProofInv

LEMMA SaveLoginKept ==
  ASSUME ProofInv, NEW h \in Handlers, SaveLogin(h)
  PROVE  ProofInv'
<1>1. UNCHANGED <<data, mail, valid, latest, received, alone, contested, lost, vouched>>
  BY DEF SaveLogin, Unnoticed
<1>2. PICK q \in AllRequests, rest \in Seq(AllStatements) :
        /\ q = req[h] /\ rest = Tail(todo[h]) /\ Knows(q, "saveLogin") /\ Path(q.op, rest)
        /\ <<q.op, "saveLogin", IF rest = <<>> THEN "end" ELSE Head(rest)>> \in Follows
  BY AtStep DEF SaveLogin
<1>3. \/ q.op = "external" /\ (rest # <<>> => Head(rest) = "end")
      \/ q.op = "bindMail" /\ (rest # <<>> => Head(rest) = "send")
  BY <1>2 DEF Follows
<1>4. PICK l : l = [identity |-> q.identity, email |-> IF q.row = None THEN None ELSE q.email]
  OBVIOUS
<1>5. l \in Logins /\ l # None
  <2>1. q.identity \in Identities
    BY <1>2, <1>3 DEF Knows, KnowsLogin
  <2>2. l \in Logins
    BY <1>4, <2>1 DEF Logins, AllRequests
  <2> QED BY <2>2, IdentityAssumption
<1>6. PICK k \in Keys : login' = [login EXCEPT ![k] = l]
  BY <1>2, <1>4 DEF SaveLogin
<1>7. /\ login' \in [Keys -> Logins \cup {None}] /\ login'[k] = l
      /\ \A j \in Keys : j # k => login'[j] = login[j]
  BY <1>5, <1>6 DEF ProofInv, IdentityTypeOK
<1>8. Grows
  BY <1>1, <1>5, <1>7 DEF Grows, data, Exists, Sure, Registered
<1>9. rest # <<>> => Head(rest) = "send" /\ q.op = "bindMail"
  <2>1. rest # <<>> => Head(rest) \in AllStatements
    BY HeadTailProperties
  <2> QED BY <1>3, <2>1 DEF AllStatements
<1>10. rest # <<>> => Knows(q, Head(rest))'
  <2>1. rest # <<>> => Knows(q, Head(rest))
    BY <1>2, <1>9 DEF Knows, KnowsUser, KnowsLogin, KnowsCode, OfUser, Opens, Changes, Mailing,
         WithAddress
  <2> QED BY <1>8, <2>1, KnowsGrows
<1>11. /\ todo' \in [Handlers -> Seq(AllStatements)]
       /\ req' \in [Handlers -> AllRequests \cup {NoRequest}]
       /\ \A g \in Handlers : Working(g)'
  <2>1. Proceed(h, rest, q)
    BY <1>2 DEF SaveLogin, GoOn
  <2> QED BY <1>2, <1>8, <1>10, <2>1, WorkingKept
<1>12. AccountsRight' /\ BindingsRight' /\ MailsRight'
  BY <1>1, <1>8, TablesKept DEF data
<1>13. IdentityTypeOK'
  BY <1>1, <1>7, <1>11 DEF ProofInv, IdentityTypeOK, data
<1> QED BY <1>11, <1>12, <1>13 DEF ProofInv

-----------------------------------------------------------------------------
(* The steps that write the database *)

LEMMA StoredKept ==
  ASSUME ProofInv, NEW h \in Handlers, NEW x \in Emails \cup Identities, Stored(h, x)
  PROVE  alone' \in [Handlers -> BOOLEAN] /\ contested' \subseteq Emails \cup Identities
BY DEF Stored, ProofInv, IdentityTypeOK

\* A row of users is written and nothing else of the tables.
LEMMA WriteKept ==
  ASSUME ProofInv, NEW h \in Handlers, NEW q, NEW rest \in Seq(AllStatements),
         NEW u \in Users, NEW a \in AccountRows,
         account' = [account EXCEPT ![u] = a], UNCHANGED <<binding, inserted, cache, received>>,
         vouched' \subseteq Emails, vouched \subseteq vouched',
         lost' \subseteq Users, lost \subseteq lost',
         alone' \in [Handlers -> BOOLEAN], contested' \subseteq Emails \cup Identities,
         Exists(u) /\ account[u].pass => a.pass,
         Sure(u) \/ a.mail = "available" =>
           u \in lost' \/ a.status = "deleted" \/ a.email \in vouched',
         a.status # "deleted" => a.email \in Emails,
         Proceed(h, rest, q),
         Grows => (rest # <<>> => q \in AllRequests /\ Path(q.op, rest) /\ Knows(q, Head(rest))')
  PROVE  ProofInv'
<1>1. account' \in [Users -> AccountRows \cup {None}] /\ Grows /\ AccountsRight'
  BY AccountKept DEF cache
<1>2. /\ todo' \in [Handlers -> Seq(AllStatements)]
      /\ req' \in [Handlers -> AllRequests \cup {NoRequest}]
      /\ \A g \in Handlers : Working(g)'
  BY <1>1, WorkingKept
<1>3. BindingsRight' /\ MailsRight'
  BY <1>1, TablesKept DEF cache
<1>4. IdentityTypeOK'
  BY <1>1, <1>2 DEF ProofInv, IdentityTypeOK, cache
<1> QED BY <1>1, <1>2, <1>3, <1>4 DEF ProofInv

\* Nothing is left to do after a statement that only the end follows.
LEMMA EndsThere ==
  ASSUME NEW rest \in Seq(AllStatements), rest # <<>> => Head(rest) = "end"
  PROVE  rest = <<>>
<1>1. rest # <<>> => Head(rest) \in AllStatements
  BY HeadTailProperties
<1> QED BY <1>1 DEF AllStatements

LEMMA WritePasswordKept ==
  ASSUME ProofInv, NEW h \in Handlers, WritePassword(h)
  PROVE  ProofInv'
<1>1. UNCHANGED <<binding, inserted, cache, received, alone, contested, lost, vouched>>
  BY DEF WritePassword, Unnoticed
<1>2. PICK q \in AllRequests, rest \in Seq(AllStatements) :
        /\ q = req[h] /\ rest = Tail(todo[h]) /\ Knows(q, "writePassword") /\ Path(q.op, rest)
        /\ <<q.op, "writePassword", IF rest = <<>> THEN "end" ELSE Head(rest)>> \in Follows
  BY AtStep DEF WritePassword
<1>3. q.op \in {"setPassword", "reset"} /\ (rest # <<>> => Head(rest) = "end")
  BY <1>2 DEF Follows
<1>4. rest = <<>>
  BY <1>3, EndsThere
<1>5. Registered(q.user)
  BY <1>2, <1>3 DEF Knows, KnowsUser, KnowsCode, OfUser, Opens
<1>6. PICK u \in Users : u = q.user /\ Exists(u)
  BY <1>5 DEF Registered
<1>7. account \in [Users -> AccountRows \cup {None}] /\ account[u] \in AccountRows
  BY <1>6 DEF ProofInv, IdentityTypeOK, Exists
<1>8. PICK a : a = [account[u] EXCEPT !.pass = TRUE]
  OBVIOUS
<1>9. /\ a \in AccountRows /\ a.status = account[u].status /\ a.email = account[u].email
      /\ a.mail = account[u].mail /\ a.pass
  BY <1>7, <1>8 DEF AccountRows
<1>10. account' = [account EXCEPT ![u] = a]
  BY <1>2, <1>6, <1>7, <1>8 DEF WritePassword
<1>11. Sure(u) \/ a.mail = "available" =>
         u \in lost' \/ a.status = "deleted" \/ a.email \in vouched'
  BY <1>1, <1>6, <1>9 DEF ProofInv, AccountsRight, Sure
<1>12. a.status # "deleted" => a.email \in Emails
  BY <1>6, <1>9 DEF ProofInv, AccountsRight
<1>13. Proceed(h, rest, q)
  BY <1>2 DEF WritePassword, GoOn
<1>14. /\ vouched' \subseteq Emails /\ vouched \subseteq vouched'
       /\ lost' \subseteq Users /\ lost \subseteq lost'
       /\ alone' \in [Handlers -> BOOLEAN] /\ contested' \subseteq Emails \cup Identities
  BY <1>1 DEF ProofInv, IdentityTypeOK
<1> QED BY <1>1, <1>4, <1>9, <1>10, <1>11, <1>12, <1>13, <1>14, WriteKept

LEMMA WriteProfileKept ==
  ASSUME ProofInv, NEW h \in Handlers, WriteProfile(h)
  PROVE  ProofInv'
<1>1. UNCHANGED <<binding, inserted, cache, received, lost>>
  BY DEF WriteProfile
<1>2. PICK q \in AllRequests, rest \in Seq(AllStatements) :
        /\ q = req[h] /\ rest = Tail(todo[h]) /\ Knows(q, "writeProfile") /\ Path(q.op, rest)
        /\ <<q.op, "writeProfile", IF rest = <<>> THEN "end" ELSE Head(rest)>> \in Follows
  BY AtStep DEF WriteProfile
<1>3. q.op = "editProfile" /\ (rest # <<>> => Head(rest) = "end")
  BY <1>2 DEF Follows
<1>4. rest = <<>>
  BY <1>3, EndsThere
<1>5. Registered(q.user) /\ q.email \in Emails
  BY <1>2, <1>3 DEF Knows, KnowsUser, OfUser, WithAddress
<1>6. PICK u \in Users : u = q.user /\ Exists(u)
  BY <1>5 DEF Registered
<1>7. account \in [Users -> AccountRows \cup {None}] /\ account[u] \in AccountRows
  BY <1>6 DEF ProofInv, IdentityTypeOK, Exists
<1>8. PICK a : a = [account[u] EXCEPT !.email = q.email, !.mail = "available"]
  OBVIOUS
<1>9. a \in AccountRows /\ a.email = q.email /\ a.pass = account[u].pass
  BY <1>5, <1>7, <1>8 DEF AccountRows
<1>10. account' = [account EXCEPT ![u] = a]
  BY <1>2, <1>6, <1>7, <1>8 DEF WriteProfile
<1>11. vouched' = vouched \cup {q.email} /\ Stored(h, q.email)
  BY <1>2 DEF WriteProfile
<1>12. /\ vouched' \subseteq Emails /\ vouched \subseteq vouched'
       /\ lost' \subseteq Users /\ lost \subseteq lost'
  BY <1>1, <1>5, <1>11 DEF ProofInv, IdentityTypeOK
<1>13. alone' \in [Handlers -> BOOLEAN] /\ contested' \subseteq Emails \cup Identities
  BY <1>5, <1>11, StoredKept
<1>14. Proceed(h, rest, q)
  BY <1>2 DEF WriteProfile, GoOn
<1>15. a.email \in vouched' /\ a.email \in Emails
  BY <1>5, <1>9, <1>11
<1> QED BY <1>1, <1>4, <1>9, <1>10, <1>12, <1>13, <1>14, <1>15, WriteKept

LEMMA WriteMailKept ==
  ASSUME ProofInv, NEW h \in Handlers, WriteMail(h)
  PROVE  ProofInv'
<1>1. UNCHANGED <<binding, inserted, cache, received, lost, vouched>>
  BY DEF WriteMail
<1>2. PICK q \in AllRequests, rest \in Seq(AllStatements) :
        /\ q = req[h] /\ rest = Tail(todo[h]) /\ Knows(q, "writeMail") /\ Path(q.op, rest)
        /\ <<q.op, "writeMail", IF rest = <<>> THEN "end" ELSE Head(rest)>> \in Follows
  BY AtStep DEF WriteMail
<1>3. q.op = "changeMail" /\ (rest # <<>> => Head(rest) = "confirm")
  BY <1>2 DEF Follows
<1>5. Registered(q.user) /\ q.email \in Emails /\ q.email \in vouched
  <2>1. /\ Registered(q.user) /\ q.email \in Emails /\ q.email \in vouched \cup {None}
    BY <1>2, <1>3 DEF Knows, KnowsCode, Opens
  <2> QED BY <2>1, IdentityAssumption
<1>6. PICK u \in Users : u = q.user /\ Exists(u)
  BY <1>5 DEF Registered
<1>7. account \in [Users -> AccountRows \cup {None}] /\ account[u] \in AccountRows
  BY <1>6 DEF ProofInv, IdentityTypeOK, Exists
<1>8. PICK a : a = [account[u] EXCEPT !.email = q.email]
  OBVIOUS
<1>9. a \in AccountRows /\ a.email = q.email /\ a.pass = account[u].pass
  BY <1>5, <1>7, <1>8 DEF AccountRows
<1>10. account' = [account EXCEPT ![u] = a]
  BY <1>2, <1>6, <1>7, <1>8 DEF WriteMail
<1>11. Stored(h, q.email)
  BY <1>2 DEF WriteMail
<1>12. /\ vouched' \subseteq Emails /\ vouched \subseteq vouched'
       /\ lost' \subseteq Users /\ lost \subseteq lost'
  BY <1>1 DEF ProofInv, IdentityTypeOK
<1>13. alone' \in [Handlers -> BOOLEAN] /\ contested' \subseteq Emails \cup Identities
  BY <1>5, <1>11, StoredKept
<1>14. Proceed(h, rest, q)
  BY <1>2 DEF WriteMail, GoOn
<1>15. a.email \in vouched' /\ a.email \in Emails
  BY <1>1, <1>5, <1>9
<1>16. Sure(u)'
  BY <1>6, <1>7, <1>9, <1>10, <1>15, IdentityAssumption DEF Sure, Registered, Exists
<1>17. Grows => (rest # <<>> => q \in AllRequests /\ Path(q.op, rest) /\ Knows(q, Head(rest))')
  <2> SUFFICES ASSUME Grows PROVE rest # <<>> => Knows(q, Head(rest))'
    BY <1>2
  <2>1. Knows(q, "writeMail")'
    BY <1>2, KnowsGrows
  <2>2. Knows(q, "confirm")'
    BY <1>3, <1>6, <1>16, <2>1 DEF Knows, KnowsUser, KnowsLogin, KnowsCode, OfUser, Opens,
         Changes, Mailing, WithAddress
  <2> QED BY <1>3, <2>2
<1> QED BY <1>1, <1>2, <1>9, <1>10, <1>12, <1>13, <1>14, <1>15, <1>17, WriteKept

LEMMA ConfirmKept ==
  ASSUME ProofInv, NEW h \in Handlers, Confirm(h)
  PROVE  ProofInv'
<1>1. UNCHANGED <<binding, inserted, cache, received, alone, contested, lost, vouched>>
  BY DEF Confirm, Unnoticed
<1>2. PICK q \in AllRequests, next \in Seq(AllStatements) :
        /\ q = req[h] /\ next = Tail(todo[h]) /\ Knows(q, "confirm") /\ Path(q.op, next)
        /\ <<q.op, "confirm", IF next = <<>> THEN "end" ELSE Head(next)>> \in Follows
  BY AtStep DEF Confirm
<1>3. \/ q.op \in {"external", "changeMail"} /\ (next # <<>> => Head(next) = "end")
      \/ q.op = "verify" /\ (next # <<>> => Head(next) = "readLogin")
  BY <1>2 DEF Follows
<1>4. PICK rest : rest = IF q.key = None THEN <<>> ELSE next
  OBVIOUS
<1>5. rest \in Seq(AllStatements)
  BY <1>4
<1>6. rest # <<>> => rest = next /\ q.op = "verify" /\ Head(rest) = "readLogin" /\ q.key \in Keys
  BY <1>2, <1>3, <1>4, EndsThere DEF AllRequests
<1>7. Sure(q.user)
  BY <1>2, <1>3 DEF Knows, KnowsLogin, KnowsCode, Opens
<1>8. PICK u \in Users : u = q.user /\ Exists(u)
  BY <1>7 DEF Sure, Registered
<1>9. account \in [Users -> AccountRows \cup {None}] /\ account[u] \in AccountRows
  BY <1>8 DEF ProofInv, IdentityTypeOK, Exists
<1>10. PICK m : m = IF q.op = "changeMail" \/ q.row.mail = "toBeVerified" THEN "available"
                   ELSE account[u].mail
  OBVIOUS
<1>11. PICK a : a = [account[u] EXCEPT !.mail = m]
  OBVIOUS
<1>12. /\ a \in AccountRows /\ a.status = account[u].status /\ a.email = account[u].email
       /\ a.pass = account[u].pass
  BY <1>9, <1>10, <1>11 DEF AccountRows
<1>13. account' = [account EXCEPT ![u] = a]
  <2>1. CASE q.op = "changeMail" \/ q.row.mail = "toBeVerified"
    <3>1. account' = [account EXCEPT ![u].mail = "available"] /\ m = "available"
      BY <1>2, <1>8, <1>10, <2>1 DEF Confirm
    <3> QED BY <1>9, <1>11, <3>1
  <2>2. CASE ~(q.op = "changeMail" \/ q.row.mail = "toBeVerified")
    <3>1. account' = account /\ m = account[u].mail
      BY <1>2, <1>10, <2>2 DEF Confirm
    <3>2. a = account[u]
      BY <1>9, <1>11, <3>1 DEF AccountRows
    <3> QED BY <1>9, <3>1, <3>2
  <2> QED BY <2>1, <2>2
<1>14. u \in lost' \/ a.status = "deleted" \/ a.email \in vouched'
  BY <1>1, <1>7, <1>8, <1>12 DEF Sure
<1>15. a.status # "deleted" => a.email \in Emails
  BY <1>8, <1>12 DEF ProofInv, AccountsRight
<1>16. Proceed(h, rest, q)
  BY <1>2, <1>4 DEF Confirm
<1>17. Grows => (rest # <<>> => q \in AllRequests /\ Path(q.op, rest) /\ Knows(q, Head(rest))')
  <2> SUFFICES ASSUME Grows, rest # <<>> PROVE Knows(q, "readLogin")'
    BY <1>2, <1>6
  <2>1. Knows(q, "confirm")'
    BY <1>2, KnowsGrows
  <2> QED BY <1>6, <2>1 DEF Knows, KnowsUser, KnowsLogin, KnowsCode, OfUser, Opens,
            Changes, Mailing, WithAddress
<1>18. /\ vouched' \subseteq Emails /\ vouched \subseteq vouched'
       /\ lost' \subseteq Users /\ lost \subseteq lost'
       /\ alone' \in [Handlers -> BOOLEAN] /\ contested' \subseteq Emails \cup Identities
  BY <1>1 DEF ProofInv, IdentityTypeOK
<1> QED BY <1>1, <1>5, <1>12, <1>13, <1>14, <1>15, <1>16, <1>17, <1>18, WriteKept

LEMMA InsertKept ==
  ASSUME ProofInv, NEW h \in Handlers, Insert(h)
  PROVE  ProofInv'
<1>1. UNCHANGED <<binding, inserted, cache, received, lost>>
  BY DEF Insert
<1>2. PICK q \in AllRequests, rest \in Seq(AllStatements) :
        /\ q = req[h] /\ rest = Tail(todo[h]) /\ Knows(q, "insert") /\ Path(q.op, rest)
        /\ <<q.op, "insert", IF rest = <<>> THEN "end" ELSE Head(rest)>> \in Follows
  BY AtStep DEF Insert
<1>3. \/ q.op = "register" /\ (rest # <<>> => Head(rest) = "send")
      \/ q.op = "addUser" /\ (rest # <<>> => Head(rest) = "end")
      \/ q.op = "external" /\ (rest # <<>> => Head(rest) = "lookBinding")
      \/ q.op = "bindMail" /\ (rest # <<>> => Head(rest) = "saveLogin")
  BY <1>2 DEF Follows, Opens, Changes
<1>4. q.email \in Emails /\ (q.op = "external" => q.email \in vouched)
  BY <1>2, <1>3 DEF Knows, KnowsUser, KnowsLogin, WithAddress
<1>5. PICK a : a = [NewUser(q.op) EXCEPT !.email = q.email]
  OBVIOUS
<1>6. /\ a \in AccountRows /\ a.email = q.email
      /\ a.mail = IF q.op = "addUser" THEN "available" ELSE "toBeVerified"
  <2>1. PICK n : n = NewUser(q.op)
    OBVIOUS
  <2>2. n.mail = IF q.op = "addUser" THEN "available" ELSE "toBeVerified"
    BY <2>1 DEF NewUser
  <2>3. n \in AccountRows
    BY <2>1 DEF NewUser, AccountRows
  <2> QED BY <1>4, <1>5, <2>1, <2>2, <2>3 DEF AccountRows
<1>7. PICK u \in Users : /\ ~Exists(u) /\ account' = [account EXCEPT ![u] = a]
                         /\ GoOn(h, [q EXCEPT !.user = u, !.row = a])
  BY <1>2, <1>5 DEF Insert
<1>8. vouched' = IF q.op = "addUser" THEN vouched \cup {q.email} ELSE vouched
  BY <1>2 DEF Insert
<1>9. /\ vouched' \subseteq Emails /\ vouched \subseteq vouched'
      /\ lost' \subseteq Users /\ lost \subseteq lost'
  BY <1>1, <1>4, <1>8 DEF ProofInv, IdentityTypeOK
<1>10. alone' \in [Handlers -> BOOLEAN] /\ contested' \subseteq Emails \cup Identities
  <2>1. Stored(h, q.email)
    BY <1>2 DEF Insert
  <2> QED BY <1>4, <2>1, StoredKept
<1>11. PICK p : p = [q EXCEPT !.user = u, !.row = a]
  OBVIOUS
<1>12. /\ p \in AllRequests /\ p.op = q.op /\ p.user = u /\ p.email = q.email
       /\ p.key = q.key /\ p.identity = q.identity /\ p.code = q.code /\ p.row = a
  BY <1>6, <1>11 DEF AllRequests
<1>13. Proceed(h, rest, p)
  BY <1>2, <1>7, <1>11 DEF GoOn
<1>14. ~Sure(u) /\ (a.mail = "available" => a.email \in vouched')
  BY <1>6, <1>7, <1>8 DEF Sure, Registered
<1>15. Registered(u)' /\ (q.op = "external" => Sure(u)')
  <2>1. account' \in [Users -> AccountRows \cup {None}] /\ account'[u] = a
    BY <1>6, <1>7 DEF ProofInv, IdentityTypeOK
  <2>2. Registered(u)'
    BY <1>6, <2>1, IdentityAssumption DEF Registered, Exists
  <2>3. q.op = "external" => a.email \in vouched'
    BY <1>4, <1>6, <1>9
  <2> QED BY <2>1, <2>2, <2>3 DEF Sure
<1>16. Grows => (rest # <<>> => p \in AllRequests /\ Path(p.op, rest) /\ Knows(p, Head(rest))')
  <2> SUFFICES ASSUME Grows, rest # <<>> PROVE Knows(p, Head(rest))'
    BY <1>2, <1>12
  <2>1. Knows(q, "insert")'
    BY <1>2, KnowsGrows
  <2>2. \/ q.op = "register" /\ Head(rest) = "send"
        \/ q.op = "external" /\ Head(rest) = "lookBinding"
        \/ q.op = "bindMail" /\ Head(rest) = "saveLogin"
    BY <1>3, EndsThere
  <2>3. KnowsUser(p, Head(rest))'
    BY <1>4, <1>12, <1>15, <2>2 DEF KnowsUser, OfUser, Changes, Mailing, WithAddress
  <2>4. KnowsLogin(p, Head(rest))'
    BY <1>6, <1>12, <1>15, <2>1, <2>2 DEF Knows, KnowsLogin
  <2>5. KnowsCode(p, Head(rest))'
    BY <1>12, <2>2 DEF KnowsCode, Opens
  <2> QED BY <2>3, <2>4, <2>5 DEF Knows
<1> QED BY <1>1, <1>4, <1>6, <1>7, <1>9, <1>10, <1>13, <1>14, <1>16, WriteKept

LEMMA WriteStatusKept ==
  ASSUME ProofInv, NEW h \in Handlers, WriteStatus(h)
  PROVE  ProofInv'
<1>1. UNCHANGED <<binding, inserted, cache, received, alone>>
  BY DEF WriteStatus
<1>2. PICK q \in AllRequests, rest \in Seq(AllStatements) :
        /\ q = req[h] /\ rest = Tail(todo[h]) /\ Knows(q, "writeStatus") /\ Path(q.op, rest)
        /\ <<q.op, "writeStatus", IF rest = <<>> THEN "end" ELSE Head(rest)>> \in Follows
  BY AtStep DEF WriteStatus
<1>3. q.op \in Changes /\ (rest # <<>> => Head(rest) = "end")
  BY <1>2 DEF Follows
<1>4. rest = <<>>
  BY <1>3, EndsThere
<1>5. /\ Registered(q.user) /\ q.row \in AccountRows /\ q.row.status # "deleted"
      /\ q.row.email \in Emails
  BY <1>2, <1>3 DEF Knows, KnowsUser, OfUser
<1>6. PICK u \in Users : u = q.user /\ Exists(u)
  BY <1>5 DEF Registered
<1>7. account \in [Users -> AccountRows \cup {None}] /\ account[u] \in AccountRows
  BY <1>6 DEF ProofInv, IdentityTypeOK, Exists
<1>8. PICK now, b : now = account[u] /\ b = Changed(q.op, q.row)
  OBVIOUS
<1>9. PICK a : a = [b EXCEPT !.pass = now.pass]
  OBVIOUS
<1>10. /\ b \in AccountRows
       /\ q.op = "suspend" => b.email = q.row.email /\ b.mail = q.row.mail
       /\ q.op = "delete" => b.status = "deleted"
       /\ q.op = "deactivate" => b.email = q.row.email /\ b.mail = "toBeVerified"
       /\ q.op = "restore" => b.email = q.row.email
       /\ b.status # "deleted" => b.email = q.row.email
  BY <1>3, <1>5, <1>8 DEF Changed, Changes, AccountRows
<1>11. /\ a \in AccountRows /\ a.status = b.status /\ a.email = b.email /\ a.mail = b.mail
       /\ a.pass = account[u].pass
  BY <1>7, <1>8, <1>9, <1>10 DEF AccountRows
<1>12. account' = [account EXCEPT ![u] = a]
  BY <1>2, <1>6, <1>8, <1>9 DEF WriteStatus
<1>13. PICK stale \in BOOLEAN : stale = ([q.row EXCEPT !.pass = now.pass] # now)
  OBVIOUS
<1>14. /\ lost' = IF stale THEN lost \cup {u} ELSE lost
       /\ contested' = IF stale THEN contested \cup ({a.email} \ {None}) ELSE contested
       /\ vouched' = IF q.op = "restore" THEN vouched \cup ({a.email} \ {None}) ELSE vouched
  BY <1>2, <1>6, <1>8, <1>9, <1>13 DEF WriteStatus
<1>15. a.email \in Emails \cup {None} /\ (a.status # "deleted" => a.email \in Emails)
  BY <1>5, <1>10, <1>11 DEF AccountRows
<1>16. /\ vouched' \subseteq Emails /\ vouched \subseteq vouched'
       /\ lost' \subseteq Users /\ lost \subseteq lost'
       /\ alone' \in [Handlers -> BOOLEAN] /\ contested' \subseteq Emails \cup Identities
  BY <1>1, <1>14, <1>15 DEF ProofInv, IdentityTypeOK
<1>17. Sure(u) \/ a.mail = "available" =>
         u \in lost' \/ a.status = "deleted" \/ a.email \in vouched'
  <2>1. CASE stale
    BY <1>14, <2>1
  <2>2. CASE ~stale
    <3>1. q.row.status = now.status /\ q.row.email = now.email /\ q.row.mail = now.mail
      <4>1. [q.row EXCEPT !.pass = now.pass] = now
        BY <1>13, <2>2
      <4>2. /\ [q.row EXCEPT !.pass = now.pass].status = q.row.status
            /\ [q.row EXCEPT !.pass = now.pass].email = q.row.email
            /\ [q.row EXCEPT !.pass = now.pass].mail = q.row.mail
        BY <1>5 DEF AccountRows
      <4> QED BY <4>1, <4>2
    <3>2. now.mail = "available" => Sure(u)
      BY <1>6, <1>8 DEF ProofInv, AccountsRight
    <3>3. Sure(u) => u \in lost \/ now.email \in vouched
      BY <1>5, <1>8, <3>1 DEF Sure
    <3>4. q.op = "restore" => a.email \in vouched'
      BY <1>5, <1>10, <1>11, <1>14, IdentityAssumption
    <3>5. CASE q.op = "suspend"
      BY <1>10, <1>11, <1>16, <3>1, <3>2, <3>3, <3>5
    <3>6. CASE q.op = "deactivate"
      BY <1>10, <1>11, <1>16, <3>1, <3>2, <3>3, <3>6
    <3> QED BY <1>3, <1>10, <1>11, <3>4, <3>5, <3>6 DEF Changes
  <2> QED BY <2>1, <2>2
<1>18. Proceed(h, rest, q)
  BY <1>2 DEF WriteStatus, GoOn
<1> QED BY <1>1, <1>4, <1>11, <1>12, <1>15, <1>16, <1>17, <1>18, WriteKept

LEMMA BindKept ==
  ASSUME ProofInv, NEW h \in Handlers, Bind(h)
  PROVE  ProofInv'
<1>1. UNCHANGED <<account, cache, received, lost, vouched>>
  BY DEF Bind
<1>2. PICK q \in AllRequests, rest \in Seq(AllStatements) :
        /\ q = req[h] /\ rest = Tail(todo[h]) /\ Knows(q, "bind") /\ Path(q.op, rest)
        /\ <<q.op, "bind", IF rest = <<>> THEN "end" ELSE Head(rest)>> \in Follows
  BY AtStep DEF Bind
<1>3. \/ q.op = "external" /\ (rest # <<>> => Head(rest) = "confirm")
      \/ q.op = "verify" /\ (rest # <<>> => Head(rest) = "end")
  BY <1>2 DEF Follows
<1>4. Sure(q.user) /\ q.user \in Users /\ q.identity \in Identities
  BY <1>2, <1>3 DEF Knows, KnowsLogin, KnowsCode, Opens, Sure, Registered
<1>5. Grows
  BY <1>1, NothingGrows DEF cache
<1>6. PICK b : b = [identity |-> q.identity, user |-> q.user]
  OBVIOUS
<1>7. b \in BindingRows /\ b.user = q.user
  BY <1>4, <1>6 DEF BindingRows
<1>8. binding \in [Rows -> BindingRows \cup {None}] /\ inserted \in 0..MaxBindings
  BY DEF ProofInv, IdentityTypeOK
<1>9. /\ binding' \in [Rows -> BindingRows \cup {None}] /\ inserted' \in 0..MaxBindings
      /\ alone' \in [Handlers -> BOOLEAN] /\ contested' \subseteq Emails \cup Identities
      /\ \A r \in Rows : binding'[r] # None => Sure(binding'[r].user)
  <2>1. CASE q.bound = None
    <3>1. /\ inserted < MaxBindings /\ inserted' = inserted + 1
          /\ binding' = [binding EXCEPT ![inserted + 1] = b] /\ Stored(h, q.identity)
      BY <1>2, <1>6, <2>1 DEF Bind
    <3>2. inserted + 1 \in Rows /\ inserted' \in 0..MaxBindings
      BY <1>8, <3>1, IdentityAssumption DEF Rows
    <3>3. PICK r0 \in Rows : r0 = inserted + 1
      BY <3>2
    <3>4. /\ binding' \in [Rows -> BindingRows \cup {None}]
          /\ binding'[r0] = b /\ \A r \in Rows : r # r0 => binding'[r] = binding[r]
      BY <1>7, <1>8, <3>1, <3>3
    <3>5. \A r \in Rows : binding'[r] # None => Sure(binding'[r].user)
      BY <1>4, <1>7, <3>4 DEF ProofInv, BindingsRight
    <3> QED BY <1>4, <3>1, <3>2, <3>4, <3>5, StoredKept
  <2>2. CASE q.bound # None
    <3>1. /\ binding' = IF binding[q.bound] = None THEN binding
                        ELSE [binding EXCEPT ![q.bound].user = q.user]
          /\ UNCHANGED <<inserted, alone, contested>>
      BY <1>2, <2>2 DEF Bind
    <3>2. PICK r0 \in Rows : r0 = q.bound
      BY <2>2 DEF AllRequests
    <3>3. CASE binding[r0] = None
      BY <1>8, <3>1, <3>2, <3>3 DEF ProofInv, BindingsRight, IdentityTypeOK
    <3>4. CASE binding[r0] # None
      <4>1. PICK c : c = [binding[r0] EXCEPT !.user = q.user]
        OBVIOUS
      <4>2. c \in BindingRows /\ c.user = q.user
        BY <1>4, <1>8, <3>4, <4>1 DEF BindingRows
      <4>3. binding' = [binding EXCEPT ![r0] = c]
        BY <1>8, <3>1, <3>2, <3>4, <4>1
      <4>4. /\ binding' \in [Rows -> BindingRows \cup {None}]
            /\ binding'[r0] = c /\ \A r \in Rows : r # r0 => binding'[r] = binding[r]
        BY <1>8, <4>2, <4>3
      <4>5. \A r \in Rows : binding'[r] # None => Sure(binding'[r].user)
        BY <1>4, <4>2, <4>4 DEF ProofInv, BindingsRight
      <4> QED BY <3>1, <4>4, <4>5 DEF ProofInv, IdentityTypeOK
    <3> QED BY <3>3, <3>4
  <2> QED BY <2>1, <2>2
<1>10. BindingsRight'
  <2>1. \A u : Sure(u) => Sure(u)'
    BY <1>5 DEF Grows, Sure, Registered
  <2> QED BY <1>9, <2>1 DEF BindingsRight
<1>11. rest # <<>> => Knows(q, Head(rest))'
  <2>1. rest # <<>> => q.op = "external" /\ Head(rest) = "confirm"
    BY <1>3, EndsThere
  <2>2. rest # <<>> => Knows(q, Head(rest))
    BY <1>2, <2>1 DEF Knows, KnowsUser, KnowsLogin, KnowsCode, OfUser, Opens, Changes, Mailing,
         WithAddress
  <2> QED BY <1>5, <2>2, KnowsGrows
<1>12. /\ todo' \in [Handlers -> Seq(AllStatements)]
       /\ req' \in [Handlers -> AllRequests \cup {NoRequest}]
       /\ \A g \in Handlers : Working(g)'
  <2>1. Proceed(h, rest, q)
    BY <1>2 DEF Bind, GoOn
  <2> QED BY <1>2, <1>5, <1>11, <2>1, WorkingKept
<1>13. AccountsRight' /\ MailsRight'
  BY <1>1, <1>5, TablesKept DEF cache
<1>14. IdentityTypeOK'
  BY <1>1, <1>9, <1>12 DEF ProofInv, IdentityTypeOK, cache
<1> QED BY <1>10, <1>12, <1>13, <1>14 DEF ProofInv

LEMMA UnbindKept ==
  ASSUME ProofInv, NEW h \in Handlers, Unbind(h)
  PROVE  ProofInv'
<1>1. UNCHANGED <<account, inserted, cache, received, alone, contested, lost, vouched>>
  BY DEF Unbind, Unnoticed
<1>2. PICK q \in AllRequests, rest \in Seq(AllStatements) :
        /\ q = req[h] /\ rest = Tail(todo[h]) /\ Knows(q, "unbind") /\ Path(q.op, rest)
        /\ <<q.op, "unbind", IF rest = <<>> THEN "end" ELSE Head(rest)>> \in Follows
  BY AtStep DEF Unbind
<1>3. rest # <<>> => Head(rest) = "end"
  BY <1>2 DEF Follows
<1>4. rest = <<>>
  BY <1>3, EndsThere
<1>5. Grows
  BY <1>1, NothingGrows DEF cache
<1>6. \A r \in Rows : binding'[r] = None \/ binding'[r] = binding[r]
  BY DEF Unbind
<1>7. binding' \in [Rows -> BindingRows \cup {None}]
  <2>1. \A r \in Rows : binding'[r] \in BindingRows \cup {None}
    BY <1>6 DEF ProofInv, IdentityTypeOK
  <2>2. binding' = [r \in Rows |-> binding'[r]]
    BY DEF Unbind
  <2> QED BY <2>1, <2>2
<1>8. BindingsRight'
  <2>1. \A u : Sure(u) => Sure(u)'
    BY <1>5 DEF Grows, Sure, Registered
  <2> QED BY <1>6, <2>1 DEF ProofInv, BindingsRight
<1>9. /\ todo' \in [Handlers -> Seq(AllStatements)]
      /\ req' \in [Handlers -> AllRequests \cup {NoRequest}]
      /\ \A g \in Handlers : Working(g)'
  <2>1. Proceed(h, rest, q)
    BY <1>2 DEF Unbind, GoOn
  <2> QED BY <1>4, <1>5, <2>1, WorkingKept
<1>10. AccountsRight' /\ MailsRight'
  BY <1>1, <1>5, TablesKept DEF cache
<1>11. IdentityTypeOK'
  BY <1>1, <1>7, <1>9 DEF ProofInv, IdentityTypeOK, cache
<1> QED BY <1>8, <1>9, <1>10, <1>11 DEF ProofInv

-----------------------------------------------------------------------------
(* The requests that arrive *)

\* What is known of a request that arrives.
Arrives(op, q) ==
  /\ q \in AllRequests /\ q.op = op
  /\ q.key \in Keys => login[q.key] # None
  /\ op \in OfUser => Registered(q.user)
  /\ op \in WithAddress => q.email \in Emails
  /\ op = "bindMail" => q.key \in Keys
  /\ op = "external" => q.identity \in Identities
  /\ op \in Opens => q.code \in Codes /\ mail[q.code] # None /\ mail[q.code].link = op

LEMMA RequestKnown ==
  ASSUME ProofInv, NEW op \in AllOperations
  PROVE  \A q \in Requests(op) : Arrives(op, q)
<1> DEFINE Bare == [Blank EXCEPT !.op = op]
<1>1. Bare \in AllRequests /\ Bare.op = op /\ Bare.key = None
  BY DEF Blank, AllRequests
<1>2. None \notin Keys
  BY IdentityAssumption DEF Keys
<1>3. CASE op \in {"register", "addUser", "askReset"}
  <2> DEFINE F(e) == [Bare EXCEPT !.email = e]
  <2>1. Requests(op) = {F(e) : e \in Emails}
    <3>1. CASE op = "register"
      BY <3>1 DEF Requests, Opens, Changes
    <3>2. CASE op = "addUser"
      BY <3>2 DEF Requests, Opens, Changes
    <3>3. CASE op = "askReset"
      BY <3>3 DEF Requests, Opens, Changes
    <3> QED BY <1>3, <3>1, <3>2, <3>3
  <2> HIDE DEF F, Bare
  <2> SUFFICES ASSUME NEW q \in Requests(op) PROVE Arrives(op, q)
    OBVIOUS
  <2>2. PICK e \in Emails : q = F(e)
    BY <2>1, SMT
  <2>4. q \in AllRequests /\ q.op = op /\ q.key = None /\ q.email = e
    BY <1>1, <2>2 DEF F, AllRequests
  <2> QED BY <1>2, <1>3, <1>1, <2>2, <2>4
         DEF Arrives, OfUser, WithAddress, Changes, Opens, Registered
<1>4. CASE op \in Changes \cup {"setPassword", "askVerify"}
  <2> DEFINE F(u) == [Bare EXCEPT !.user = u]
             K == {v \in Users : Exists(v)}
  <2>1. Requests(op) = {F(u) : u \in K}
    <3>1. CASE op = "suspend"
      BY <3>1 DEF Requests, Opens, Changes
    <3>2. CASE op = "delete"
      BY <3>2 DEF Requests, Opens, Changes
    <3>3. CASE op = "deactivate"
      BY <3>3 DEF Requests, Opens, Changes
    <3>4. CASE op = "restore"
      BY <3>4 DEF Requests, Opens, Changes
    <3>5. CASE op = "setPassword"
      BY <3>5 DEF Requests, Opens, Changes
    <3>6. CASE op = "askVerify"
      BY <3>6 DEF Requests, Opens, Changes
    <3> QED BY <1>4, <3>1, <3>2, <3>3, <3>4, <3>5, <3>6 DEF Changes
  <2> HIDE DEF F, K, Bare
  <2> SUFFICES ASSUME NEW q \in Requests(op) PROVE Arrives(op, q)
    OBVIOUS
  <2>2. PICK u \in K : q = F(u)
    BY <2>1, SMT
  <2>3. u \in Users /\ Exists(u)
    BY DEF K
  <2>4. q \in AllRequests /\ q.op = op /\ q.key = None /\ q.user = u
    BY <1>1, <2>2, <2>3 DEF F, AllRequests
  <2> QED BY <1>2, <1>4, <1>1, <2>2, <2>3, <2>4
         DEF Arrives, OfUser, WithAddress, Changes, Opens, Registered
<1>5. CASE op = "editProfile"
  <2> DEFINE F(u, e) == [Bare EXCEPT !.user = u, !.email = e]
             K == {v \in Users : Exists(v)}
  <2>1. Requests(op) = {F(u, e) : u \in K, e \in Emails}
    BY <1>5 DEF Requests, Opens, Changes
  <2> HIDE DEF F, K, Bare
  <2> SUFFICES ASSUME NEW q \in Requests(op) PROVE Arrives(op, q)
    OBVIOUS
  <2>2. PICK u \in K, e \in Emails : q = F(u, e)
    BY <2>1, SMT
  <2>3. u \in Users /\ Exists(u)
    BY DEF K
  <2>4. q \in AllRequests /\ q.op = op /\ q.key = None /\ q.user = u /\ q.email = e
    BY <1>1, <2>2, <2>3 DEF F, AllRequests
  <2> QED BY <1>2, <1>5, <1>1, <2>2, <2>3, <2>4
         DEF Arrives, OfUser, WithAddress, Changes, Opens, Registered
<1>6. CASE op = "askChange"
  <2> DEFINE F(u, e) == [Bare EXCEPT !.user = u, !.email = e]
             K == {v \in Users : Live(v)}
  <2>1. Requests(op) = {F(u, e) : u \in K, e \in Emails}
    BY <1>6 DEF Requests, Opens, Changes
  <2> HIDE DEF F, K, Bare
  <2> SUFFICES ASSUME NEW q \in Requests(op) PROVE Arrives(op, q)
    OBVIOUS
  <2>2. PICK u \in K, e \in Emails : q = F(u, e)
    BY <2>1, SMT
  <2>3. u \in Users /\ Exists(u)
    BY DEF K, Live
  <2>4. q \in AllRequests /\ q.op = op /\ q.key = None /\ q.user = u /\ q.email = e
    BY <1>1, <2>2, <2>3 DEF F, AllRequests
  <2> QED BY <1>2, <1>6, <1>1, <2>2, <2>3, <2>4
         DEF Arrives, OfUser, WithAddress, Changes, Opens, Registered
<1>7. CASE op = "external"
  <2> DEFINE F(i, e) == [Bare EXCEPT !.identity = i, !.email = e]
  <2>1. Requests(op) = {F(i, e) : i \in Identities, e \in Emails \cup {None}}
    BY <1>7 DEF Requests, Opens, Changes
  <2> HIDE DEF F, Bare
  <2> SUFFICES ASSUME NEW q \in Requests(op) PROVE Arrives(op, q)
    OBVIOUS
  <2>2. PICK i \in Identities, e \in Emails \cup {None} : q = F(i, e)
    BY <2>1, SMT
  <2>4. q \in AllRequests /\ q.op = op /\ q.key = None /\ q.identity = i
    BY <1>1, <2>2 DEF F, AllRequests
  <2> QED BY <1>2, <1>7, <1>1, <2>2, <2>4
         DEF Arrives, OfUser, WithAddress, Changes, Opens, Registered
<1>8. CASE op = "bindMail"
  <2> DEFINE F(k, e, m) == [Bare EXCEPT !.key = k, !.email = e, !.must = m]
             K == {j \in Keys : login[j] # None}
  <2>1. Requests(op) = {F(k, e, m) : k \in K, e \in Emails, m \in BOOLEAN}
    BY <1>8 DEF Requests, Opens, Changes
  <2> HIDE DEF F, K, Bare
  <2> SUFFICES ASSUME NEW q \in Requests(op) PROVE Arrives(op, q)
    OBVIOUS
  <2>2. PICK k \in K, e \in Emails, m \in BOOLEAN : q = F(k, e, m)
    BY <2>1, SMT
  <2>3. k \in Keys /\ login[k] # None
    BY DEF K
  <2>4. q \in AllRequests /\ q.op = op /\ q.key = k /\ q.email = e
    BY <1>1, <2>2, <2>3 DEF F, AllRequests
  <2> QED BY <1>2, <1>8, <1>1, <2>2, <2>3, <2>4
         DEF Arrives, OfUser, WithAddress, Changes, Opens, Registered
<1>9. CASE op = "unbind"
  <2> DEFINE F(r) == [Bare EXCEPT !.user = binding[r].user, !.identity = binding[r].identity]
             K == {s \in Rows : binding[s] # None /\ Live(binding[s].user)}
  <2>1. Requests(op) = {F(r) : r \in K}
    BY <1>9 DEF Requests, Opens, Changes
  <2> HIDE DEF F, K, Bare
  <2> SUFFICES ASSUME NEW q \in Requests(op) PROVE Arrives(op, q)
    OBVIOUS
  <2>2. PICK r \in K : q = F(r)
    BY <2>1, SMT
  <2>3. binding[r].user \in Users /\ binding[r].identity \in Identities /\ Registered(binding[r].user)
    <3>1. r \in Rows /\ binding[r] # None
      BY DEF K
    <3>2. binding[r] \in BindingRows /\ Sure(binding[r].user)
      BY <3>1 DEF ProofInv, IdentityTypeOK, BindingsRight
    <3> QED BY <3>2 DEF BindingRows, Sure
  <2>4. q \in AllRequests /\ q.op = op /\ q.key = None /\ q.user = binding[r].user
    BY <1>1, <2>2, <2>3 DEF F, AllRequests
  <2> QED BY <1>2, <1>9, <1>1, <2>2, <2>3, <2>4
         DEF Arrives, OfUser, WithAddress, Changes, Opens, Registered
<1>10. CASE op \in Opens
  <2> DEFINE F(c) == [Bare EXCEPT !.code = c]
             K == {d \in valid : mail[d].link = op}
  <2>1. Requests(op) = {F(c) : c \in K}
    <3>1. CASE op = "verify"
      BY <3>1 DEF Requests, Opens, Changes
    <3>2. CASE op = "changeMail"
      BY <3>2 DEF Requests, Opens, Changes
    <3>3. CASE op = "reset"
      BY <3>3 DEF Requests, Opens, Changes
    <3> QED BY <1>10, <3>1, <3>2, <3>3 DEF Opens
  <2> HIDE DEF F, K, Bare
  <2> SUFFICES ASSUME NEW q \in Requests(op) PROVE Arrives(op, q)
    OBVIOUS
  <2>2. PICK c \in K : q = F(c)
    BY <2>1, SMT
  <2>3. c \in Codes /\ mail[c] # None /\ mail[c].link = op
    BY DEF K, ProofInv, IdentityTypeOK, MailsRight
  <2>4. q \in AllRequests /\ q.op = op /\ q.key = None /\ q.code = c
    BY <1>1, <2>2, <2>3 DEF F, AllRequests
  <2> QED BY <1>2, <1>10, <1>1, <2>2, <2>3, <2>4
         DEF Arrives, OfUser, WithAddress, Changes, Opens, Registered
<1> QED BY <1>3, <1>4, <1>5, <1>6, <1>7, <1>8, <1>9, <1>10 DEF AllOperations

LEMMA ReceiveKept ==
  ASSUME ProofInv, NEW h \in Handlers, NEW op \in Operations, Receive(h, op)
  PROVE  ProofInv'
<1>1. UNCHANGED <<data, cache, contested, lost>> /\ alone' = [alone EXCEPT ![h] = TRUE]
  BY DEF Receive
<1>2. op \in AllOperations
  BY IdentityAssumption
<1>3. PICK q \in Requests(op) :
        /\ req' = [req EXCEPT ![h] = q]
        /\ vouched' = IF op = "external" THEN vouched \cup ({q.email} \ {None}) ELSE vouched
  BY DEF Receive
<1>4. /\ q \in AllRequests /\ q.op = op
      /\ q.key \in Keys => login[q.key] # None
      /\ op \in OfUser => Registered(q.user)
      /\ op \in WithAddress => q.email \in Emails
      /\ op = "bindMail" => q.key \in Keys
      /\ op = "external" => q.identity \in Identities
      /\ op \in Opens => q.code \in Codes /\ mail[q.code] # None /\ mail[q.code].link = op
  BY <1>2, RequestKnown DEF Arrives
<1>5. PICK rest \in Seq(AllStatements) :
        /\ rest = StatementsOf(op) /\ rest # <<>> /\ Path(op, rest) /\ Head(rest) = First(op)
  BY <1>2, ProgramPath
<1>6. Proceed(h, rest, q)
  BY <1>3, <1>5 DEF Receive, Proceed
<1>7. q.email \in Emails \cup {None}
  BY <1>4 DEF AllRequests
<1>8. vouched' \subseteq Emails /\ vouched \subseteq vouched'
  BY <1>3, <1>7 DEF ProofInv, IdentityTypeOK
<1>9. op = "external" /\ q.email \in Emails => q.email \in vouched'
  BY <1>3, IdentityAssumption
<1>10. Grows
  BY <1>1, <1>8 DEF Grows, data, cache, Exists, Sure, Registered
<1>11. Knows(q, First(op))'
  <2>1. Registered(q.user) => Registered(q.user)'
    BY <1>1 DEF Registered, Exists, data
  <2>2. KnowsUser(q, First(op))'
    BY <1>4, <2>1 DEF KnowsUser, First, Mailing, OfUser, Changes, Opens
  <2>3. KnowsLogin(q, First(op))'
    BY <1>1, <1>4, <1>9 DEF KnowsLogin, First, cache, Opens, Changes
  <2>4. KnowsCode(q, First(op))'
    BY <1>1, <1>4 DEF KnowsCode, First, cache
  <2> QED BY <2>2, <2>3, <2>4 DEF Knows
<1>12. /\ todo' \in [Handlers -> Seq(AllStatements)]
       /\ req' \in [Handlers -> AllRequests \cup {NoRequest}]
       /\ \A g \in Handlers : Working(g)'
  BY <1>4, <1>5, <1>6, <1>10, <1>11, WorkingKept
<1>13. AccountsRight' /\ BindingsRight' /\ MailsRight'
  BY <1>1, <1>10, TablesKept DEF data, cache
<1>14. received' \in 0..MaxRequests /\ alone' \in [Handlers -> BOOLEAN]
  BY <1>1, IdentityAssumption DEF Receive, ProofInv, IdentityTypeOK
<1>15. IdentityTypeOK'
  BY <1>1, <1>8, <1>12, <1>14 DEF ProofInv, IdentityTypeOK, data, cache
<1> QED BY <1>12, <1>13, <1>15 DEF ProofInv

-----------------------------------------------------------------------------
(* The invariant *)

LEMMA ProofInvInit == IdentityInit => ProofInv
<1> SUFFICES ASSUME IdentityInit PROVE ProofInv
  OBVIOUS
<1>1. \A h \in Handlers : todo[h] = <<>>
  BY DEF IdentityInit
<1>2. todo \in [Handlers -> Seq(AllStatements)]
  <2>1. <<>> \in Seq(AllStatements)
    OBVIOUS
  <2> QED BY <1>1, <2>1, Zenon DEF IdentityInit
<1>3. IdentityTypeOK
  BY <1>2, IdentityAssumption DEF IdentityInit, IdentityTypeOK
<1>4. AccountsRight /\ BindingsRight /\ MailsRight
  BY DEF IdentityInit, AccountsRight, BindingsRight, MailsRight, Exists
<1> QED BY <1>1, <1>3, <1>4 DEF ProofInv, Working

LEMMA ProofInvStep == ProofInv /\ [IdentityNext]_identityVars => ProofInv'
<1> SUFFICES ASSUME ProofInv, [IdentityNext]_identityVars PROVE ProofInv'
  OBVIOUS
<1>1. CASE UNCHANGED identityVars
  BY <1>1 DEF identityVars, data, cache, ProofInv, IdentityTypeOK, AccountsRight, BindingsRight,
     MailsRight, Working, Knows, KnowsUser, KnowsLogin, KnowsCode, Sure, Registered, Exists
<1>2. CASE IdentityNext
  <2> PICK h \in Handlers :
        \/ \E op \in Operations : Receive(h, op)
        \/ GiveUp(h)
        \/ LookMail(h) \/ LookUser(h) \/ LookIdentity(h) \/ LookOwner(h)
        \/ Insert(h) \/ Confirm(h) \/ WriteMail(h) \/ WriteProfile(h) \/ WritePassword(h)
        \/ WriteStatus(h)
        \/ SaveLogin(h) \/ ReadLogin(h) \/ LookBinding(h) \/ Bind(h) \/ List(h) \/ Unbind(h)
        \/ Send(h) \/ ReadCode(h) \/ BurnCode(h) \/ CompareCode(h)
    BY <1>2 DEF IdentityNext
  <2> QED BY ReceiveKept, GiveUpKept, LookMailKept, LookUserKept, LookIdentityKept, LookOwnerKept,
            InsertKept, ConfirmKept, WriteMailKept, WriteProfileKept, WritePasswordKept,
            WriteStatusKept, SaveLoginKept, ReadLoginKept, LookBindingKept, BindKept, ListKept,
            UnbindKept, SendKept, ReadCodeKept, BurnCodeKept, CompareCodeKept
<1> QED BY <1>1, <1>2

\* Every variable of UserIdentity has its type: a request that is under way has
\* statements left, and what it holds of users, addresses, half-made logins and
\* codes is what these statements may be given, whatever fails.
THEOREM IdentityTypeCorrect == IdentitySpec => []IdentityTypeOK
<1>1. ProofInv => IdentityTypeOK
  BY DEF ProofInv
<1> QED BY <1>1, ProofInvInit, ProofInvStep, PTL DEF IdentitySpec

LEMMA ProofInvAlways == IdentitySpec => []ProofInv
BY ProofInvInit, ProofInvStep, PTL DEF IdentitySpec

\* UpdateEmailStatus and the rows UserRegisterByEmail, AddUser and the external
\* login insert: an account is confirmed only with an address that somebody
\* vouched for, whoever else writes the row meanwhile, except when a change of
\* status wrote an old address back.
THEOREM AvailableIsVouchedFor == IdentitySpec => []VerifiedIsProven
<1>1. ProofInv => VerifiedIsProven
  BY DEF ProofInv, AccountsRight, VerifiedIsProven, Live, Sure
<1> QED BY <1>1, ProofInvAlways, PTL

-----------------------------------------------------------------------------
(* One account each *)

\* What a step does to the accounts an address and an identity lead to, and to
\* who is alone.
LEMMA OwnersKept ==
  ASSUME ProofInv, OwnersInv, NEW h \in Handlers, NEW q, NEW rest \in Seq(AllStatements),
         Proceed(h, rest, q), contested \subseteq contested',
         \A e \in Emails : \/ e \in contested' \/ WithMail(e)' \subseteq WithMail(e)
                           \/ \E u : WithMail(e)' \subseteq {u},
         \A i \in Identities : \/ i \in contested' \/ RowsOf(i)' \subseteq RowsOf(i)
                               \/ \E r : RowsOf(i)' \subseteq {r},
         \A g \in Handlers \ {h} : Busy(g) /\ alone'[g] =>
           /\ alone[g]
           /\ \/ req[g].email \in contested'
              \/ \A u \in Users : Live(u)' /\ account'[u].email = req[g].email =>
                                    u \in WithMail(req[g].email)
           /\ \/ req[g].identity \in contested'
              \/ \A r \in Rows : binding'[r] # None /\ binding'[r].identity = req[g].identity =>
                                   r \in RowsOf(req[g].identity),
         rest # <<>> /\ alone'[h] => FoundAlone(q, Head(rest))'
  PROVE  OwnersInv'
<1>1. /\ todo \in [Handlers -> Seq(AllStatements)]
      /\ req \in [Handlers -> AllRequests \cup {NoRequest}]
  BY DEF ProofInv, IdentityTypeOK
<1>2. Unique'
  <2>1. ASSUME NEW e \in Emails, e \notin contested'
        PROVE  (\A u, v \in WithMail(e) : u = v)'
    <3>1. \A u, v \in WithMail(e) : u = v
      BY <2>1 DEF OwnersInv, Unique
    <3> QED BY <2>1, <3>1
  <2>2. ASSUME NEW i \in Identities, i \notin contested'
        PROVE  (\A r, s \in RowsOf(i) : r = s)'
    <3>1. \A r, s \in RowsOf(i) : r = s
      BY <2>2 DEF OwnersInv, Unique
    <3> QED BY <2>2, <3>1
  <2> QED BY <2>1, <2>2 DEF Unique
<1>3. AloneRight(h)'
  <2>1. todo'[h] = rest /\ (rest # <<>> => req'[h] = q)
    BY <1>1 DEF Proceed
  <2> QED BY <2>1 DEF AloneRight
<1>4. ASSUME NEW g \in Handlers, g # h
      PROVE  AloneRight(g)'
  <2>1. todo'[g] = todo[g] /\ req'[g] = req[g]
    BY <1>1, <1>4 DEF Proceed
  <2>2. PICK p, t : p = req[g] /\ t = todo[g]
    OBVIOUS
  <2>3. CASE t # <<>> /\ alone'[g]
    <3>1. FoundAlone(p, Head(t))
      BY <1>4, <2>2, <2>3 DEF OwnersInv, AloneRight, Busy
    <3>2. p.email \in contested' \/ WithMail(p.email)' \subseteq WithMail(p.email)
      BY <1>4, <2>2, <2>3 DEF Busy, WithMail
    <3>3. p.identity \in contested' \/ RowsOf(p.identity)' \subseteq RowsOf(p.identity)
      BY <1>4, <2>2, <2>3 DEF Busy, RowsOf
    <3>4. FoundAlone(p, Head(t))'
      <4>1. <<p.op, Head(t)>> \in Storing =>
              \/ p.email \in contested'
              \/ WithMail(p.email)' \subseteq IF p.op = "editProfile" THEN {p.user} ELSE {}
        BY <3>1, <3>2 DEF FoundAlone
      <4>2. Head(t) = "bind" /\ p.bound = None =>
              p.identity \in contested' \/ RowsOf(p.identity)' = {}
        BY <3>1, <3>3 DEF FoundAlone
      <4> QED BY <4>1, <4>2 DEF FoundAlone
    <3> QED BY <2>1, <2>2, <3>4 DEF AloneRight
  <2>4. CASE ~(t # <<>> /\ alone'[g])
    BY <2>1, <2>2, <2>4 DEF AloneRight
  <2> QED BY <2>3, <2>4
<1> QED BY <1>2, <1>3, <1>4 DEF OwnersInv

\* A step that changes neither.
LEMMA OwnersRead ==
  ASSUME ProofInv, OwnersInv, NEW h \in Handlers, NEW q, NEW rest \in Seq(AllStatements),
         Proceed(h, rest, q), UNCHANGED <<account, binding, contested>>,
         \A g \in Handlers \ {h} : alone'[g] = alone[g],
         rest # <<>> /\ alone'[h] => FoundAlone(q, Head(rest))
  PROVE  OwnersInv'
<1>1. \A x : WithMail(x)' = WithMail(x) /\ RowsOf(x)' = RowsOf(x)
  BY DEF WithMail, RowsOf, Live, Exists
<1>2. rest # <<>> /\ alone'[h] => FoundAlone(q, Head(rest))'
  BY <1>1 DEF FoundAlone
<1>3. \A g \in Handlers \ {h} :
        /\ \A u \in Users : Live(u)' /\ account'[u].email = req[g].email =>
                              u \in WithMail(req[g].email)
        /\ \A r \in Rows : binding'[r] # None /\ binding'[r].identity = req[g].identity =>
                             r \in RowsOf(req[g].identity)
  BY DEF WithMail, RowsOf, Live, Exists
<1> QED BY <1>1, <1>2, <1>3, OwnersKept

LEMMA AloneSame ==
  ASSUME ProofInv, NEW h \in Handlers, Looked(h) \/ Unnoticed
  PROVE  /\ UNCHANGED contested /\ \A g \in Handlers \ {h} : alone'[g] = alone[g]
         /\ Unnoticed => alone' = alone
BY DEF ProofInv, IdentityTypeOK, Looked, Unnoticed

\* Only three statements come before one that stores what was looked for.
LEMMA NotStoring ==
  ASSUME NEW op, NEW s, NEW t, <<op, s, t>> \in Follows,
         s \notin {"lookMail", "lookUser", "lookBinding"}
  PROVE  <<op, t>> \notin Storing /\ t # "bind"
BY DEF Follows, Storing, Opens, Changes

LEMMA Elsewhere ==
  ASSUME NEW q, NEW s, NEW t, <<q.op, s, t>> \in Follows,
         s \notin {"lookMail", "lookUser", "lookBinding"}
  PROVE  FoundAlone(q, t)
<1>1. <<q.op, t>> \notin Storing /\ t # "bind"
  BY NotStoring
<1> QED BY <1>1 DEF FoundAlone

LEMMA LeaveOwners ==
  ASSUME ProofInv, OwnersInv, NEW h \in Handlers, Leave(h),
         UNCHANGED <<account, binding, contested>>,
         \A g \in Handlers \ {h} : alone'[g] = alone[g]
  PROVE  OwnersInv'
<1>1. <<>> \in Seq(AllStatements)
  OBVIOUS
<1> QED BY <1>1, OwnersRead DEF Leave

LEMMA GiveUpOwners ==
  ASSUME ProofInv, OwnersInv, NEW h \in Handlers, GiveUp(h)
  PROVE  OwnersInv'
<1>1. UNCHANGED <<account, binding, contested>> /\ \A g \in Handlers \ {h} : alone'[g] = alone[g]
  BY AloneSame DEF GiveUp, data
<1> QED BY <1>1, LeaveOwners DEF GiveUp

LEMMA CompareCodeOwners ==
  ASSUME ProofInv, OwnersInv, NEW h \in Handlers, CompareCode(h)
  PROVE  OwnersInv'
<1>1. UNCHANGED <<account, binding, contested>> /\ \A g \in Handlers \ {h} : alone'[g] = alone[g]
  BY AloneSame DEF CompareCode, data
<1>2. PICK q \in AllRequests, rest \in Seq(AllStatements) :
        /\ q = req[h] /\ rest = Tail(todo[h]) /\ Knows(q, "compareCode") /\ Path(q.op, rest)
        /\ <<q.op, "compareCode", IF rest = <<>> THEN "end" ELSE Head(rest)>> \in Follows
  BY AtStep DEF CompareCode
<1>5. rest # <<>> => FoundAlone(q, Head(rest))
  BY <1>2, Elsewhere
<1>6. Proceed(h, rest, q) \/ Leave(h)
  BY <1>2 DEF CompareCode, GoOn
<1> QED BY <1>1, <1>5, <1>6, OwnersRead, LeaveOwners

LEMMA BurnCodeOwners ==
  ASSUME ProofInv, OwnersInv, NEW h \in Handlers, BurnCode(h)
  PROVE  OwnersInv'
<1>1. UNCHANGED <<account, binding, contested>> /\ \A g \in Handlers \ {h} : alone'[g] = alone[g]
  BY AloneSame DEF BurnCode, data
<1>2. PICK q \in AllRequests, rest \in Seq(AllStatements) :
        /\ q = req[h] /\ rest = Tail(todo[h]) /\ Knows(q, "burnCode") /\ Path(q.op, rest)
        /\ <<q.op, "burnCode", IF rest = <<>> THEN "end" ELSE Head(rest)>> \in Follows
  BY AtStep DEF BurnCode
<1>5. rest # <<>> => FoundAlone(q, Head(rest))
  BY <1>2, Elsewhere
<1>6. Proceed(h, rest, q)
  BY <1>2 DEF BurnCode, GoOn
<1> QED BY <1>1, <1>5, <1>6, OwnersRead

LEMMA SendOwners ==
  ASSUME ProofInv, OwnersInv, NEW h \in Handlers, Send(h)
  PROVE  OwnersInv'
<1>1. UNCHANGED <<account, binding, contested>> /\ \A g \in Handlers \ {h} : alone'[g] = alone[g]
  BY AloneSame DEF Send, data
<1>2. PICK q \in AllRequests, rest \in Seq(AllStatements) :
        /\ q = req[h] /\ rest = Tail(todo[h]) /\ Knows(q, "send") /\ Path(q.op, rest)
        /\ <<q.op, "send", IF rest = <<>> THEN "end" ELSE Head(rest)>> \in Follows
  BY AtStep DEF Send
<1>5. rest # <<>> => FoundAlone(q, Head(rest))
  BY <1>2, Elsewhere
<1>6. Proceed(h, rest, q)
  BY <1>2 DEF Send, GoOn
<1> QED BY <1>1, <1>5, <1>6, OwnersRead

LEMMA SaveLoginOwners ==
  ASSUME ProofInv, OwnersInv, NEW h \in Handlers, SaveLogin(h)
  PROVE  OwnersInv'
<1>1. UNCHANGED <<account, binding, contested>> /\ \A g \in Handlers \ {h} : alone'[g] = alone[g]
  BY AloneSame DEF SaveLogin, data
<1>2. PICK q \in AllRequests, rest \in Seq(AllStatements) :
        /\ q = req[h] /\ rest = Tail(todo[h]) /\ Knows(q, "saveLogin") /\ Path(q.op, rest)
        /\ <<q.op, "saveLogin", IF rest = <<>> THEN "end" ELSE Head(rest)>> \in Follows
  BY AtStep DEF SaveLogin
<1>5. rest # <<>> => FoundAlone(q, Head(rest))
  BY <1>2, Elsewhere
<1>6. Proceed(h, rest, q)
  BY <1>2 DEF SaveLogin, GoOn
<1> QED BY <1>1, <1>5, <1>6, OwnersRead

LEMMA ListOwners ==
  ASSUME ProofInv, OwnersInv, NEW h \in Handlers, List(h)
  PROVE  OwnersInv'
<1>1. UNCHANGED <<account, binding, contested>> /\ \A g \in Handlers \ {h} : alone'[g] = alone[g]
  BY AloneSame DEF List, data
<1>2. PICK q \in AllRequests, rest \in Seq(AllStatements) :
        /\ q = req[h] /\ rest = Tail(todo[h]) /\ Knows(q, "list") /\ Path(q.op, rest)
        /\ <<q.op, "list", IF rest = <<>> THEN "end" ELSE Head(rest)>> \in Follows
  BY AtStep DEF List
<1>3. PICK p : p = [q EXCEPT !.listed = Cardinality(Bound(q.user))]
  OBVIOUS
<1>4. p.op = q.op
  BY <1>3 DEF AllRequests
<1>7. rest # <<>> => <<p.op, "list", Head(rest)>> \in Follows
  BY <1>2, <1>4
<1>5. rest # <<>> => FoundAlone(p, Head(rest))
  BY <1>7, Elsewhere
<1>6. Proceed(h, rest, p) \/ Leave(h)
  BY <1>2, <1>3 DEF List, GoOn
<1> QED BY <1>1, <1>5, <1>6, OwnersRead, LeaveOwners

LEMMA ReadLoginOwners ==
  ASSUME ProofInv, OwnersInv, NEW h \in Handlers, ReadLogin(h)
  PROVE  OwnersInv'
<1>1. UNCHANGED <<account, binding, contested>> /\ \A g \in Handlers \ {h} : alone'[g] = alone[g]
  BY AloneSame DEF ReadLogin, data
<1>2. PICK q \in AllRequests, rest \in Seq(AllStatements) :
        /\ q = req[h] /\ rest = Tail(todo[h]) /\ Knows(q, "readLogin") /\ Path(q.op, rest)
        /\ <<q.op, "readLogin", IF rest = <<>> THEN "end" ELSE Head(rest)>> \in Follows
  BY AtStep DEF ReadLogin
<1>3. PICK p : p = [q EXCEPT !.identity = login[q.key].identity]
  OBVIOUS
<1>4. p.op = q.op
  BY <1>3 DEF AllRequests
<1>7. rest # <<>> => <<p.op, "readLogin", Head(rest)>> \in Follows
  BY <1>2, <1>4
<1>5. rest # <<>> => FoundAlone(p, Head(rest))
  BY <1>7, Elsewhere
<1>6. Proceed(h, rest, p) \/ Leave(h)
  BY <1>2, <1>3 DEF ReadLogin, GoOn
<1> QED BY <1>1, <1>5, <1>6, OwnersRead, LeaveOwners

LEMMA ReadCodeOwners ==
  ASSUME ProofInv, OwnersInv, NEW h \in Handlers, ReadCode(h)
  PROVE  OwnersInv'
<1>1. UNCHANGED <<account, binding, contested, alone>>
  BY DEF ReadCode, data
<1>2. PICK q \in AllRequests, rest \in Seq(AllStatements) :
        /\ q = req[h] /\ rest = Tail(todo[h]) /\ Knows(q, "readCode") /\ Path(q.op, rest)
        /\ <<q.op, "readCode", IF rest = <<>> THEN "end" ELSE Head(rest)>> \in Follows
  BY AtStep DEF ReadCode
<1>3. PICK m : m = mail[q.code]
  OBVIOUS
<1>4. PICK p : p = [q EXCEPT !.email = m.email, !.user = m.user, !.key = m.key]
  OBVIOUS
<1>5. p.op = q.op
  BY <1>4 DEF AllRequests
<1>8. rest # <<>> => <<p.op, "readCode", Head(rest)>> \in Follows
  BY <1>2, <1>5
<1>6. rest # <<>> => FoundAlone(p, Head(rest))
  BY <1>8, Elsewhere
<1>7. Proceed(h, rest, p) \/ Leave(h)
  BY <1>2, <1>3, <1>4 DEF ReadCode, GoOn
<1> QED BY <1>1, <1>2, <1>6, <1>7, OwnersRead, LeaveOwners

\* A login that goes on as one of a stranger looks for the address first.
LEMMA UnknownAlone ==
  ASSUME NEW q \in AllRequests, q.op = "external", NEW s, Knows(q, s), NEW p, p.op = q.op
  PROVE  FoundAlone(p, Head(Unknown(q)))
<1>1. Head(Unknown(q)) \in {"saveLogin", "lookMail"}
  BY DEF Unknown, AskForEmail, LoginByEmail
<1>2. <<p.op, Head(Unknown(q))>> \notin Storing /\ Head(Unknown(q)) # "bind"
  BY <1>1 DEF Storing
<1> QED BY <1>2 DEF FoundAlone

LEMMA LookIdentityOwners ==
  ASSUME ProofInv, OwnersInv, NEW h \in Handlers, LookIdentity(h)
  PROVE  OwnersInv'
<1>1. /\ UNCHANGED <<account, binding, contested>>
      /\ \A g \in Handlers \ {h} : alone'[g] = alone[g]
  BY AloneSame DEF LookIdentity, data
<1>2. PICK q \in AllRequests, rest \in Seq(AllStatements) :
        /\ q = req[h] /\ rest = Tail(todo[h]) /\ Knows(q, "lookIdentity") /\ Path(q.op, rest)
        /\ <<q.op, "lookIdentity", IF rest = <<>> THEN "end" ELSE Head(rest)>> \in Follows
  BY AtStep DEF LookIdentity
<1>3. q.op = "external"
  BY <1>2 DEF Follows
<1>4. CASE Proceed(h, Unknown(q), q)
  BY <1>1, <1>2, <1>3, <1>4, UnknownPath, UnknownAlone, OwnersRead
<1>5. ASSUME NEW u, Proceed(h, LoginDirectly, [q EXCEPT !.user = u])
      PROVE  OwnersInv'
  <2>1. PICK p : p = [q EXCEPT !.user = u]
    OBVIOUS
  <2>2. p.op = "external"
    BY <1>3, <2>1 DEF AllRequests
  <2>3. "lookOwner" \in AllStatements /\ "confirm" \in AllStatements
    BY DEF AllStatements
  <2>4. <<p.op, "lookOwner", "confirm">> \in Follows /\ <<p.op, "confirm", "end">> \in Follows
    BY <2>2 DEF Follows
  <2>5. LoginDirectly \in Seq(AllStatements) /\ Head(LoginDirectly) = "lookOwner"
    BY <2>3, <2>4, PathOfTwo DEF LoginDirectly
  <2>6. FoundAlone(p, "lookOwner")
    BY <2>2 DEF FoundAlone, Storing
  <2> QED BY <1>1, <1>5, <2>1, <2>5, <2>6, OwnersRead
<1>6. Proceed(h, Unknown(q), q) \/ \E u : Proceed(h, LoginDirectly, [q EXCEPT !.user = u])
  BY <1>2, Zenon DEF LookIdentity
<1> QED BY <1>4, <1>5, <1>6

LEMMA LookOwnerOwners ==
  ASSUME ProofInv, OwnersInv, NEW h \in Handlers, LookOwner(h)
  PROVE  OwnersInv'
<1>1. /\ UNCHANGED <<account, binding, contested>>
      /\ \A g \in Handlers \ {h} : alone'[g] = alone[g]
  BY AloneSame DEF LookOwner, data
<1>2. PICK q \in AllRequests, rest \in Seq(AllStatements) :
        /\ q = req[h] /\ rest = Tail(todo[h]) /\ Knows(q, "lookOwner") /\ Path(q.op, rest)
        /\ <<q.op, "lookOwner", IF rest = <<>> THEN "end" ELSE Head(rest)>> \in Follows
  BY AtStep DEF LookOwner
<1>3. q.op = "external"
  BY <1>2 DEF Follows
<1>4. CASE Live(q.user)
  <2>1. PICK p : p = [q EXCEPT !.row = account[q.user]]
    OBVIOUS
  <2>2. p.op = q.op
    BY <2>1 DEF AllRequests
  <2>5. rest # <<>> => <<p.op, "lookOwner", Head(rest)>> \in Follows
    BY <1>2, <2>2
  <2>3. rest # <<>> => FoundAlone(p, Head(rest))
    BY <2>5, Elsewhere
  <2>4. Proceed(h, rest, p)
    BY <1>2, <1>4, <2>1 DEF LookOwner, GoOn
  <2> QED BY <1>1, <1>2, <2>3, <2>4, OwnersRead
<1>5. CASE ~Live(q.user)
  <2>1. PICK p : p = [q EXCEPT !.user = None]
    OBVIOUS
  <2>2. p.op = q.op
    BY <2>1 DEF AllRequests
  <2>3. FoundAlone(p, Head(Unknown(q))) /\ Unknown(q) \in Seq(AllStatements)
    BY <1>2, <1>3, <2>2, UnknownAlone, UnknownPath
  <2>4. Proceed(h, Unknown(q), p)
    BY <1>2, <1>5, <2>1 DEF LookOwner
  <2> QED BY <1>1, <2>3, <2>4, OwnersRead
<1> QED BY <1>4, <1>5

LEMMA LookBindingOwners ==
  ASSUME ProofInv, OwnersInv, NEW h \in Handlers, LookBinding(h)
  PROVE  OwnersInv'
<1>1. /\ UNCHANGED <<account, binding, contested>>
      /\ \A g \in Handlers \ {h} : alone'[g] = alone[g]
  BY AloneSame DEF LookBinding, data
<1>2. PICK q \in AllRequests, rest \in Seq(AllStatements) :
        /\ q = req[h] /\ rest = Tail(todo[h]) /\ Knows(q, "lookBinding") /\ Path(q.op, rest)
        /\ <<q.op, "lookBinding", IF rest = <<>> THEN "end" ELSE Head(rest)>> \in Follows
  BY AtStep DEF LookBinding
<1>3. rest # <<>> => Head(rest) = "bind"
  BY <1>2 DEF Follows
<1>4. CASE RowsOf(q.identity) = {} /\ GoOn(h, q)
  <2>1. FoundAlone(q, "bind")
    BY <1>4 DEF FoundAlone, Storing
  <2> QED BY <1>1, <1>2, <1>3, <1>4, <2>1, OwnersRead DEF GoOn
<1>5. ASSUME NEW r \in RowsOf(q.identity), GoOn(h, [q EXCEPT !.bound = r])
      PROVE  OwnersInv'
  <2>1. PICK p : p = [q EXCEPT !.bound = r]
    OBVIOUS
  <2>2. p.bound # None
    BY <2>1, IdentityAssumption DEF AllRequests, RowsOf, Rows
  <2>3. FoundAlone(p, "bind")
    BY <2>2 DEF FoundAlone, Storing
  <2>4. rest # <<>> => FoundAlone(p, Head(rest))
    BY <1>3, <2>3
  <2>5. Proceed(h, rest, p)
    BY <1>2, <1>5, <2>1 DEF GoOn
  <2> QED BY <1>1, <2>4, <2>5, OwnersRead
<1> QED BY <1>2, <1>4, <1>5 DEF LookBinding

LEMMA LookUserOwners ==
  ASSUME ProofInv, OwnersInv, NEW h \in Handlers, LookUser(h)
  PROVE  OwnersInv'
<1>1. UNCHANGED <<account, binding, contested, alone>>
  BY AloneSame DEF LookUser, data
<1>2. CASE Leave(h)
  BY <1>1, <1>2, LeaveOwners
<1>3. PICK q \in AllRequests, rest \in Seq(AllStatements) :
        /\ q = req[h] /\ rest = Tail(todo[h]) /\ Knows(q, "lookUser") /\ Path(q.op, rest)
        /\ <<q.op, "lookUser", IF rest = <<>> THEN "end" ELSE Head(rest)>> \in Follows
  BY AtStep DEF LookUser
<1>4. CASE q.op = "unbind" /\ Proceed(h, <<"unbind">>, q)
  <2>1. "unbind" \in AllStatements /\ <<q.op, "unbind", "end">> \in Follows
    BY <1>4 DEF AllStatements, Follows
  <2>2. <<"unbind">> \in Seq(AllStatements) /\ Head(<<"unbind">>) = "unbind"
    BY <2>1, PathOfOne
  <2>3. FoundAlone(q, "unbind")
    BY <1>4 DEF FoundAlone, Storing
  <2> QED BY <1>1, <1>4, <2>2, <2>3, OwnersRead
<1>5. ASSUME NEW a, NEW e, GoOn(h, [q EXCEPT !.row = a, !.email = e]),
             q.op = "changeMail" => e = q.email
      PROVE  OwnersInv'
  <2>1. PICK p : p = [q EXCEPT !.row = a, !.email = e]
    OBVIOUS
  <2>2. p.op = q.op /\ p.email = e
    BY <2>1 DEF AllRequests
  <2>3. rest # <<>> /\ alone[h] => FoundAlone(p, Head(rest))
    <3>1. CASE q.op = "changeMail"
      <4>1. alone[h] => FoundAlone(q, "lookUser")
        BY <1>3, <3>1 DEF OwnersInv, AloneRight, LookUser, At, Busy
      <4>2. rest # <<>> => Head(rest) = "writeMail"
        BY <1>3, <3>1 DEF Follows, Opens, Changes
      <4>3. alone[h] => q.email \in contested \/ WithMail(q.email) = {}
        BY <3>1, <4>1 DEF FoundAlone, Storing
      <4>4. alone[h] => FoundAlone(p, "writeMail")
        BY <1>5, <2>2, <3>1, <4>3 DEF FoundAlone
      <4> QED BY <4>2, <4>4
    <3>2. CASE q.op # "changeMail"
      <4>1. rest # <<>> => <<q.op, Head(rest)>> \notin Storing /\ Head(rest) # "bind"
        BY <1>3, <3>2 DEF Follows, Storing, Opens, Changes
      <4> QED BY <2>2, <4>1 DEF FoundAlone
    <3> QED BY <3>1, <3>2
  <2>4. Proceed(h, rest, p)
    BY <1>3, <1>5, <2>1 DEF GoOn
  <2> QED BY <1>1, <2>3, <2>4, OwnersRead
<1>6. CASE GoOn(h, [q EXCEPT !.row = account[q.user],
                             !.email = IF q.op = "askVerify" THEN account[q.user].email ELSE @])
  <2>1. PICK a, e : /\ a = account[q.user]
                    /\ e = IF q.op = "askVerify" THEN a.email ELSE q.email
    OBVIOUS
  <2>2. [q EXCEPT !.row = account[q.user],
                  !.email = IF q.op = "askVerify" THEN account[q.user].email ELSE @]
        = [q EXCEPT !.row = a, !.email = e]
    BY <2>1 DEF AllRequests
  <2> QED BY <1>5, <1>6, <2>1, <2>2
<1> QED BY <1>2, <1>3, <1>4, <1>6 DEF LookUser

LEMMA LookMailOwners ==
  ASSUME ProofInv, OwnersInv, NEW h \in Handlers, LookMail(h)
  PROVE  OwnersInv'
<1>1. /\ UNCHANGED <<account, binding, contested>>
      /\ \A g \in Handlers \ {h} : alone'[g] = alone[g]
  BY AloneSame DEF LookMail, data
<1>2. CASE Leave(h)
  BY <1>1, <1>2, LeaveOwners
<1>3. PICK q \in AllRequests, rest \in Seq(AllStatements) :
        /\ q = req[h] /\ rest = Tail(todo[h]) /\ Knows(q, "lookMail") /\ Path(q.op, rest)
        /\ <<q.op, "lookMail", IF rest = <<>> THEN "end" ELSE Head(rest)>> \in Follows
  BY AtStep DEF LookMail
<1>4. CASE WithMail(q.email) = {} /\ GoOn(h, q)
  <2>1. rest # <<>> => Head(rest) # "bind"
    BY <1>3, AfterLookMail
  <2>2. rest # <<>> => FoundAlone(q, Head(rest))
    BY <1>4, <2>1 DEF FoundAlone
  <2> QED BY <1>1, <1>3, <1>4, <2>2, OwnersRead DEF GoOn
<1>5. CASE q.op = "editProfile" /\ q.user \in WithMail(q.email) /\ GoOn(h, q)
  <2>1. q.email \in Emails
    BY <1>3, <1>5 DEF Knows, KnowsUser, WithAddress
  <2>2. q.email \in contested \/ WithMail(q.email) \subseteq {q.user}
    BY <1>5, <2>1 DEF OwnersInv, Unique
  <2>3. rest # <<>> => Head(rest) # "bind"
    BY <1>3, AfterLookMail
  <2>4. rest # <<>> => FoundAlone(q, Head(rest))
    BY <1>5, <2>2, <2>3 DEF FoundAlone
  <2> QED BY <1>1, <1>3, <1>5, <2>4, OwnersRead DEF GoOn
<1>6. ASSUME NEW u, q.op \in WantsOne, GoOn(h, [q EXCEPT !.user = u, !.row = account[u]])
      PROVE  OwnersInv'
  <2>1. PICK p : p = [q EXCEPT !.user = u, !.row = account[u]]
    OBVIOUS
  <2>2. p.op = q.op
    BY <2>1 DEF AllRequests
  <2>3. rest # <<>> => <<p.op, Head(rest)>> \notin Storing /\ Head(rest) # "bind"
    BY <1>3, <1>6, <2>2, AfterLookMail DEF WantsOne, Storing
  <2>4. rest # <<>> => FoundAlone(p, Head(rest))
    BY <2>3 DEF FoundAlone
  <2>5. Proceed(h, rest, p)
    BY <1>3, <1>6, <2>1 DEF GoOn
  <2> QED BY <1>1, <2>4, <2>5, OwnersRead
<1>7. ASSUME NEW p, p.op = q.op, q.op \in {"external", "bindMail"}, Proceed(h, Tail(rest), p)
      PROVE  OwnersInv'
  <2>1. rest # <<>> /\ Head(rest) = "insert"
    BY <1>3, <1>7, AfterLookMail
  <2>2. /\ Tail(rest) \in Seq(AllStatements)
        /\ <<q.op, "insert", IF Tail(rest) = <<>> THEN "end" ELSE Head(Tail(rest))>> \in Follows
    BY <1>3, <2>1, PathStep
  <2>3. PICK t \in Seq(AllStatements) : t = Tail(rest)
    BY <2>2
  <2>4. t # <<>> => <<p.op, "insert", Head(t)>> \in Follows
    BY <1>7, <2>2, <2>3
  <2>5. t # <<>> => FoundAlone(p, Head(t))
    BY <2>4, Elsewhere
  <2> QED BY <1>1, <1>7, <2>3, <2>5, OwnersRead
<1>8. ASSUME NEW u, q.op = "external",
             Proceed(h, Tail(Tail(todo[h])), [q EXCEPT !.user = u, !.row = account[u]])
      PROVE  OwnersInv'
  <2>1. PICK p : p = [q EXCEPT !.user = u, !.row = account[u]]
    OBVIOUS
  <2>2. p.op = q.op
    BY <2>1 DEF AllRequests
  <2> QED BY <1>3, <1>7, <1>8, <2>1, <2>2
<1>9. ASSUME NEW u, q.op = "bindMail",
             Proceed(h, Tail(Tail(todo[h])), [q EXCEPT !.user = u])
      PROVE  OwnersInv'
  <2>1. PICK p : p = [q EXCEPT !.user = u]
    OBVIOUS
  <2>2. p.op = q.op
    BY <2>1 DEF AllRequests
  <2> QED BY <1>3, <1>7, <1>9, <2>1, <2>2
<1> QED BY <1>2, <1>3, <1>4, <1>5, <1>6, <1>8, <1>9 DEF LookMail

-----------------------------------------------------------------------------
(* The steps that write, and who owns what *)

\* An address is stored in the row of a user, who is then its only owner if the
\* handler is alone.
LEMMA MailStored ==
  ASSUME ProofInv, OwnersInv, NEW h \in Handlers, NEW q, NEW rest \in Seq(AllStatements),
         NEW u \in Users, NEW a, NEW e, a.email = e,
         account' = [account EXCEPT ![u] = a], UNCHANGED binding, Stored(h, e),
         alone[h] => e \in contested \/ WithMail(e) \subseteq {u},
         Proceed(h, rest, q),
         rest # <<>> => <<q.op, Head(rest)>> \notin Storing /\ Head(rest) # "bind"
  PROVE  OwnersInv'
<1> DEFINE after == {g \in Handlers \ {h} : Busy(g) /\ e \in {req[g].email, req[g].identity}}
<1>1. /\ alone' = [g \in Handlers |-> alone[g] /\ g \notin after]
      /\ contested' = IF alone[h] THEN contested ELSE contested \cup {e}
  BY DEF Stored
<1>2. account \in [Users -> AccountRows \cup {None}]
  BY DEF ProofInv, IdentityTypeOK
<1>3. account'[u] = a /\ \A v \in Users : v # u => account'[v] = account[v]
  BY <1>2
<1>4. \A x : x # e => \A v \in Users : Live(v)' /\ account'[v].email = x => v \in WithMail(x)
  BY <1>3 DEF WithMail, Live, Exists
<1>5. WithMail(e)' \subseteq WithMail(e) \cup {u}
  BY <1>3 DEF WithMail, Live, Exists
<1>6. \A x : x # e => WithMail(x)' \subseteq WithMail(x)
  BY <1>4 DEF WithMail
<1>7. e \in contested' \/ WithMail(e)' \subseteq {u}
  BY <1>1, <1>5
<1>8. \A x : RowsOf(x)' = RowsOf(x)
  BY DEF RowsOf
<1>9. \A g \in Handlers \ {h} : Busy(g) /\ alone'[g] => alone[g] /\ req[g].email # e
  BY <1>1
<1>10. contested \subseteq contested'
  BY <1>1
<1>11. \A g \in Handlers \ {h} : Busy(g) /\ alone'[g] =>
         /\ alone[g]
         /\ \A v \in Users : Live(v)' /\ account'[v].email = req[g].email =>
                               v \in WithMail(req[g].email)
         /\ \A r \in Rows : binding'[r] # None /\ binding'[r].identity = req[g].identity =>
                              r \in RowsOf(req[g].identity)
  BY <1>4, <1>9 DEF RowsOf
<1>12. rest # <<>> => FoundAlone(q, Head(rest))'
  BY DEF FoundAlone, Storing
<1> HIDE DEF after
<1> QED BY <1>6, <1>7, <1>8, <1>10, <1>11, <1>12, OwnersKept

\* Nobody owns more than before, except what is contested now.
LEMMA OwnersFewer ==
  ASSUME ProofInv, OwnersInv, NEW h \in Handlers, NEW q, NEW rest \in Seq(AllStatements),
         Proceed(h, rest, q), contested \subseteq contested', alone' = alone,
         \A u \in Users : Live(u)' =>
           account'[u].email \in contested' \/ (Live(u) /\ account'[u].email = account[u].email),
         \A r \in Rows : binding'[r] # None =>
           binding[r] # None /\ binding'[r].identity = binding[r].identity,
         rest # <<>> => <<q.op, Head(rest)>> \notin Storing /\ Head(rest) # "bind"
  PROVE  OwnersInv'
<1>1. \A x : \/ x \in contested'
             \/ \A u \in Users : Live(u)' /\ account'[u].email = x => u \in WithMail(x)
  BY DEF WithMail
<1>2. \A x : \A r \in Rows : binding'[r] # None /\ binding'[r].identity = x => r \in RowsOf(x)
  BY DEF RowsOf
<1>3. \A x : x \in contested' \/ WithMail(x)' \subseteq WithMail(x)
  BY <1>1 DEF WithMail
<1>4. \A x : RowsOf(x)' \subseteq RowsOf(x)
  BY <1>2 DEF RowsOf
<1>5. rest # <<>> => FoundAlone(q, Head(rest))'
  BY DEF FoundAlone, Storing
<1> QED BY <1>1, <1>2, <1>3, <1>4, <1>5, OwnersKept

LEMMA InsertOwners ==
  ASSUME ProofInv, OwnersInv, NEW h \in Handlers, Insert(h)
  PROVE  OwnersInv'
<1>1. PICK q \in AllRequests, rest \in Seq(AllStatements) :
        /\ q = req[h] /\ rest = Tail(todo[h]) /\ Knows(q, "insert") /\ Path(q.op, rest)
        /\ <<q.op, "insert", IF rest = <<>> THEN "end" ELSE Head(rest)>> \in Follows
  BY AtStep DEF Insert
<1>2. q.op \in {"register", "addUser", "external", "bindMail"}
  BY <1>1 DEF Follows, Opens, Changes
<1>3. PICK a : a = [NewUser(q.op) EXCEPT !.email = q.email]
  OBVIOUS
<1>4. a.email = q.email
  BY <1>3 DEF NewUser
<1>5. PICK u \in Users : /\ account' = [account EXCEPT ![u] = a]
                         /\ GoOn(h, [q EXCEPT !.user = u, !.row = a])
  BY <1>1, <1>3 DEF Insert
<1>6. PICK p : p = [q EXCEPT !.user = u, !.row = a]
  OBVIOUS
<1>7. p.op = q.op
  BY <1>6 DEF AllRequests
<1>8. UNCHANGED binding /\ Stored(h, q.email) /\ Proceed(h, rest, p)
  BY <1>1, <1>5, <1>6 DEF Insert, GoOn
<1>9. alone[h] => q.email \in contested \/ WithMail(q.email) \subseteq {u}
  <2>1. alone[h] => FoundAlone(q, "insert")
    BY <1>1 DEF OwnersInv, AloneRight, Insert, At, Busy
  <2> QED BY <1>2, <2>1 DEF FoundAlone, Storing
<1>10. rest # <<>> => <<p.op, Head(rest)>> \notin Storing /\ Head(rest) # "bind"
  BY <1>1, <1>7, NotStoring
<1> QED BY <1>4, <1>5, <1>8, <1>9, <1>10, MailStored

LEMMA WriteMailOwners ==
  ASSUME ProofInv, OwnersInv, NEW h \in Handlers, WriteMail(h)
  PROVE  OwnersInv'
<1>1. PICK q \in AllRequests, rest \in Seq(AllStatements) :
        /\ q = req[h] /\ rest = Tail(todo[h]) /\ Knows(q, "writeMail") /\ Path(q.op, rest)
        /\ <<q.op, "writeMail", IF rest = <<>> THEN "end" ELSE Head(rest)>> \in Follows
  BY AtStep DEF WriteMail
<1>2. q.op = "changeMail"
  BY <1>1 DEF Follows
<1>3. Registered(q.user)
  BY <1>1, <1>2 DEF Knows, KnowsCode, Opens
<1>4. PICK u \in Users : u = q.user /\ Exists(u)
  BY <1>3 DEF Registered
<1>5. account \in [Users -> AccountRows \cup {None}] /\ account[u] \in AccountRows
  BY <1>4 DEF ProofInv, IdentityTypeOK, Exists
<1>6. PICK a : a = [account[u] EXCEPT !.email = q.email]
  OBVIOUS
<1>7. a.email = q.email
  BY <1>5, <1>6 DEF AccountRows
<1>8. account' = [account EXCEPT ![u] = a]
  BY <1>1, <1>4, <1>5, <1>6 DEF WriteMail
<1>9. UNCHANGED binding /\ Stored(h, q.email) /\ Proceed(h, rest, q)
  BY <1>1 DEF WriteMail, GoOn
<1>10. alone[h] => q.email \in contested \/ WithMail(q.email) \subseteq {u}
  <2>1. alone[h] => FoundAlone(q, "writeMail")
    BY <1>1 DEF OwnersInv, AloneRight, WriteMail, At, Busy
  <2> QED BY <1>2, <2>1 DEF FoundAlone, Storing
<1>11. rest # <<>> => <<q.op, Head(rest)>> \notin Storing /\ Head(rest) # "bind"
  BY <1>1, NotStoring
<1> QED BY <1>7, <1>8, <1>9, <1>10, <1>11, MailStored

LEMMA WriteProfileOwners ==
  ASSUME ProofInv, OwnersInv, NEW h \in Handlers, WriteProfile(h)
  PROVE  OwnersInv'
<1>1. PICK q \in AllRequests, rest \in Seq(AllStatements) :
        /\ q = req[h] /\ rest = Tail(todo[h]) /\ Knows(q, "writeProfile") /\ Path(q.op, rest)
        /\ <<q.op, "writeProfile", IF rest = <<>> THEN "end" ELSE Head(rest)>> \in Follows
  BY AtStep DEF WriteProfile
<1>2. q.op = "editProfile"
  BY <1>1 DEF Follows
<1>3. Registered(q.user)
  BY <1>1, <1>2 DEF Knows, KnowsUser, OfUser
<1>4. PICK u \in Users : u = q.user /\ Exists(u)
  BY <1>3 DEF Registered
<1>5. account \in [Users -> AccountRows \cup {None}] /\ account[u] \in AccountRows
  BY <1>4 DEF ProofInv, IdentityTypeOK, Exists
<1>6. PICK a : a = [account[u] EXCEPT !.email = q.email, !.mail = "available"]
  OBVIOUS
<1>7. a.email = q.email
  BY <1>5, <1>6 DEF AccountRows
<1>8. account' = [account EXCEPT ![u] = a]
  BY <1>1, <1>4, <1>5, <1>6 DEF WriteProfile
<1>9. UNCHANGED binding /\ Stored(h, q.email) /\ Proceed(h, rest, q)
  BY <1>1 DEF WriteProfile, GoOn
<1>10. alone[h] => q.email \in contested \/ WithMail(q.email) \subseteq {u}
  <2>1. alone[h] => FoundAlone(q, "writeProfile")
    BY <1>1 DEF OwnersInv, AloneRight, WriteProfile, At, Busy
  <2> QED BY <1>2, <1>4, <2>1 DEF FoundAlone, Storing
<1>11. rest # <<>> => <<q.op, Head(rest)>> \notin Storing /\ Head(rest) # "bind"
  BY <1>1, NotStoring
<1> QED BY <1>7, <1>8, <1>9, <1>10, <1>11, MailStored

LEMMA ConfirmOwners ==
  ASSUME ProofInv, OwnersInv, NEW h \in Handlers, Confirm(h)
  PROVE  OwnersInv'
<1>1. PICK q \in AllRequests, next \in Seq(AllStatements) :
        /\ q = req[h] /\ next = Tail(todo[h]) /\ Knows(q, "confirm") /\ Path(q.op, next)
        /\ <<q.op, "confirm", IF next = <<>> THEN "end" ELSE Head(next)>> \in Follows
  BY AtStep DEF Confirm
<1>2. PICK rest : rest = IF q.key = None THEN <<>> ELSE next
  OBVIOUS
<1>3. rest \in Seq(AllStatements)
  BY <1>1, <1>2
<1>4. rest # <<>> => <<q.op, Head(rest)>> \notin Storing /\ Head(rest) # "bind"
  BY <1>1, <1>2, <1>3, NotStoring
<1>5. Proceed(h, rest, q) /\ UNCHANGED <<binding, contested, alone>>
  BY <1>1, <1>2 DEF Confirm, Unnoticed
<1>6. q.op \in {"external", "changeMail", "verify"}
  BY <1>1 DEF Follows
<1>7. Sure(q.user)
  BY <1>1, <1>6 DEF Knows, KnowsLogin, KnowsCode, Opens
<1>8. PICK u \in Users : u = q.user /\ Exists(u)
  BY <1>7 DEF Sure, Registered
<1>9. account \in [Users -> AccountRows \cup {None}] /\ account[u] \in AccountRows
  BY <1>8 DEF ProofInv, IdentityTypeOK, Exists
<1>10. account' = account \/ account' = [account EXCEPT ![u].mail = "available"]
  BY <1>1, <1>8 DEF Confirm
<1>11. PICK a : a = [account[u] EXCEPT !.mail = "available"]
  OBVIOUS
<1>12. a.status = account[u].status /\ a.email = account[u].email
  BY <1>9, <1>11 DEF AccountRows
<1>13. account' = account \/ account' = [account EXCEPT ![u] = a]
  BY <1>9, <1>10, <1>11
<1>14. \A v \in Users : Live(v)' => Live(v) /\ account'[v].email = account[v].email
  BY <1>8, <1>9, <1>12, <1>13 DEF Live, Exists
<1> QED BY <1>4, <1>5, <1>3, <1>14, OwnersFewer

LEMMA WritePasswordOwners ==
  ASSUME ProofInv, OwnersInv, NEW h \in Handlers, WritePassword(h)
  PROVE  OwnersInv'
<1>1. PICK q \in AllRequests, rest \in Seq(AllStatements) :
        /\ q = req[h] /\ rest = Tail(todo[h]) /\ Knows(q, "writePassword") /\ Path(q.op, rest)
        /\ <<q.op, "writePassword", IF rest = <<>> THEN "end" ELSE Head(rest)>> \in Follows
  BY AtStep DEF WritePassword
<1>2. rest # <<>> => <<q.op, Head(rest)>> \notin Storing /\ Head(rest) # "bind"
  BY <1>1, NotStoring
<1>3. Proceed(h, rest, q) /\ UNCHANGED <<binding, contested, alone>>
  BY <1>1 DEF WritePassword, GoOn, Unnoticed
<1>4. q.op \in {"setPassword", "reset"}
  BY <1>1 DEF Follows
<1>5. Registered(q.user)
  BY <1>1, <1>4 DEF Knows, KnowsUser, KnowsCode, OfUser, Opens
<1>6. PICK u \in Users : u = q.user /\ Exists(u)
  BY <1>5 DEF Registered
<1>7. account \in [Users -> AccountRows \cup {None}] /\ account[u] \in AccountRows
  BY <1>6 DEF ProofInv, IdentityTypeOK, Exists
<1>8. PICK a : a = [account[u] EXCEPT !.pass = TRUE]
  OBVIOUS
<1>9. a.status = account[u].status /\ a.email = account[u].email
  BY <1>7, <1>8 DEF AccountRows
<1>10. account' = [account EXCEPT ![u] = a]
  BY <1>1, <1>6, <1>7, <1>8 DEF WritePassword
<1>11. \A v \in Users : Live(v)' => Live(v) /\ account'[v].email = account[v].email
  BY <1>6, <1>7, <1>9, <1>10 DEF Live, Exists
<1> QED BY <1>2, <1>3, <1>11, OwnersFewer

LEMMA WriteStatusOwners ==
  ASSUME ProofInv, OwnersInv, NEW h \in Handlers, WriteStatus(h)
  PROVE  OwnersInv'
<1>1. PICK q \in AllRequests, rest \in Seq(AllStatements) :
        /\ q = req[h] /\ rest = Tail(todo[h]) /\ Knows(q, "writeStatus") /\ Path(q.op, rest)
        /\ <<q.op, "writeStatus", IF rest = <<>> THEN "end" ELSE Head(rest)>> \in Follows
  BY AtStep DEF WriteStatus
<1>2. rest # <<>> => <<q.op, Head(rest)>> \notin Storing /\ Head(rest) # "bind"
  BY <1>1, NotStoring
<1>3. Proceed(h, rest, q) /\ UNCHANGED <<binding, alone>>
  BY <1>1 DEF WriteStatus, GoOn
<1>4. q.op \in Changes
  BY <1>1 DEF Follows
<1>5. /\ Registered(q.user) /\ q.row \in AccountRows /\ q.row.status # "deleted"
      /\ q.row.email \in Emails
  BY <1>1, <1>4 DEF Knows, KnowsUser, OfUser
<1>6. PICK u \in Users : u = q.user /\ Exists(u)
  BY <1>5 DEF Registered
<1>7. account \in [Users -> AccountRows \cup {None}] /\ account[u] \in AccountRows
  BY <1>6 DEF ProofInv, IdentityTypeOK, Exists
<1>8. PICK now, b : now = account[u] /\ b = Changed(q.op, q.row)
  OBVIOUS
<1>9. PICK a : a = [b EXCEPT !.pass = now.pass]
  OBVIOUS
<1>10. /\ b \in AccountRows /\ (b.status # "deleted" => b.email = q.row.email)
  BY <1>4, <1>5, <1>8 DEF Changed, Changes, AccountRows
<1>11. a.status = b.status /\ a.email = b.email
  BY <1>9, <1>10 DEF AccountRows
<1>12. account' = [account EXCEPT ![u] = a]
  BY <1>1, <1>6, <1>8, <1>9 DEF WriteStatus
<1>13. PICK stale \in BOOLEAN : stale = ([q.row EXCEPT !.pass = now.pass] # now)
  OBVIOUS
<1>14. contested' = IF stale THEN contested \cup ({a.email} \ {None}) ELSE contested
  BY <1>1, <1>6, <1>8, <1>9, <1>13 DEF WriteStatus
<1>15. a.status # "deleted" =>
         a.email \in contested' \/ (now.status # "deleted" /\ a.email = now.email)
  <2>1. a.status # "deleted" => a.email \in Emails /\ a.email = q.row.email
    BY <1>5, <1>10, <1>11
  <2>2. CASE stale
    BY <1>14, <2>1, <2>2, IdentityAssumption
  <2>3. CASE ~stale
    <3>1. [q.row EXCEPT !.pass = now.pass] = now
      BY <1>13, <2>3
    <3>2. /\ [q.row EXCEPT !.pass = now.pass].status = q.row.status
          /\ [q.row EXCEPT !.pass = now.pass].email = q.row.email
      BY <1>5 DEF AccountRows
    <3> QED BY <1>5, <2>1, <3>1, <3>2
  <2> QED BY <2>2, <2>3
<1>16. \A v \in Users : Live(v)' =>
         account'[v].email \in contested' \/ (Live(v) /\ account'[v].email = account[v].email)
  BY <1>6, <1>7, <1>8, <1>12, <1>15 DEF Live, Exists
<1>17. contested \subseteq contested'
  BY <1>14
<1> QED BY <1>2, <1>3, <1>16, <1>17, OwnersFewer

LEMMA UnbindOwners ==
  ASSUME ProofInv, OwnersInv, NEW h \in Handlers, Unbind(h)
  PROVE  OwnersInv'
<1>1. PICK q \in AllRequests, rest \in Seq(AllStatements) :
        /\ q = req[h] /\ rest = Tail(todo[h]) /\ Knows(q, "unbind") /\ Path(q.op, rest)
        /\ <<q.op, "unbind", IF rest = <<>> THEN "end" ELSE Head(rest)>> \in Follows
  BY AtStep DEF Unbind
<1>2. rest # <<>> => <<q.op, Head(rest)>> \notin Storing /\ Head(rest) # "bind"
  BY <1>1, NotStoring
<1>3. Proceed(h, rest, q) /\ UNCHANGED <<account, contested, alone>>
  BY <1>1 DEF Unbind, GoOn, Unnoticed
<1>4. \A r \in Rows : binding'[r] # None => binding'[r] = binding[r]
  BY DEF Unbind
<1>5. \A v \in Users : Live(v)' => Live(v)
  BY <1>3 DEF Live, Exists
<1> QED BY <1>2, <1>3, <1>4, <1>5, OwnersFewer

LEMMA BindOwners ==
  ASSUME ProofInv, OwnersInv, NEW h \in Handlers, Bind(h)
  PROVE  OwnersInv'
<1>1. PICK q \in AllRequests, rest \in Seq(AllStatements) :
        /\ q = req[h] /\ rest = Tail(todo[h]) /\ Knows(q, "bind") /\ Path(q.op, rest)
        /\ <<q.op, "bind", IF rest = <<>> THEN "end" ELSE Head(rest)>> \in Follows
  BY AtStep DEF Bind
<1>2. rest # <<>> => <<q.op, Head(rest)>> \notin Storing /\ Head(rest) # "bind"
  BY <1>1, NotStoring
<1>3. Proceed(h, rest, q) /\ UNCHANGED account
  BY <1>1 DEF Bind, GoOn
<1>4. \A v \in Users : Live(v)' => Live(v)
  BY <1>3 DEF Live, Exists
<1>5. binding \in [Rows -> BindingRows \cup {None}] /\ inserted \in 0..MaxBindings
  BY DEF ProofInv, IdentityTypeOK
<1>6. CASE q.bound # None
  <2>1. /\ binding' = IF binding[q.bound] = None THEN binding
                      ELSE [binding EXCEPT ![q.bound].user = q.user]
        /\ UNCHANGED <<alone, contested>>
    BY <1>1, <1>6 DEF Bind
  <2>2. PICK r0 \in Rows : r0 = q.bound
    BY <1>6 DEF AllRequests
  <2>3. ASSUME NEW r \in Rows, binding'[r] # None
        PROVE  binding[r] # None /\ binding'[r].identity = binding[r].identity
    <3>1. CASE binding[r0] = None \/ r # r0
      BY <1>5, <2>1, <2>2, <2>3, <3>1
    <3>2. CASE binding[r0] # None /\ r = r0
      <4>1. binding'[r] = [binding[r0] EXCEPT !.user = q.user]
        BY <1>5, <2>1, <2>2, <3>2
      <4>2. binding[r0] \in BindingRows
        BY <1>5, <3>2
      <4>3. [binding[r0] EXCEPT !.user = q.user].identity = binding[r0].identity
        BY <4>2 DEF BindingRows
      <4> QED BY <3>2, <4>1, <4>3
    <3> QED BY <3>1, <3>2
  <2> QED BY <1>2, <1>3, <1>4, <2>1, <2>3, OwnersFewer
<1>7. CASE q.bound = None
  <2> DEFINE i == q.identity
             after == {g \in Handlers \ {h} : Busy(g) /\ i \in {req[g].email, req[g].identity}}
  <2>1. PICK b : b = [identity |-> i, user |-> q.user]
    OBVIOUS
  <2>2. /\ inserted < MaxBindings /\ binding' = [binding EXCEPT ![inserted + 1] = b]
        /\ Stored(h, i)
    BY <1>1, <1>7, <2>1 DEF Bind
  <2>3. PICK r0 \in Rows : r0 = inserted + 1
    BY <1>5, <2>2, IdentityAssumption DEF Rows
  <2>4. binding'[r0] = b /\ b.identity = i /\ \A r \in Rows : r # r0 => binding'[r] = binding[r]
    BY <1>5, <2>1, <2>2, <2>3
  <2>5. /\ alone' = [g \in Handlers |-> alone[g] /\ g \notin after]
        /\ contested' = IF alone[h] THEN contested ELSE contested \cup {i}
    BY <2>2 DEF Stored
  <2>6. \A x : x # i => \A r \in Rows : binding'[r] # None /\ binding'[r].identity = x =>
                                          r \in RowsOf(x)
    BY <2>4 DEF RowsOf
  <2>7. \A x : x # i => RowsOf(x)' \subseteq RowsOf(x)
    BY <2>6 DEF RowsOf
  <2>8. RowsOf(i)' \subseteq RowsOf(i) \cup {r0}
    BY <2>4 DEF RowsOf
  <2>9. alone[h] => i \in contested \/ RowsOf(i) = {}
    <3>1. alone[h] => FoundAlone(q, "bind")
      BY <1>1 DEF OwnersInv, AloneRight, Bind, At, Busy
    <3> QED BY <1>7, <3>1 DEF FoundAlone
  <2>10. i \in contested' \/ RowsOf(i)' \subseteq {r0}
    BY <2>5, <2>8, <2>9
  <2>11. \A x : WithMail(x)' = WithMail(x)
    BY <1>3 DEF WithMail, Live, Exists
  <2>12. \A g \in Handlers \ {h} : Busy(g) /\ alone'[g] => alone[g] /\ req[g].identity # i
    BY <2>5
  <2>13. contested \subseteq contested'
    BY <2>5
  <2>14. \A g \in Handlers \ {h} : Busy(g) /\ alone'[g] =>
           /\ alone[g]
           /\ \A u \in Users : Live(u)' /\ account'[u].email = req[g].email =>
                                 u \in WithMail(req[g].email)
           /\ \A r \in Rows : binding'[r] # None /\ binding'[r].identity = req[g].identity =>
                                r \in RowsOf(req[g].identity)
    BY <1>3, <1>4, <2>6, <2>12 DEF WithMail
  <2>15. rest # <<>> => FoundAlone(q, Head(rest))'
    BY <1>2 DEF FoundAlone, Storing
  <2> HIDE DEF after
  <2> QED BY <1>3, <2>7, <2>10, <2>11, <2>13, <2>14, <2>15, OwnersKept
<1> QED BY <1>6, <1>7

LEMMA ReceiveOwners ==
  ASSUME ProofInv, OwnersInv, NEW h \in Handlers, NEW op \in Operations, Receive(h, op)
  PROVE  OwnersInv'
<1>1. /\ UNCHANGED <<account, binding, contested>>
      /\ \A g \in Handlers \ {h} : alone'[g] = alone[g]
  BY DEF Receive, data, ProofInv, IdentityTypeOK
<1>2. op \in AllOperations
  BY IdentityAssumption
<1>3. PICK q \in Requests(op) : req' = [req EXCEPT ![h] = q]
  BY DEF Receive
<1>4. q.op = op
  BY <1>2, RequestKnown DEF Arrives
<1>5. PICK rest \in Seq(AllStatements) :
        rest = StatementsOf(op) /\ rest # <<>> /\ Head(rest) = First(op)
  BY <1>2, ProgramPath
<1>6. Proceed(h, rest, q)
  BY <1>3, <1>5 DEF Receive, Proceed
<1>7. <<op, First(op)>> \notin Storing /\ First(op) # "bind"
  BY DEF First, Storing, Opens, Changes
<1>8. FoundAlone(q, Head(rest))
  BY <1>4, <1>5, <1>7 DEF FoundAlone
<1> QED BY <1>1, <1>6, <1>8, OwnersRead

LEMMA OwnersInvInit == IdentityInit => OwnersInv
BY DEF IdentityInit, OwnersInv, Unique, AloneRight, WithMail, RowsOf, Live, Exists

LEMMA OwnersInvStep == ProofInv /\ OwnersInv /\ [IdentityNext]_identityVars => OwnersInv'
<1> SUFFICES ASSUME ProofInv, OwnersInv, [IdentityNext]_identityVars PROVE OwnersInv'
  OBVIOUS
<1>1. CASE UNCHANGED identityVars
  BY <1>1 DEF identityVars, data, cache, OwnersInv, Unique, AloneRight, FoundAlone, WithMail,
     RowsOf, Live, Exists
<1>2. CASE IdentityNext
  <2> PICK h \in Handlers :
        \/ \E op \in Operations : Receive(h, op)
        \/ GiveUp(h)
        \/ LookMail(h) \/ LookUser(h) \/ LookIdentity(h) \/ LookOwner(h)
        \/ Insert(h) \/ Confirm(h) \/ WriteMail(h) \/ WriteProfile(h) \/ WritePassword(h)
        \/ WriteStatus(h)
        \/ SaveLogin(h) \/ ReadLogin(h) \/ LookBinding(h) \/ Bind(h) \/ List(h) \/ Unbind(h)
        \/ Send(h) \/ ReadCode(h) \/ BurnCode(h) \/ CompareCode(h)
    BY <1>2 DEF IdentityNext
  <2> QED BY ReceiveOwners, GiveUpOwners, LookMailOwners, LookUserOwners, LookIdentityOwners,
            LookOwnerOwners, InsertOwners, ConfirmOwners, WriteMailOwners, WriteProfileOwners,
            WritePasswordOwners, WriteStatusOwners, SaveLoginOwners, ReadLoginOwners,
            LookBindingOwners, BindOwners, ListOwners, UnbindOwners, SendOwners,
            ReadCodeOwners, BurnCodeOwners, CompareCodeOwners
<1> QED BY <1>1, <1>2

LEMMA OwnersAlways == IdentitySpec => [](ProofInv /\ OwnersInv)
<1>1. IdentityInit => ProofInv /\ OwnersInv
  BY ProofInvInit, OwnersInvInit
<1>2. (ProofInv /\ OwnersInv) /\ [IdentityNext]_identityVars => (ProofInv /\ OwnersInv)'
  BY ProofInvStep, OwnersInvStep
<1> QED BY <1>1, <1>2, PTL DEF IdentitySpec

LEMMA AtMostOne ==
  ASSUME NEW S, \A a, b \in S : a = b
  PROVE  Cardinality(S) <= 1
<1>1. CASE S = {}
  BY <1>1, FS_EmptySet
<1>2. CASE S # {}
  <2>1. PICK a \in S : S = {a}
    BY <1>2
  <2> QED BY <2>1, FS_Singleton
<1> QED BY <1>1, <1>2

\* GetByEmail and GetByExternalID find one account at most, though no index
\* makes a column unique: two rows need two requests that had both found the
\* address or the identity free, or a change of status that wrote one back.
THEOREM LeadsToOneAccount == IdentitySpec => []OneAccountEach
<1>1. OwnersInv => OneAccountEach
  <2> SUFFICES ASSUME OwnersInv, NEW x \in (Emails \cup Identities) \ contested
               PROVE  Cardinality(LedTo(x)) <= 1
    BY DEF OneAccountEach
  <2>1. CASE x \in Emails
    BY <2>1, AtMostOne DEF LedTo, OwnersInv, Unique
  <2>2. CASE x \notin Emails
    <3>1. \A r, s \in RowsOf(x) : r = s
      BY <2>2 DEF OwnersInv, Unique
    <3>2. LedTo(x) = {binding[r].user : r \in RowsOf(x)}
      BY <2>2 DEF LedTo
    <3>3. \A u, v \in LedTo(x) : u = v
      BY <3>1, <3>2
    <3> QED BY <3>3, AtMostOne
  <2> QED BY <2>1, <2>2
<1> QED BY <1>1, OwnersAlways, PTL

-----------------------------------------------------------------------------
(* Unbinding leaves a way in *)

\* Binding takes no row away.
LEMMA BindingsStay ==
  ASSUME ProofInv, NEW h \in Handlers, Bind(h), NEW r \in Rows, binding[r] # None
  PROVE  binding'[r] # None
<1>1. PICK q \in AllRequests, rest \in Seq(AllStatements) :
        /\ q = req[h] /\ rest = Tail(todo[h]) /\ Knows(q, "bind") /\ Path(q.op, rest)
        /\ <<q.op, "bind", IF rest = <<>> THEN "end" ELSE Head(rest)>> \in Follows
  BY AtStep DEF Bind
<1>2. q.op \in {"external", "verify"}
  BY <1>1 DEF Follows
<1>3. q.user \in Users /\ q.identity \in Identities
  BY <1>1, <1>2 DEF Knows, KnowsLogin, KnowsCode, Opens, Sure, Registered
<1>4. binding \in [Rows -> BindingRows \cup {None}] /\ inserted \in 0..MaxBindings
  BY DEF ProofInv, IdentityTypeOK
<1>5. None \notin BindingRows
  BY IdentityAssumption
<1>6. CASE q.bound = None
  <2>1. PICK b : b = [identity |-> q.identity, user |-> q.user]
    OBVIOUS
  <2>2. b \in BindingRows
    BY <1>3, <2>1 DEF BindingRows
  <2>3. inserted < MaxBindings /\ binding' = [binding EXCEPT ![inserted + 1] = b]
    BY <1>1, <1>6, <2>1 DEF Bind
  <2> QED BY <1>4, <1>5, <2>2, <2>3
<1>7. CASE q.bound # None
  <2>1. binding' = IF binding[q.bound] = None THEN binding
                   ELSE [binding EXCEPT ![q.bound].user = q.user]
    BY <1>1, <1>7 DEF Bind
  <2>2. PICK r0 \in Rows : r0 = q.bound
    BY <1>7 DEF AllRequests
  <2>3. PICK c : c = [binding[r0] EXCEPT !.user = q.user]
    OBVIOUS
  <2>4. binding[r0] # None => c \in BindingRows
    BY <1>3, <1>4, <2>3 DEF BindingRows
  <2>5. binding' = IF binding[r0] = None THEN binding ELSE [binding EXCEPT ![r0] = c]
    BY <1>4, <2>1, <2>2, <2>3
  <2> QED BY <1>4, <1>5, <2>4, <2>5
<1> QED BY <1>6, <1>7

\* What unbinding takes away are bindings of the user who asked for it.
LEMMA GoneAre ==
  ASSUME ProofInv, NEW h \in Handlers, Unbind(h), NEW r \in Rows, binding[r] # None,
         binding'[r] = None
  PROVE  /\ binding[r].user = req[h].user
         /\ ExternalID(binding[r].identity) = ExternalID(req[h].identity)
BY DEF Unbind, Bound

\* Only binding and unbinding write the rows.
LEMMA WhoBinds ==
  ASSUME [IdentityNext]_identityVars, binding' # binding
  PROVE  \E h \in Handlers : Bind(h) \/ Unbind(h)
<1>1. IdentityNext
  BY DEF identityVars, data
<1>2. PICK h \in Handlers :
        \/ \E op \in Operations : Receive(h, op)
        \/ GiveUp(h)
        \/ LookMail(h) \/ LookUser(h) \/ LookIdentity(h) \/ LookOwner(h)
        \/ Insert(h) \/ Confirm(h) \/ WriteMail(h) \/ WriteProfile(h) \/ WritePassword(h)
        \/ WriteStatus(h)
        \/ SaveLogin(h) \/ ReadLogin(h) \/ LookBinding(h) \/ Bind(h) \/ List(h) \/ Unbind(h)
        \/ Send(h) \/ ReadCode(h) \/ BurnCode(h) \/ CompareCode(h)
  BY <1>1 DEF IdentityNext
<1>3. ~(\E op \in Operations : Receive(h, op)) /\ ~GiveUp(h)
  BY DEF Receive, GiveUp, data
<1>4. ~LookMail(h) /\ ~LookUser(h) /\ ~LookIdentity(h) /\ ~LookOwner(h)
  BY DEF LookMail, LookUser, LookIdentity, LookOwner, data
<1>5. ~Insert(h) /\ ~Confirm(h) /\ ~WriteMail(h) /\ ~WriteProfile(h) /\ ~WritePassword(h)
  BY DEF Insert, Confirm, WriteMail, WriteProfile, WritePassword
<1>6. ~WriteStatus(h) /\ ~SaveLogin(h) /\ ~ReadLogin(h) /\ ~LookBinding(h) /\ ~List(h)
  BY DEF WriteStatus, SaveLogin, ReadLogin, LookBinding, List, data
<1>7. ~Send(h) /\ ~ReadCode(h) /\ ~BurnCode(h) /\ ~CompareCode(h)
  BY DEF Send, ReadCode, BurnCode, CompareCode, data
<1> QED BY <1>2, <1>3, <1>4, <1>5, <1>6, <1>7

\* A user without a password who asks to unbind an external login, is left with
\* another one or was shown one more than there are, unless one identity was
\* bound by two requests that had both found it free: the count is taken by a
\* statement of its own.  The providers are taken to give different ids:
\* DeleteUserExternalLogin is not told whose id it deletes.
THEOREM UnbindingLeavesAWay ==
  ASSUME \A i, j \in Identities : ExternalID(i) = ExternalID(j) => i = j
  PROVE  IdentitySpec => KeepsAWayIn
<1> DEFINE Kept(u) ==
      Exists(u) /\ ~account[u].pass /\ Bound(u) # {} /\ Bound(u)' = {} =>
        \/ \E r \in Bound(u) : binding'[r] # None \/ binding[r].identity \in contested
        \/ \E h \in Handlers : /\ At(h, "unbind") /\ req[h].user = u
                               /\ Cardinality(Bound(u)) < req[h].listed
<1>1. ProofInv /\ OwnersInv /\ [IdentityNext]_identityVars => \A u \in Users : Kept(u)
  <2> SUFFICES ASSUME ProofInv, OwnersInv, [IdentityNext]_identityVars, NEW u \in Users,
                      Exists(u), ~account[u].pass, Bound(u) # {}, Bound(u)' = {},
                      \A r \in Bound(u) : binding'[r] = None /\ binding[r].identity \notin contested
               PROVE  \E h \in Handlers : /\ At(h, "unbind") /\ req[h].user = u
                                          /\ Cardinality(Bound(u)) < req[h].listed
    OBVIOUS
  <2>1. PICK r0 \in Bound(u) : r0 \in Rows /\ binding[r0] # None /\ binding[r0].user = u
    BY DEF Bound
  <2>2. binding' # binding
    BY <2>1
  <2>3. PICK h \in Handlers : Unbind(h)
    BY <2>1, <2>2, WhoBinds, BindingsStay
  <2>4. PICK q \in AllRequests, rest \in Seq(AllStatements) :
          /\ q = req[h] /\ rest = Tail(todo[h]) /\ Knows(q, "unbind") /\ Path(q.op, rest)
          /\ <<q.op, "unbind", IF rest = <<>> THEN "end" ELSE Head(rest)>> \in Follows
    BY <2>3, AtStep DEF Unbind
  <2>5. q.user = u
    BY <2>1, <2>3, <2>4, GoneAre
  <2>6. q.op = "unbind"
    BY <2>4 DEF Follows
  <2>7. q.listed >= 2
    BY <2>4, <2>5, <2>6 DEF Knows, KnowsUser
  <2>8. binding \in [Rows -> BindingRows \cup {None}]
    BY DEF ProofInv, IdentityTypeOK
  <2>9. \A r \in Bound(u) : /\ r \in Rows /\ binding[r] # None
                            /\ binding[r].identity \in Identities
                            /\ ExternalID(binding[r].identity) = ExternalID(q.identity)
    BY <2>3, <2>4, <2>8, GoneAre DEF Bound, BindingRows
  <2>10. \A r \in Bound(u) : r \in RowsOf(binding[r0].identity)
    BY <2>1, <2>9 DEF RowsOf
  <2>11. \A r, s \in Bound(u) : r = s
    BY <2>1, <2>9, <2>10 DEF OwnersInv, Unique
  <2>12. Cardinality(Bound(u)) <= 1
    BY <2>11, AtMostOne
  <2>13. Cardinality(Bound(u)) \in Nat /\ q.listed \in Nat
    <3>1. IsFiniteSet(Bound(u))
      <4>1. r0 \in Bound(u)
        OBVIOUS
      <4>2. Bound(u) \subseteq {r0}
        BY <2>11, <4>1
      <4> QED BY <4>2, FS_Singleton, FS_Subset
    <3> QED BY <3>1, FS_CardinalityType DEF AllRequests
  <2>14. Cardinality(Bound(u)) < q.listed
    BY <2>7, <2>12, <2>13
  <2> QED BY <2>3, <2>4, <2>5, <2>14 DEF Unbind
<1> QED BY <1>1, OwnersAlways, PTL DEF IdentitySpec, KeepsAWayIn

=============================================================================
