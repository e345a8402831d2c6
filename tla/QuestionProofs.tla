--------------------------- MODULE QuestionProofs ---------------------------
(***************************************************************************)
(* Theorems about QuestionLifecycle, for every set of questions, tags and *)
(* handlers, any mix of operations and any failures.                       *)
(***************************************************************************)
EXTENDS QuestionLifecycle, FiniteSetTheorems, SequenceTheorems, TLAPS

\* Every request has statements to run, and those that change pin or show
\* begin by reading the question.
LEMMA ProgramType ==
  ASSUME NEW r \in Request
  PROVE  /\ Program(r) \in Seq(Statements)
         /\ Program(r) # <<>>
         /\ r.op \in ListOperations => Head(Program(r)) = "read"
<1>1. ChangeTags \in Seq(Statements) /\ Len(ChangeTags) = 6 /\ ChangeTags # <<>>
  BY DEF ChangeTags, Statements
<1>2. CountUser \in Seq(Statements) /\ Len(CountUser) = 2
  BY DEF CountUser, Statements
<1>3. r.op \in AllOperations
  BY QuestionAssumption DEF Request
<1>4. AddQuestion \in Seq(Statements) /\ AddQuestion # <<>>
  <2>1. <<"insert", "queueReview", "setStatus">> \in Seq(Statements)
    BY DEF Statements
  <2>2. <<"insert", "queueReview", "setStatus">> \o ChangeTags \in Seq(Statements)
    BY <2>1, <1>1, ConcatProperties
  <2> QED BY <2>2, <1>1, <1>2, ConcatProperties DEF AddQuestion
<1>5. UpdateQuestion \in Seq(Statements) /\ UpdateQuestion # <<>>
  <2>1. <<"read">> \in Seq(Statements)
    BY DEF Statements
  <2> QED BY <2>1, <1>1, ConcatProperties DEF UpdateQuestion
<1>6. RemoveQuestion \in Seq(Statements) /\ RemoveQuestion # <<>>
  <2>1. /\ <<"read", "setStatus">> \in Seq(Statements)
        /\ <<"listRels", "setRels", "refreshTags">> \in Seq(Statements)
    BY DEF Statements
  <2>2. <<"read", "setStatus">> \o CountUser \in Seq(Statements)
    BY <2>1, <1>2, ConcatProperties
  <2> QED BY <2>1, <2>2, ConcatProperties DEF RemoveQuestion
<1>7. RecoverQuestion \in Seq(Statements) /\ RecoverQuestion # <<>>
  <2>1. /\ <<"read", "setStatus">> \in Seq(Statements)
        /\ <<"setRels", "listRels", "refreshTags">> \in Seq(Statements)
    BY DEF Statements
  <2>2. <<"read", "setStatus">> \o CountUser \in Seq(Statements)
    BY <2>1, <1>2, ConcatProperties
  <2> QED BY <2>1, <2>2, ConcatProperties DEF RecoverQuestion
<1>8. UpdateReview \in Seq(Statements) /\ UpdateReview # <<>>
  <2>1. /\ <<"readReview", "setStatus">> \in Seq(Statements)
        /\ <<"closeReview">> \in Seq(Statements)
    BY DEF Statements
  <2>2. <<"readReview", "setStatus">> \o CountUser \in Seq(Statements)
    BY <2>1, <1>2, ConcatProperties
  <2> QED BY <2>1, <2>2, ConcatProperties DEF UpdateReview
<1>9. CASE r.op \in ListOperations
  <2>1. /\ OperationVisibility \in Seq(Statements) /\ OperationVisibility # <<>>
        /\ Head(OperationVisibility) = "read"
    BY DEF OperationVisibility, Statements
  <2>2. OperationPin \in Seq(Statements) /\ OperationPin # <<>> /\ Head(OperationPin) = "read"
    BY DEF OperationPin, Statements
  <2>3. CASE r.op = "hide"  BY <2>3, <2>1 DEF Program, Programs
  <2>4. CASE r.op = "show"  BY <2>4, <2>1 DEF Program, Programs
  <2>5. CASE r.op = "pin"  BY <2>5, <2>2 DEF Program, Programs
  <2>6. CASE r.op = "unpin"  BY <2>6, <2>2 DEF Program, Programs
  <2> QED BY <1>9, <2>3, <2>4, <2>5, <2>6 DEF ListOperations
<1>10. CASE r.op \in {"close", "reopen", "adminSet"}
  <2>1. <<"setStatus">> \in Seq(Statements) /\ <<"setStatus">> # <<>>
    BY DEF Statements
  <2>2. r.op \notin ListOperations
    BY <1>10 DEF ListOperations
  <2>3. CASE r.op = "close"  BY <2>3, <2>1, <2>2 DEF Program, Programs, CloseQuestion
  <2>4. CASE r.op = "reopen"  BY <2>4, <2>1, <2>2 DEF Program, Programs, ReopenQuestion
  <2>5. CASE r.op = "adminSet"  BY <2>5, <2>1, <2>2 DEF Program, Programs, AdminSetQuestionStatus
  <2> QED BY <1>10, <2>3, <2>4, <2>5
<1>11. CASE r.op \notin ListOperations \cup {"close", "reopen", "adminSet"}
  <2>1. r.op \in {"add", "edit", "applyEdit", "remove", "recover", "approve", "reject"}
    BY <1>3, <1>11 DEF AllOperations, TagOperations, ListOperations, Decisions
  <2>2. CASE r.op = "add"  BY <2>2, <1>4, <1>11 DEF Program, Programs
  <2>3. CASE r.op = "edit"  BY <2>3, <1>5, <1>11 DEF Program, Programs
  <2>4. CASE r.op = "applyEdit"  BY <2>4, <1>1, <1>11 DEF Program, Programs, RevisionAuditQuestion
  <2>5. CASE r.op = "remove"  BY <2>5, <1>6, <1>11 DEF Program, Programs
  <2>6. CASE r.op = "recover"  BY <2>6, <1>7, <1>11 DEF Program, Programs
  <2>7. CASE r.op = "approve"  BY <2>7, <1>8, <1>11 DEF Program, Programs
  <2>8. CASE r.op = "reject"  BY <2>8, <1>8, <1>11 DEF Program, Programs
  <2> QED BY <2>1, <2>2, <2>3, <2>4, <2>5, <2>6, <2>7, <2>8
<1> QED BY <1>9, <1>10, <1>11

\* What a handler has left and serves, by itself.
ControlOK ==
  /\ todo \in [Handlers -> Seq(Statements)]
  /\ req \in [Handlers -> Request \cup {NoRequest}]
  /\ \A h \in Handlers : Busy(h) <=> req[h] # NoRequest

\* What a handler keeps of what it has read.
LocalsOK ==
  /\ seen \in [Handlers -> [pinned : BOOLEAN, hidden : BOOLEAN]]
  /\ verdict \in [Handlers -> Statuses]
  /\ plan \in [Handlers -> [unread : SUBSET Tags, drop : SUBSET Tags,
                            create : SUBSET Tags, enable : SUBSET Tags,
                            refresh : SUBSET Tags, counted : SUBSET Tags]]
  /\ tally \in [Handlers -> 0..Cardinality(Questions)]

TablesOK ==
  /\ status \in [Questions -> Statuses \cup {"none"}]
  /\ pinned \in [Questions -> BOOLEAN]
  /\ hidden \in [Questions -> BOOLEAN]
  /\ rel \in [Questions -> [Tags -> RelStatuses \cup {"none"}]]
  /\ review \in [Questions -> ReviewStatuses \cup {"none"}]
  /\ tagCount \in [Tags -> 0..Cardinality(Questions)]
  /\ userCount \in [Users -> 0..Cardinality(Questions)]
  /\ received \in 0..MaxRequests
  /\ overtaken \subseteq Questions /\ unqueued \subseteq Questions /\ revived \subseteq Questions

LEMMA TypeSplit == TypeOK <=> TablesOK /\ ControlOK /\ LocalsOK
BY DEF TypeOK, TablesOK, ControlOK, LocalsOK

LEMMA PrimedTypeSplit == TypeOK' <=> TablesOK' /\ ControlOK' /\ LocalsOK'
BY DEF TypeOK, TablesOK, ControlOK, LocalsOK

LEMMA NoRequestIsNone == NoRequest \notin Request
BY QuestionAssumption DEF Request

LEMMA TailType ==
  ASSUME NEW S, NEW s \in Seq(S), s # <<>>
  PROVE  /\ Tail(s) \in Seq(S)
         /\ Len(s) = 1 <=> Tail(s) = <<>>
<1>1. Tail(s) \in Seq(S) /\ Len(Tail(s)) = Len(s) - 1 /\ Len(s) \in Nat
  BY HeadTailProperties, LenProperties
<1>2. Tail(s) = <<>> <=> Len(Tail(s)) = 0
  BY <1>1, EmptySeq
<1> QED BY <1>1, <1>2

LEMMA TailTwice ==
  ASSUME NEW S, NEW s \in Seq(S), Len(s) > 2
  PROVE  Tail(Tail(s)) \in Seq(S) /\ Tail(Tail(s)) # <<>>
<1>1. s # <<>> /\ Len(s) \in Nat
  BY EmptySeq, LenProperties
<1>2. Tail(s) \in Seq(S) /\ Len(Tail(s)) = Len(s) - 1
  BY <1>1, HeadTailProperties
<1>3. Len(Tail(s)) # 1 /\ Len(Tail(s)) # 0
  BY <1>1, <1>2, SMTT(30)
<1>4. Tail(s) # <<>>
  BY <1>3, EmptySeq
<1> QED
  <2> DEFINE t == Tail(s)
  <2>1. t \in Seq(S) /\ t # <<>> /\ Len(t) # 1
    BY <1>2, <1>3, <1>4
  <2> HIDE DEF t
  <2>2. Tail(t) \in Seq(S) /\ Tail(t) # <<>>
    BY <2>1, TailType
  <2> QED BY <2>2 DEF t

LEMMA AdvanceControl ==
  ASSUME ControlOK, NEW h \in Handlers, Busy(h), Advance(h)
  PROVE  ControlOK'
<1>1. todo[h] \in Seq(Statements) /\ todo[h] # <<>>
  BY DEF ControlOK, Busy
<1>2. /\ Tail(todo[h]) \in Seq(Statements)
      /\ Len(todo[h]) = 1 <=> Tail(todo[h]) = <<>>
  BY <1>1, TailType
<1>3. todo' \in [Handlers -> Seq(Statements)]
  BY <1>2 DEF ControlOK, Advance
<1>4. req' \in [Handlers -> Request \cup {NoRequest}]
  BY DEF ControlOK, Advance
<1>5. ASSUME NEW g \in Handlers PROVE (Busy(g) <=> req[g] # NoRequest)'
  BY <1>2 DEF ControlOK, Advance, Busy
<1> QED BY <1>3, <1>4, <1>5 DEF ControlOK

LEMMA ReturnControl ==
  ASSUME ControlOK, NEW h \in Handlers, Return(h)
  PROVE  ControlOK'
BY DEF ControlOK, Return, Busy

LEMMA ReturnLocals ==
  ASSUME LocalsOK, NEW h \in Handlers, Return(h)
  PROVE  LocalsOK'
<1>1. 0 \in 0..Cardinality(Questions)
  BY QuestionAssumption, FS_CardinalityType
<1>2. "pending" \in Statuses
  BY DEF Statuses
<1>3. NothingSeen \in [pinned : BOOLEAN, hidden : BOOLEAN]
  BY DEF NothingSeen
<1>4. NothingPlanned \in [unread : SUBSET Tags, drop : SUBSET Tags,
                          create : SUBSET Tags, enable : SUBSET Tags,
                          refresh : SUBSET Tags, counted : SUBSET Tags]
  BY DEF NothingPlanned
<1> QED BY <1>1, <1>2, <1>3, <1>4 DEF LocalsOK, Return

\* A number of questions is a count a table can hold.
LEMMA CountType ==
  ASSUME NEW S \in SUBSET Questions
  PROVE  Cardinality(S) \in 0..Cardinality(Questions)
BY QuestionAssumption, FS_Subset, FS_CardinalityType

-----------------------------------------------------------------------------
(* Types *)

\* What a statement that goes on to the next one leaves in order.
LEMMA InitTypes == Init => TypeOK
<1> SUFFICES ASSUME Init PROVE TypeOK
  OBVIOUS
<1>1. ControlOK
  BY NoRequestIsNone DEF Init, ControlOK, Busy
<1>2. LocalsOK
  <2>1. 0 \in 0..Cardinality(Questions)
    BY QuestionAssumption, FS_CardinalityType
  <2> QED BY <2>1 DEF Init, LocalsOK, NothingSeen, NothingPlanned, Statuses
<1>3. TablesOK
  <2>1. \A t \in Tags : Cardinality({q \in Questions : t \in InitialTags[q]})
                          \in 0..Cardinality(Questions)
    BY CountType
  <2>2. \A u \in Users :
          Cardinality({q \in Questions : Owner[q] = u /\ InitialTags[q] # {}})
            \in 0..Cardinality(Questions)
    BY CountType
  <2>3. received \in 0..MaxRequests
    BY QuestionAssumption DEF Init
  <2>4. /\ tagCount \in [Tags -> 0..Cardinality(Questions)]
        /\ userCount \in [Users -> 0..Cardinality(Questions)]
    BY <2>1, <2>2 DEF Init
  <2>5. /\ status \in [Questions -> Statuses \cup {"none"}]
        /\ pinned \in [Questions -> BOOLEAN]
        /\ hidden \in [Questions -> BOOLEAN]
        /\ rel \in [Questions -> [Tags -> RelStatuses \cup {"none"}]]
        /\ review \in [Questions -> ReviewStatuses \cup {"none"}]
    BY DEF Init, Statuses, RelStatuses, ReviewStatuses
  <2>6. /\ overtaken \subseteq Questions /\ unqueued \subseteq Questions
        /\ revived \subseteq Questions
    BY DEF Init
  <2> QED BY <2>3, <2>4, <2>5, <2>6 DEF TablesOK
<1> QED BY <1>1, <1>2, <1>3, TypeSplit

\* What a handler serves while it is busy.
LEMMA Serves ==
  ASSUME ControlOK, NEW h \in Handlers, Busy(h)
  PROVE  /\ req[h] \in Request
         /\ req[h].op \in Operations /\ req[h].q \in Questions
         /\ req[h].tags \in SUBSET Tags /\ req[h].to \in Statuses
BY DEF ControlOK, Request

LEMMA ReceiveTypes ==
  ASSUME TypeOK, NEW h \in Handlers, NEW r \in Request, Receive(h, r)
  PROVE  TypeOK'
<1> USE TypeSplit
<1>1. ControlOK'
  <2>1. Program(r) \in Seq(Statements) /\ Program(r) # <<>>
    BY ProgramType
  <2> QED BY <2>1, NoRequestIsNone DEF ControlOK, Receive, Busy
<1>2. LocalsOK'
  BY DEF LocalsOK, Receive, locals
<1>3. TablesOK'
  BY QuestionAssumption DEF TablesOK, Receive, question, counters, history
<1> QED BY <1>1, <1>2, <1>3, PrimedTypeSplit

LEMMA RefuseTypes ==
  ASSUME TypeOK, NEW h \in Handlers, Refuse(h)
  PROVE  TypeOK'
<1>0. Busy(h)
  BY DEF Refuse, At
<1>1. ControlOK'
  BY <1>0, TypeSplit, ReturnControl DEF Refuse
<1>2. LocalsOK'
  BY TypeSplit, ReturnLocals DEF Refuse
<1>3. TablesOK'
  BY TypeSplit DEF Refuse, TablesOK, question, counters, history
<1> QED BY <1>1, <1>2, <1>3, PrimedTypeSplit

LEMMA ReadQuestionTypes ==
  ASSUME TypeOK, NEW h \in Handlers, ReadQuestion(h)
  PROVE  TypeOK'
<1>0. Busy(h)
  BY DEF ReadQuestion, At
<1>1. ControlOK'
  BY <1>0, TypeSplit, AdvanceControl DEF ReadQuestion
<1>2. LocalsOK'
  <2>1. /\ req[h].q \in Questions
        /\ pinned[req[h].q] \in BOOLEAN /\ hidden[req[h].q] \in BOOLEAN
    BY <1>0, TypeSplit, Serves DEF TablesOK
  <2>2. [pinned |-> pinned[req[h].q], hidden |-> hidden[req[h].q]]
          \in [pinned : BOOLEAN, hidden : BOOLEAN]
    BY <2>1
  <2> QED BY <2>2, TypeSplit DEF ReadQuestion, LocalsOK
<1>3. TablesOK'
  BY TypeSplit DEF ReadQuestion, TablesOK, question, counters, history
<1> QED BY <1>1, <1>2, <1>3, PrimedTypeSplit

LEMMA InsertQuestionTypes ==
  ASSUME TypeOK, NEW h \in Handlers, InsertQuestion(h)
  PROVE  TypeOK'
<1>0. Busy(h)
  BY DEF InsertQuestion, At
<1>1. ControlOK'
  BY <1>0, TypeSplit, AdvanceControl DEF InsertQuestion
<1>2. LocalsOK'
  BY TypeSplit DEF InsertQuestion, LocalsOK, locals
<1>3. TablesOK'
  <2>1. "pending" \in Statuses \cup {"none"}
    BY DEF Statuses
  <2> QED BY <2>1, TypeSplit DEF InsertQuestion, TablesOK, counters, history
<1> QED BY <1>1, <1>2, <1>3, PrimedTypeSplit

LEMMA QueueReviewTypes ==
  ASSUME TypeOK, NEW h \in Handlers, NEW v \in Verdicts, QueueReview(h, v)
  PROVE  TypeOK'
<1>0. Busy(h)
  BY DEF QueueReview, At
<1>1. ControlOK'
  BY <1>0, TypeSplit, AdvanceControl DEF QueueReview
<1>2. LocalsOK'
  <2>1. v \in {"approved", "needReview", "deleteDirectly"}
    BY QuestionAssumption
  <2>2. StatusOf(v) \in Statuses
    BY <2>1 DEF StatusOf, Statuses
  <2> QED BY <2>2, TypeSplit DEF QueueReview, LocalsOK
<1>3. TablesOK'
  <2>1. "pending" \in ReviewStatuses \cup {"none"}
    BY DEF ReviewStatuses
  <2>2. review' \in [Questions -> ReviewStatuses \cup {"none"}]
    BY <2>1, TypeSplit DEF QueueReview, TablesOK
  <2>3. req[h].q \in Questions
    BY <1>0, TypeSplit, Serves
  <2>4. unqueued' \subseteq Questions
    BY <2>3, TypeSplit DEF QueueReview, TablesOK
  <2> QED BY <2>2, <2>4, TypeSplit DEF QueueReview, TablesOK, question, counters
<1> QED BY <1>1, <1>2, <1>3, PrimedTypeSplit

LEMMA ReadReviewTypes ==
  ASSUME TypeOK, NEW h \in Handlers, ReadReview(h)
  PROVE  TypeOK'
<1>0. Busy(h)
  BY DEF ReadReview, At
<1>1. ControlOK'
  <2>1. CASE review[req[h].q] = "pending"
    BY <2>1, <1>0, TypeSplit, AdvanceControl DEF ReadReview
  <2>2. CASE review[req[h].q] # "pending"
    BY <2>2, TypeSplit, ReturnControl DEF ReadReview
  <2> QED BY <2>1, <2>2
<1>2. LocalsOK'
  <2>1. CASE review[req[h].q] = "pending"
    BY <2>1, TypeSplit DEF ReadReview, LocalsOK, locals
  <2>2. CASE review[req[h].q] # "pending"
    BY <2>2, TypeSplit, ReturnLocals DEF ReadReview
  <2> QED BY <2>1, <2>2
<1>3. TablesOK'
  BY TypeSplit DEF ReadReview, TablesOK, question, counters, history
<1> QED BY <1>1, <1>2, <1>3, PrimedTypeSplit

LEMMA SetStatusTypes ==
  ASSUME TypeOK, NEW h \in Handlers, SetStatus(h)
  PROVE  TypeOK'
<1>0. Busy(h)
  BY DEF SetStatus, At
<1>1. ControlOK'
  BY <1>0, TypeSplit, AdvanceControl DEF SetStatus
<1>2. LocalsOK'
  <2>1. "pending" \in Statuses
    BY DEF Statuses
  <2> QED BY <2>1, TypeSplit DEF SetStatus, LocalsOK
<1>3. TablesOK'
  <2>1. req[h].to \in Statuses /\ verdict[h] \in Statuses
    BY <1>0, TypeSplit, Serves DEF LocalsOK
  <2>2. NewStatus(h) \in Statuses
    BY <2>1 DEF NewStatus, Statuses
  <2>3. req[h].q \in Questions
    BY <1>0, TypeSplit, Serves
  <2>4. overtaken' \subseteq Questions /\ revived' \subseteq Questions
    BY <2>3, TypeSplit DEF SetStatus, TablesOK
  <2> QED BY <2>2, <2>4, TypeSplit DEF SetStatus, TablesOK, counters
<1> QED BY <1>1, <1>2, <1>3, PrimedTypeSplit

LEMMA CloseReviewTypes ==
  ASSUME TypeOK, NEW h \in Handlers, CloseReview(h)
  PROVE  TypeOK'
<1>0. Busy(h)
  BY DEF CloseReview, At
<1>1. ControlOK'
  BY <1>0, TypeSplit, AdvanceControl DEF CloseReview
<1>2. LocalsOK'
  BY TypeSplit DEF CloseReview, LocalsOK, locals
<1>3. TablesOK'
  <2>1. {"approved", "rejected"} \subseteq ReviewStatuses
    BY DEF ReviewStatuses
  <2> QED BY <2>1, TypeSplit DEF CloseReview, TablesOK, question, counters, history
<1> QED BY <1>1, <1>2, <1>3, PrimedTypeSplit

LEMMA SaveOperationTypes ==
  ASSUME TypeOK, NEW h \in Handlers, SaveOperation(h)
  PROVE  TypeOK'
<1>0. Busy(h)
  BY DEF SaveOperation, At
<1>1. ControlOK'
  BY <1>0, TypeSplit, AdvanceControl DEF SaveOperation
<1>2. LocalsOK'
  <2>1. NothingSeen \in [pinned : BOOLEAN, hidden : BOOLEAN]
    BY DEF NothingSeen
  <2> QED BY <2>1, TypeSplit DEF SaveOperation, LocalsOK
<1>3. TablesOK'
  <2>1. seen[h].pinned \in BOOLEAN /\ seen[h].hidden \in BOOLEAN
    BY TypeSplit DEF LocalsOK
  <2>2. NowPinned(h) \in BOOLEAN /\ NowHidden(h) \in BOOLEAN
    BY <2>1 DEF NowPinned, NowHidden
  <2> QED BY <2>2, TypeSplit DEF SaveOperation, TablesOK, counters, history
<1> QED BY <1>1, <1>2, <1>3, PrimedTypeSplit

\* The plans a handler can have.
Plans == [unread : SUBSET Tags, drop : SUBSET Tags, create : SUBSET Tags,
          enable : SUBSET Tags, refresh : SUBSET Tags, counted : SUBSET Tags]

LEMMA PlanType ==
  ASSUME LocalsOK, NEW h \in Handlers
  PROVE  plan[h] \in Plans /\ plan \in [Handlers -> Plans]
BY DEF LocalsOK, Plans

\* A new plan and a new tally keep the locals in order.
LEMMA PlanLocals ==
  ASSUME LocalsOK, NEW h \in Handlers, NEW x \in Plans,
         NEW n \in 0..Cardinality(Questions),
         plan' = [plan EXCEPT ![h] = x], UNCHANGED <<seen, verdict>>,
         tally' = tally \/ tally' = [tally EXCEPT ![h] = n]
  PROVE  LocalsOK'
BY DEF LocalsOK, Plans

LEMMA ZeroCount == 0 \in 0..Cardinality(Questions)
BY QuestionAssumption, FS_CardinalityType

\* Setting rows keeps the tables in order.
LEMMA SetRelTables ==
  ASSUME TablesOK, NEW q \in Questions, NEW ts \in SUBSET Tags, NEW st \in RelStatuses,
         SetRel(q, ts, st), revived' \subseteq revived,
         UNCHANGED <<question, review, counters, received, overtaken, unqueued>>
  PROVE  TablesOK'
<1>1. rel' \in [Questions -> [Tags -> RelStatuses \cup {"none"}]]
  BY DEF TablesOK, SetRel
<1> QED BY <1>1 DEF TablesOK, question, counters

LEMMA ListedTags == ASSUME NEW q PROVE Listed(q) \in SUBSET Tags
BY DEF Listed

LEMMA ListRelsTypes ==
  ASSUME TypeOK, NEW h \in Handlers, ListRels(h)
  PROVE  TypeOK'
<1>0. Busy(h)
  BY DEF ListRels, At
<1>1. ControlOK'
  BY <1>0, TypeSplit, AdvanceControl DEF ListRels
<1>2. LocalsOK'
  <2>1. req[h].tags \in SUBSET Tags /\ Listed(req[h].q) \in SUBSET Tags
    BY <1>0, TypeSplit, Serves, ListedTags
  <2> DEFINE w == req[h].tags
             x == IF w = {} THEN [plan[h] EXCEPT !.refresh = Listed(req[h].q)]
                  ELSE [plan[h] EXCEPT !.unread = w, !.drop = Listed(req[h].q) \ w,
                                       !.refresh = Listed(req[h].q) \cup w]
  <2>2. x \in Plans
    BY <2>1, TypeSplit, PlanType DEF Plans
  <2>3. plan' = [plan EXCEPT ![h] = x]
    BY TypeSplit, PlanType DEF ListRels
  <2> HIDE DEF x
  <2>4. UNCHANGED <<seen, verdict, tally>>
    BY DEF ListRels
  <2> QED BY <2>2, <2>3, <2>4, TypeSplit, PlanLocals, ZeroCount
<1>3. TablesOK'
  BY TypeSplit DEF ListRels, TablesOK, question, counters, history
<1> QED BY <1>1, <1>2, <1>3, PrimedTypeSplit

LEMMA ReadRelTypes ==
  ASSUME TypeOK, NEW h \in Handlers, NEW t \in Tags, ReadRel(h, t)
  PROVE  TypeOK'
<1>0. Busy(h)
  BY DEF ReadRel, At
<1>1. ControlOK'
  <2>1. CASE UNCHANGED <<todo, req>>
    BY <2>1, TypeSplit DEF ControlOK, Busy
  <2>2. CASE Advance(h)
    BY <2>2, <1>0, TypeSplit, AdvanceControl
  <2> QED BY <2>1, <2>2 DEF ReadRel
<1>2. LocalsOK'
  <2> DEFINE found == rel[req[h].q][t]
             x == [plan[h] EXCEPT
                     !.unread = @ \ {t},
                     !.create = IF found = "none" THEN @ \cup {t} ELSE @,
                     !.enable = IF found \in {"hide", "deleted"} THEN @ \cup {t} ELSE @]
  <2>1. x \in Plans
    BY TypeSplit, PlanType DEF Plans
  <2>2. plan' = [plan EXCEPT ![h] = x] /\ UNCHANGED <<seen, verdict, tally>>
    BY DEF ReadRel
  <2> HIDE DEF x
  <2> QED BY <2>1, <2>2, TypeSplit, PlanLocals, ZeroCount
<1>3. TablesOK'
  BY TypeSplit DEF ReadRel, TablesOK, question, counters, history
<1> QED BY <1>1, <1>2, <1>3, PrimedTypeSplit

LEMMA DropRelsTypes ==
  ASSUME TypeOK, NEW h \in Handlers, DropRels(h)
  PROVE  TypeOK'
<1>0. Busy(h)
  BY DEF DropRels, At
<1>1. ControlOK'
  BY <1>0, TypeSplit, AdvanceControl DEF DropRels
<1>2. LocalsOK'
  <2>1. [plan[h] EXCEPT !.drop = {}] \in Plans
    BY TypeSplit, PlanType DEF Plans
  <2>2. /\ plan' = [plan EXCEPT ![h] = [plan[h] EXCEPT !.drop = {}]]
        /\ UNCHANGED <<seen, verdict, tally>>
    BY TypeSplit, PlanType DEF DropRels
  <2> QED BY <2>1, <2>2, TypeSplit, PlanLocals, ZeroCount
<1>3. TablesOK'
  <2>1. req[h].q \in Questions /\ plan[h].drop \in SUBSET Tags
    BY <1>0, TypeSplit, Serves, PlanType DEF Plans
  <2>2. "deleted" \in RelStatuses
    BY DEF RelStatuses
  <2>3. /\ SetRel(req[h].q, plan[h].drop, "deleted")
        /\ revived' \subseteq revived
        /\ UNCHANGED <<question, review, counters, received, overtaken, unqueued>>
    BY DEF DropRels, history
  <2> QED BY <2>1, <2>2, <2>3, TypeSplit, SetRelTables
<1> QED BY <1>1, <1>2, <1>3, PrimedTypeSplit

LEMMA CreateRelsTypes ==
  ASSUME TypeOK, NEW h \in Handlers, CreateRels(h)
  PROVE  TypeOK'
<1>0. Busy(h) /\ TablesOK /\ ControlOK /\ LocalsOK
  BY TypeSplit DEF CreateRels, At
<1>1. CASE \A t \in plan[h].create : rel[req[h].q][t] = "none"
  <2>1. /\ SetRel(req[h].q, plan[h].create, "available")
        /\ plan' = [plan EXCEPT ![h].create = {}]
        /\ Advance(h)
        /\ UNCHANGED <<seen, verdict, tally>>
        /\ revived' \subseteq revived
        /\ UNCHANGED <<question, review, counters, received, overtaken, unqueued>>
    BY <1>1 DEF CreateRels, history
  <2>2. ControlOK'
    BY <1>0, <2>1, AdvanceControl
  <2>3. LocalsOK'
    <3>1. [plan[h] EXCEPT !.create = {}] \in Plans
      BY <1>0, PlanType DEF Plans
    <3>2. plan' = [plan EXCEPT ![h] = [plan[h] EXCEPT !.create = {}]]
      BY <1>0, <2>1, PlanType
    <3> QED BY <3>1, <3>2, <1>0, <2>1, PlanLocals, ZeroCount
  <2>4. TablesOK'
    <3>1. req[h].q \in Questions /\ plan[h].create \in SUBSET Tags
      BY <1>0, Serves, PlanType DEF Plans
    <3>2. "available" \in RelStatuses
      BY DEF RelStatuses
    <3> QED BY <3>1, <3>2, <1>0, <2>1, SetRelTables
  <2> QED BY <2>2, <2>3, <2>4, PrimedTypeSplit
<1>2. CASE ~ \A t \in plan[h].create : rel[req[h].q][t] = "none"
  <2>1. /\ Return(h)
        /\ UNCHANGED <<rel, question, review, counters, received, history>>
    BY <1>2 DEF CreateRels, history
  <2>2. ControlOK' /\ LocalsOK'
    BY <1>0, <2>1, ReturnControl, ReturnLocals
  <2>3. TablesOK'
    BY <1>0, <2>1 DEF TablesOK, question, counters, history
  <2> QED BY <2>2, <2>3, PrimedTypeSplit
<1> QED BY <1>1, <1>2

LEMMA EnableRelsTypes ==
  ASSUME TypeOK, NEW h \in Handlers, EnableRels(h)
  PROVE  TypeOK'
<1>0. Busy(h)
  BY DEF EnableRels, At
<1>1. ControlOK'
  BY <1>0, TypeSplit, AdvanceControl DEF EnableRels
<1>2. LocalsOK'
  <2>1. [plan[h] EXCEPT !.enable = {}] \in Plans
    BY TypeSplit, PlanType DEF Plans
  <2>2. /\ plan' = [plan EXCEPT ![h] = [plan[h] EXCEPT !.enable = {}]]
        /\ UNCHANGED <<seen, verdict, tally>>
    BY TypeSplit, PlanType DEF EnableRels
  <2> QED BY <2>1, <2>2, TypeSplit, PlanLocals, ZeroCount
<1>3. TablesOK'
  <2>1. req[h].q \in Questions /\ plan[h].enable \in SUBSET Tags
    BY <1>0, TypeSplit, Serves, PlanType DEF Plans
  <2>2. "available" \in RelStatuses
    BY DEF RelStatuses
  <2>3. /\ SetRel(req[h].q, plan[h].enable, "available")
        /\ revived' \subseteq revived
        /\ UNCHANGED <<question, review, counters, received, overtaken, unqueued>>
    BY DEF EnableRels
  <2> QED BY <2>1, <2>2, <2>3, TypeSplit, SetRelTables
<1> QED BY <1>1, <1>2, <1>3, PrimedTypeSplit

LEMMA SetRelsTypes ==
  ASSUME TypeOK, NEW h \in Handlers, SetRels(h)
  PROVE  TypeOK'
<1>0. Busy(h)
  BY DEF SetRels, At
<1>1. ControlOK'
  BY <1>0, TypeSplit, AdvanceControl DEF SetRels
<1>2. LocalsOK'
  BY TypeSplit DEF SetRels, LocalsOK, locals
<1>3. TablesOK'
  <2> DEFINE q == req[h].q
             ts == {t \in Tags : rel[q][t] # "none"}
             st == IF req[h].op = "hide" THEN "hide"
                   ELSE IF req[h].op = "remove" THEN "deleted" ELSE "available"
  <2>1. q \in Questions /\ ts \in SUBSET Tags /\ st \in RelStatuses
    BY <1>0, TypeSplit, Serves DEF RelStatuses
  <2>2. /\ SetRel(q, ts, st) /\ revived' \subseteq revived
        /\ UNCHANGED <<question, review, counters, received, overtaken, unqueued>>
    BY DEF SetRels
  <2> HIDE DEF q, ts, st
  <2> QED BY <2>1, <2>2, TypeSplit, SetRelTables
<1> QED BY <1>1, <1>2, <1>3, PrimedTypeSplit

LEMMA CountTagTypes ==
  ASSUME TypeOK, NEW h \in Handlers, NEW t \in Tags, CountTag(h, t)
  PROVE  TypeOK'
<1>0. Busy(h)
  BY DEF CountTag, At
<1>1. ControlOK'
  BY TypeSplit DEF CountTag, ControlOK, Busy
<1>2. LocalsOK'
  <2>1. CountTagRel(t) \in 0..Cardinality(Questions)
    BY CountType DEF CountTagRel
  <2> DEFINE x == [plan[h] EXCEPT !.counted = {t}, !.refresh = @ \ {t}]
  <2>2. x \in Plans
    BY TypeSplit, PlanType DEF Plans
  <2>3. /\ plan' = [plan EXCEPT ![h] = x]
        /\ tally' = [tally EXCEPT ![h] = CountTagRel(t)]
        /\ UNCHANGED <<seen, verdict>>
    BY TypeSplit, PlanType DEF CountTag
  <2> HIDE DEF x
  <2> QED BY <2>1, <2>2, <2>3, TypeSplit, PlanLocals
<1>3. TablesOK'
  BY TypeSplit DEF CountTag, TablesOK, question, counters, history
<1> QED BY <1>1, <1>2, <1>3, PrimedTypeSplit

LEMMA SaveTagCountTypes ==
  ASSUME TypeOK, NEW h \in Handlers, SaveTagCount(h)
  PROVE  TypeOK'
<1>0. Busy(h)
  BY DEF SaveTagCount, At
<1>1. ControlOK'
  BY TypeSplit DEF SaveTagCount, ControlOK, Busy
<1>2. LocalsOK'
  <2>1. [plan[h] EXCEPT !.counted = {}] \in Plans
    BY TypeSplit, PlanType DEF Plans
  <2>2. /\ plan' = [plan EXCEPT ![h] = [plan[h] EXCEPT !.counted = {}]]
        /\ tally' = [tally EXCEPT ![h] = 0]
        /\ UNCHANGED <<seen, verdict>>
    BY TypeSplit, PlanType DEF SaveTagCount
  <2> QED BY <2>1, <2>2, TypeSplit, PlanLocals, ZeroCount
<1>3. TablesOK'
  <2>1. tally[h] \in 0..Cardinality(Questions)
    BY TypeSplit DEF LocalsOK
  <2> QED BY <2>1, TypeSplit DEF SaveTagCount, TablesOK, question, history
<1> QED BY <1>1, <1>2, <1>3, PrimedTypeSplit

LEMMA EndRefreshTypes ==
  ASSUME TypeOK, NEW h \in Handlers, EndRefresh(h)
  PROVE  TypeOK'
<1>0. Busy(h)
  BY DEF EndRefresh, At
<1>1. ControlOK'
  BY <1>0, TypeSplit, AdvanceControl DEF EndRefresh
<1>2. LocalsOK'
  BY TypeSplit DEF EndRefresh, LocalsOK, locals
<1>3. TablesOK'
  BY TypeSplit DEF EndRefresh, TablesOK, question, counters, history
<1> QED BY <1>1, <1>2, <1>3, PrimedTypeSplit

LEMMA CountQuestionsTypes ==
  ASSUME TypeOK, NEW h \in Handlers, CountQuestions(h)
  PROVE  TypeOK'
<1>0. Busy(h)
  BY DEF CountQuestions, At
<1>1. ControlOK'
  BY <1>0, TypeSplit, AdvanceControl DEF CountQuestions
<1>2. LocalsOK'
  <2>1. Cardinality(UserQuestions(Owner[req[h].q])) \in 0..Cardinality(Questions)
    BY CountType DEF UserQuestions
  <2> QED BY <2>1, TypeSplit DEF CountQuestions, LocalsOK
<1>3. TablesOK'
  BY TypeSplit DEF CountQuestions, TablesOK, question, counters, history
<1> QED BY <1>1, <1>2, <1>3, PrimedTypeSplit

LEMMA SaveQuestionCountTypes ==
  ASSUME TypeOK, NEW h \in Handlers, SaveQuestionCount(h)
  PROVE  TypeOK'
<1>0. Busy(h)
  BY DEF SaveQuestionCount, At
<1>1. ControlOK'
  BY <1>0, TypeSplit, AdvanceControl DEF SaveQuestionCount
<1>2. LocalsOK'
  BY TypeSplit, ZeroCount DEF SaveQuestionCount, LocalsOK
<1>3. TablesOK'
  <2>1. tally[h] \in 0..Cardinality(Questions)
    BY TypeSplit DEF LocalsOK
  <2> QED BY <2>1, TypeSplit DEF SaveQuestionCount, TablesOK, question, history
<1> QED BY <1>1, <1>2, <1>3, PrimedTypeSplit

LEMMA FailTypes ==
  ASSUME TypeOK, NEW h \in Handlers, Fail(h)
  PROVE  TypeOK'
<1>0. Busy(h)
  BY DEF Fail, At
<1>1. ControlOK'
  BY TypeSplit, ReturnControl DEF Fail
<1>2. LocalsOK'
  BY TypeSplit, ReturnLocals DEF Fail
<1>3. TablesOK'
  BY TypeSplit DEF Fail, TablesOK, question, counters, history
<1> QED BY <1>1, <1>2, <1>3, PrimedTypeSplit

LEMMA FailToleratedTypes ==
  ASSUME TypeOK, NEW h \in Handlers, FailTolerated(h)
  PROVE  TypeOK'
<1>0. Busy(h)
  BY DEF FailTolerated, At, Tolerated
<1>1. ControlOK'
  BY <1>0, TypeSplit, AdvanceControl DEF FailTolerated
<1>2. LocalsOK'
  <2>1. [plan[h] EXCEPT !.refresh = {}, !.counted = {}] \in Plans
    BY TypeSplit, PlanType DEF Plans
  <2>2. /\ \/ plan' = [plan EXCEPT ![h] = [plan[h] EXCEPT !.refresh = {}, !.counted = {}]]
           \/ plan' = plan
        /\ tally' = [tally EXCEPT ![h] = 0]
        /\ UNCHANGED <<seen, verdict>>
    BY TypeSplit, PlanType DEF FailTolerated
  <2>3. CASE plan' = plan
    BY <2>2, <2>3, TypeSplit, ZeroCount DEF LocalsOK
  <2>4. CASE plan' # plan
    BY <2>1, <2>2, <2>4, TypeSplit, PlanLocals, ZeroCount
  <2> QED BY <2>3, <2>4
<1>3. TablesOK'
  BY TypeSplit DEF FailTolerated, TablesOK, question, counters, history
<1> QED BY <1>1, <1>2, <1>3, PrimedTypeSplit

LEMMA FailToCountTypes ==
  ASSUME TypeOK, NEW h \in Handlers, FailToCount(h)
  PROVE  TypeOK'
<1>0. Busy(h)
  BY DEF FailToCount, At
<1>1. ControlOK'
  <2>1. todo[h] \in Seq(Statements) /\ todo[h] # <<>> /\ Len(todo[h]) > 2
    BY <1>0, TypeSplit DEF ControlOK, Busy, FailToCount
  <2>2. Tail(Tail(todo[h])) \in Seq(Statements) /\ Tail(Tail(todo[h])) # <<>>
    BY <2>1, TailTwice
  <2>3. /\ todo' = [todo EXCEPT ![h] = Tail(Tail(todo[h]))]
        /\ UNCHANGED req
    BY DEF FailToCount
  <2> QED BY <2>1, <2>2, <2>3, TypeSplit DEF ControlOK, Busy
<1>2. LocalsOK'
  BY TypeSplit DEF FailToCount, LocalsOK, locals
<1>3. TablesOK'
  BY TypeSplit DEF FailToCount, TablesOK, question, counters, history
<1> QED BY <1>1, <1>2, <1>3, PrimedTypeSplit

LEMMA StepTypes ==
  ASSUME TypeOK, NEW h \in Handlers, Step(h)
  PROVE  TypeOK'
<1>1. CASE Refuse(h)  BY <1>1, RefuseTypes
<1>2. CASE ReadQuestion(h)  BY <1>2, ReadQuestionTypes
<1>3. CASE InsertQuestion(h)  BY <1>3, InsertQuestionTypes
<1>4. CASE ReadReview(h)  BY <1>4, ReadReviewTypes
<1>5. CASE SetStatus(h)  BY <1>5, SetStatusTypes
<1>6. CASE CloseReview(h)  BY <1>6, CloseReviewTypes
<1>7. CASE SaveOperation(h)  BY <1>7, SaveOperationTypes
<1>8. CASE ListRels(h)  BY <1>8, ListRelsTypes
<1>9. CASE DropRels(h)  BY <1>9, DropRelsTypes
<1>10. CASE CreateRels(h)  BY <1>10, CreateRelsTypes
<1>11. CASE EnableRels(h)  BY <1>11, EnableRelsTypes
<1>12. CASE SetRels(h)  BY <1>12, SetRelsTypes
<1>13. CASE SaveTagCount(h)  BY <1>13, SaveTagCountTypes
<1>14. CASE EndRefresh(h)  BY <1>14, EndRefreshTypes
<1>15. CASE CountQuestions(h)  BY <1>15, CountQuestionsTypes
<1>16. CASE SaveQuestionCount(h)  BY <1>16, SaveQuestionCountTypes
<1>17. CASE \E v \in Verdicts : QueueReview(h, v)  BY <1>17, QueueReviewTypes
<1>18. CASE \E t \in Tags : ReadRel(h, t) \/ CountTag(h, t)
  BY <1>18, ReadRelTypes, CountTagTypes
<1> QED BY <1>1, <1>2, <1>3, <1>4, <1>5, <1>6, <1>7, <1>8, <1>9, <1>10,
           <1>11, <1>12, <1>13, <1>14, <1>15, <1>16, <1>17, <1>18 DEF Step

LEMMA NextTypes == TypeOK /\ [Next]_vars => TypeOK'
<1> SUFFICES ASSUME TypeOK, [Next]_vars PROVE TypeOK'
  OBVIOUS
<1>1. CASE UNCHANGED vars
  BY <1>1 DEF TypeOK, vars, Busy
<1>2. ASSUME NEW h \in Handlers, NEW r \in Request, Receive(h, r) PROVE TypeOK'
  BY <1>2, ReceiveTypes
<1>3. ASSUME NEW h \in Handlers, Step(h) PROVE TypeOK'
  BY <1>3, StepTypes
<1>4. ASSUME NEW h \in Handlers, Fail(h) \/ FailTolerated(h) \/ FailToCount(h)
      PROVE  TypeOK'
  BY <1>4, FailTypes, FailToleratedTypes, FailToCountTypes
<1>5. ASSUME NEW u \in Users, RemoveAllUserQuestion(u) PROVE TypeOK'
  <2>1. TablesOK'
    BY <1>5, TypeSplit, QuestionAssumption
    DEF RemoveAllUserQuestion, TablesOK, counters, Statuses
  <2>2. ControlOK' /\ LocalsOK'
    BY <1>5, TypeSplit DEF RemoveAllUserQuestion, ControlOK, LocalsOK, locals, Busy
  <2> QED BY <2>1, <2>2, PrimedTypeSplit
<1> QED BY <1>1, <1>2, <1>3, <1>4, <1>5 DEF Next

\* Every reachable state is well typed: in particular the saved counts never
\* exceed the number of questions, and a handler serves a request exactly as
\* long as it has statements left.
THEOREM TypeCorrect == Spec => []TypeOK
<1>1. Init => TypeOK
  BY InitTypes
<1>2. TypeOK /\ [Next]_vars => TypeOK'
  BY NextTypes
<1> QED BY <1>1, <1>2, PTL DEF Spec

-----------------------------------------------------------------------------
(* Pinned questions are listed *)

\* What handlers have read of a row that others write since then: the pair
\* was possible when it was read, and the check made on it is not undone.
ReadPairs ==
  \A h \in Handlers :
    /\ ~(seen[h].pinned /\ seen[h].hidden)
    /\ Busy(h) /\ Head(todo[h]) # "read" =>
         /\ req[h].op = "pin" => ~seen[h].hidden
         /\ req[h].op = "hide" => ~seen[h].pinned

ListingInv == TypeOK /\ PinnedNotHidden /\ ReadPairs

LEMMA InitListing == Init => ListingInv
BY InitTypes DEF Init, ListingInv, PinnedNotHidden, ReadPairs, NothingSeen, Busy

\* The request of a busy handler stays as long as it is busy.
LEMMA AdvanceKeeps ==
  ASSUME TypeOK, NEW h \in Handlers, Busy(h), Advance(h)
  PROVE  /\ Busy(h)' => req'[h] = req[h]
         /\ \A g \in Handlers \ {h} : todo'[g] = todo[g] /\ req'[g] = req[g]
<1>1. todo[h] \in Seq(Statements) /\ todo[h] # <<>> /\ todo'[h] = Tail(todo[h])
  BY DEF TypeOK, Busy, Advance
<1>2. Len(todo[h]) = 1 => Tail(todo[h]) = <<>>
  BY <1>1, TailType
<1> QED BY <1>1, <1>2 DEF TypeOK, Busy, Advance

\* Nothing changes for the property when a handler that has read nothing new
\* goes on, returns or stays where it is.
LEMMA OtherStep ==
  ASSUME ListingInv, NEW h \in Handlers, UNCHANGED <<pinned, hidden>>,
         \/ Busy(h) /\ Head(todo[h]) # "read" /\ Advance(h) /\ UNCHANGED seen
         \/ Return(h)
         \/ UNCHANGED <<todo, req, seen>>
  PROVE  PinnedNotHidden' /\ ReadPairs'
<1>0. TypeOK /\ PinnedNotHidden /\ ReadPairs
  BY DEF ListingInv
<1>1. PinnedNotHidden'
  BY <1>0 DEF PinnedNotHidden
<1>2. CASE Busy(h) /\ Head(todo[h]) # "read" /\ Advance(h) /\ UNCHANGED seen
  BY <1>0, <1>1, <1>2, AdvanceKeeps DEF ReadPairs, Busy
<1>3. CASE Return(h)
  <2>1. todo'[h] = <<>> /\ seen'[h] = NothingSeen
    BY <1>0, <1>3 DEF TypeOK, Return
  <2>2. \A g \in Handlers \ {h} :
          todo'[g] = todo[g] /\ req'[g] = req[g] /\ seen'[g] = seen[g]
    BY <1>0, <1>3 DEF TypeOK, Return
  <2> QED BY <1>0, <1>1, <2>1, <2>2 DEF ReadPairs, Busy, NothingSeen
<1>4. CASE UNCHANGED <<todo, req, seen>>
  BY <1>0, <1>1, <1>4 DEF ReadPairs, Busy
<1> QED BY <1>2, <1>3, <1>4

LEMMA ReceiveListing ==
  ASSUME ListingInv, NEW h \in Handlers, NEW r \in Request, Receive(h, r)
  PROVE  PinnedNotHidden' /\ ReadPairs'
<1>0. TypeOK /\ PinnedNotHidden /\ ReadPairs
  BY DEF ListingInv
<1>1. PinnedNotHidden' /\ seen' = seen
  BY <1>0 DEF PinnedNotHidden, Receive, question, locals
<1>2. todo'[h] = Program(r) /\ req'[h] = r
  BY <1>0 DEF TypeOK, Receive
<1>3. r.op \in ListOperations => Head(Program(r)) = "read"
  BY ProgramType
<1>4. \A g \in Handlers \ {h} : todo'[g] = todo[g] /\ req'[g] = req[g]
  BY <1>0 DEF TypeOK, Receive
<1> QED BY <1>0, <1>1, <1>2, <1>3, <1>4 DEF ReadPairs, Busy, ListOperations

LEMMA ReadListing ==
  ASSUME ListingInv, NEW h \in Handlers, ReadQuestion(h)
  PROVE  PinnedNotHidden' /\ ReadPairs'
<1>0. TypeOK /\ PinnedNotHidden /\ ReadPairs /\ Busy(h)
  BY DEF ListingInv, ReadQuestion, At
<1>1. PinnedNotHidden'
  BY <1>0 DEF PinnedNotHidden, ReadQuestion, question
<1>2. Advance(h) /\ ~Refused(req[h])
  BY DEF ReadQuestion
<1>3. req[h].q \in Questions
  BY <1>0, TypeSplit, Serves
<1>4. CASE req[h].op \in ListOperations
  <2>1. /\ seen'[h] = [pinned |-> pinned[req[h].q], hidden |-> hidden[req[h].q]]
        /\ \A g \in Handlers \ {h} : seen'[g] = seen[g]
    BY <1>0, <1>4 DEF TypeOK, ReadQuestion
  <2>2. ~(seen'[h].pinned /\ seen'[h].hidden)
    BY <1>0, <1>3, <2>1 DEF PinnedNotHidden
  <2>3. /\ req[h].op = "pin" => ~seen'[h].hidden
        /\ req[h].op = "hide" => ~seen'[h].pinned
    BY <1>2, <2>1 DEF Refused
  <2> QED BY <1>0, <1>1, <1>2, <2>1, <2>2, <2>3, AdvanceKeeps DEF ReadPairs, Busy
<1>5. CASE req[h].op \notin ListOperations
  <2>1. seen' = seen
    BY <1>5 DEF ReadQuestion
  <2> QED BY <1>0, <1>1, <1>2, <1>5, <2>1, AdvanceKeeps
          DEF ReadPairs, Busy, ListOperations
<1> QED BY <1>4, <1>5

LEMMA SaveListing ==
  ASSUME ListingInv, NEW h \in Handlers, SaveOperation(h)
  PROVE  PinnedNotHidden' /\ ReadPairs'
<1>0. /\ TypeOK /\ PinnedNotHidden /\ ReadPairs /\ Busy(h)
      /\ Head(todo[h]) = "saveOperation" /\ Advance(h)
  BY DEF ListingInv, SaveOperation, At
<1>1. ~(NowPinned(h) /\ NowHidden(h))
  BY <1>0 DEF ReadPairs, NowPinned, NowHidden
<1>2. PinnedNotHidden'
  BY <1>0, <1>1 DEF PinnedNotHidden, SaveOperation, TypeOK
<1>3. /\ seen'[h] = NothingSeen
      /\ \A g \in Handlers \ {h} : seen'[g] = seen[g]
  BY <1>0 DEF SaveOperation, TypeOK
<1> QED BY <1>0, <1>2, <1>3, AdvanceKeeps DEF ReadPairs, Busy, NothingSeen

LEMMA StepListing ==
  ASSUME ListingInv, NEW h \in Handlers,
         Step(h) \/ Fail(h) \/ FailTolerated(h) \/ FailToCount(h)
  PROVE  PinnedNotHidden' /\ ReadPairs'
<1>1. CASE ReadQuestion(h)  BY <1>1, ReadListing
<1>2. CASE SaveOperation(h)  BY <1>2, SaveListing
<1>3. CASE Refuse(h) \/ Fail(h)
  BY <1>3, OtherStep DEF Refuse, Fail, question
<1>4. CASE ReadReview(h)
  BY <1>4, OtherStep DEF ReadReview, At, question, locals
<1>5. CASE CreateRels(h)
  BY <1>5, OtherStep DEF CreateRels, At, question
<1>6. CASE \E v \in Verdicts : QueueReview(h, v)
  BY <1>6, OtherStep DEF QueueReview, At, question
<1>7. CASE \E t \in Tags : ReadRel(h, t) \/ CountTag(h, t)
  BY <1>7, OtherStep DEF ReadRel, CountTag, At, question
<1>8. CASE SaveTagCount(h)
  BY <1>8, OtherStep DEF SaveTagCount, question
<1>9. CASE FailToCount(h)
  <2>0. TypeOK /\ PinnedNotHidden /\ ReadPairs /\ Busy(h) /\ Head(todo[h]) # "read"
    BY <1>9 DEF ListingInv, FailToCount, At
  <2>1. PinnedNotHidden' /\ seen' = seen /\ req' = req
    BY <1>9, <2>0 DEF FailToCount, PinnedNotHidden, question, locals
  <2>2. \A g \in Handlers \ {h} : todo'[g] = todo[g]
    BY <1>9, <2>0 DEF FailToCount, TypeOK
  <2> QED BY <2>0, <2>1, <2>2 DEF ReadPairs, Busy
<1>10. CASE InsertQuestion(h)
  BY <1>10, OtherStep DEF InsertQuestion, At, locals
<1>11. CASE SetStatus(h)
  BY <1>11, OtherStep DEF SetStatus, At
<1>12. CASE CloseReview(h)
  BY <1>12, OtherStep DEF CloseReview, At, question, locals
<1>13. CASE ListRels(h)
  BY <1>13, OtherStep DEF ListRels, At, question
<1>14. CASE DropRels(h)
  BY <1>14, OtherStep DEF DropRels, At, question
<1>15. CASE EnableRels(h)
  BY <1>15, OtherStep DEF EnableRels, At, question
<1>16. CASE SetRels(h)
  BY <1>16, OtherStep DEF SetRels, At, question, locals
<1>17. CASE EndRefresh(h)
  BY <1>17, OtherStep DEF EndRefresh, At, question, locals
<1>18. CASE CountQuestions(h)
  BY <1>18, OtherStep DEF CountQuestions, At, question
<1>19. CASE SaveQuestionCount(h)
  BY <1>19, OtherStep DEF SaveQuestionCount, At, question
<1>20. CASE FailTolerated(h)
  BY <1>20, OtherStep DEF FailTolerated, At, question, Tolerated
<1> QED BY <1>1, <1>2, <1>3, <1>4, <1>5, <1>6, <1>7, <1>8, <1>9, <1>10,
           <1>11, <1>12, <1>13, <1>14, <1>15, <1>16, <1>17, <1>18, <1>19,
           <1>20 DEF Step

LEMMA NextListing == ListingInv /\ [Next]_vars => ListingInv'
<1> SUFFICES ASSUME ListingInv, [Next]_vars PROVE PinnedNotHidden' /\ ReadPairs'
  BY NextTypes DEF ListingInv
<1>1. CASE UNCHANGED vars
  BY <1>1 DEF ListingInv, PinnedNotHidden, ReadPairs, Busy, vars
<1>2. ASSUME NEW h \in Handlers, NEW r \in Request, Receive(h, r)
      PROVE  PinnedNotHidden' /\ ReadPairs'
  BY <1>2, ReceiveListing
<1>3. ASSUME NEW h \in Handlers,
             Step(h) \/ Fail(h) \/ FailTolerated(h) \/ FailToCount(h)
      PROVE  PinnedNotHidden' /\ ReadPairs'
  BY <1>3, StepListing
<1>4. ASSUME NEW u \in Users, RemoveAllUserQuestion(u)
      PROVE  PinnedNotHidden' /\ ReadPairs'
  BY <1>4 DEF RemoveAllUserQuestion, ListingInv, PinnedNotHidden, ReadPairs, Busy, locals
<1> QED BY <1>1, <1>2, <1>3, <1>4 DEF Next

\* No question is at the top and unlisted at once, however many handlers pin,
\* unpin, list and unlist it on the strength of stale reads, and whatever
\* fails: both columns are always written together.
THEOREM PinnedNeverHidden == Spec => []PinnedNotHidden
<1>1. Init => ListingInv
  BY InitListing
<1>2. ListingInv /\ [Next]_vars => ListingInv'
  BY NextListing
<1>3. ListingInv => PinnedNotHidden
  BY DEF ListingInv
<1> QED BY <1>1, <1>2, <1>3, PTL DEF Spec

-----------------------------------------------------------------------------
(***************************************************************************)
(* What holds as long as requests come one by one and none fails: the     *)
(* counters and the tags of a question.  Settling says it of every state,  *)
(* also while a request is served: which tables its statements have       *)
(* written by then (Written, Tagging), what it has planned (TagsPlanned),  *)
(* and which counts it still owes (Off, Owes).  AllChained, which needs no *)
(* such condition, says what is left of a program.                         *)
(***************************************************************************)

(* What the statements of an operation are, and in which order they come. *)
Uses(op, x) ==
  /\ x \in Statements
  /\ x \in {"insert", "queueReview"} => op = "add"
  /\ x \in {"readReview", "closeReview"} => op \in Decisions
  /\ x \in {"readRels", "dropRels", "createRels", "enableRels"} => op \in TagOperations
  /\ x = "listRels" => op \in TagOperations \cup {"remove", "recover", "hide", "show"}
  /\ x = "refreshTags" => op \in TagOperations \cup {"remove", "recover", "hide", "show"}
  /\ x = "setRels" => op \in {"remove", "recover", "hide", "show"}
  /\ x \in {"countQuestions", "saveQuestions"} => op \in Decisions \cup {"add", "remove", "recover"}
  /\ x = "setStatus" =>
       op \in Decisions \cup {"add", "remove", "recover", "close", "reopen", "adminSet"}
  /\ x = "saveOperation" => op \in ListOperations
  /\ x = "read" => op \in ListOperations \cup {"edit", "remove", "recover"}

First(op, x) ==
  /\ op = "add" => x = "insert"
  /\ op = "applyEdit" => x = "listRels"
  /\ op \in Decisions => x = "readReview"
  /\ op \in {"close", "reopen", "adminSet"} => x = "setStatus"
  /\ op \in ListOperations \cup {"edit", "remove", "recover"} => x = "read"

Linked(op, x, y) ==
  /\ x = "read" =>
       y = IF op = "edit" THEN "listRels"
           ELSE IF op \in {"remove", "recover"} THEN "setStatus"
           ELSE IF op \in {"hide", "show"} THEN "setRels" ELSE "saveOperation"
  /\ x = "insert" => y = "queueReview"
  /\ x \in {"queueReview", "readReview"} => y = "setStatus"
  /\ x = "setStatus" => y = IF op = "add" THEN "listRels" ELSE "countQuestions"
  /\ x = "listRels" => y = IF op \in TagOperations THEN "readRels"
                           ELSE IF op = "remove" THEN "setRels" ELSE "refreshTags"
  /\ x = "readRels" => y = "dropRels"
  /\ x = "dropRels" => y = "createRels"
  /\ x = "createRels" => y = "enableRels"
  /\ x = "enableRels" => y = "refreshTags"
  /\ x = "setRels" => y = IF op = "remove" THEN "refreshTags" ELSE "listRels"
  /\ x = "refreshTags" => y = IF op = "add" THEN "countQuestions" ELSE "saveOperation"
  /\ x = "countQuestions" => y = "saveQuestions"
  /\ x = "saveQuestions" => y = IF op = "remove" THEN "listRels"
                                ELSE IF op = "recover" THEN "setRels" ELSE "closeReview"
  /\ x \notin {"closeReview", "saveOperation"}

Last(op, x) ==
  /\ op = "add" => x = "saveQuestions"
  /\ op \in {"edit", "applyEdit", "remove", "recover"} => x = "refreshTags"
  /\ op \in ListOperations => x = "saveOperation"
  /\ op \in Decisions => x = "closeReview"
  /\ op \in {"close", "reopen", "adminSet"} => x = "setStatus"

\* s is what an operation may have left of its statements.
Chained(op, s) ==
  /\ \A i \in 1..Len(s) : Uses(op, s[i])
  /\ \A i \in 1..(Len(s) - 1) : Linked(op, s[i], s[i + 1])
  /\ Last(op, s[Len(s)])

\* No operation is requested that writes the status whatever it was.
StatusKept == Operations \cap {"close", "reopen", "adminSet", "removeAll"} = {}

HasRow(q) == status[q] # "none" => \E t \in Tags : rel[q][t] # "none"
Tagged(q) == status[q] \notin {"none", "deleted"} /\ q \notin revived => Listed(q) # {}

Planned == {"readRels", "dropRels", "createRels", "enableRels", "refreshTags"}

\* Nothing is left to do with any tag.
Blank(p) == p.create = {} /\ p.enable = {} /\ p.refresh = {} /\ p.counted = {}

\* The tags that h may have left with a wrong count.
Off(h) ==
  {t \in Tags :
     \/ t \in plan[h].refresh \cup plan[h].counted
     \/ /\ Busy(h) /\ Head(todo[h]) = "listRels"
        /\ req[h].op \in {"recover", "hide", "show"} /\ t \in Listed(req[h].q)}

\* The user whose questions h is to count.
Owes(h, u) ==
  /\ Busy(h) /\ u = Owner[req[h].q]
  /\ \/ Head(todo[h]) \in {"countQuestions", "saveQuestions"}
     \/ req[h].op = "add" /\ Head(todo[h]) \notin {"insert", "queueReview", "setStatus"}

Written(h) ==
  LET q == req[h].q   op == req[h].op   x == Head(todo[h]) IN
  /\ op # "add" => HasRow(q) /\ status[q] # "none"
  /\ op = "add" /\ x \in {"insert", "queueReview", "setStatus"} => status[q] \in {"none", "pending"}
  /\ op = "remove" /\ x \notin {"read", "setStatus"} => status[q] = "deleted"

Tagging(h) ==
  LET q == req[h].q   op == req[h].op   x == Head(todo[h])   p == plan[h]   w == req[h].tags IN
  /\ \/ op \in Decisions \cup {"close", "reopen", "adminSet"}
     \/ x \in {"read", "saveOperation"}
     => Tagged(q)
  /\ op \in {"recover", "hide", "show"} /\ x \in {"listRels", "refreshTags"} => Listed(q) # {}
  /\ x \in {"readRels", "dropRels", "createRels", "enableRels"} =>
       /\ p.drop \cap w = {} /\ p.unread \cup p.create \subseteq w
       /\ \A t \in w : t \in p.unread \cup p.create \cup p.enable \/ rel[q][t] = "available"
       /\ \A t \in p.create : rel[q][t] = "none"
       /\ x # "readRels" => p.unread = {}
       /\ x = "enableRels" => p.create = {}
  /\ op \in TagOperations /\ x \in {"refreshTags", "countQuestions", "saveQuestions"} =>
       \A t \in w : rel[q][t] = "available"

TagsPlanned(h) ==
  LET q == req[h].q   op == req[h].op   x == Head(todo[h])   p == plan[h] IN
  /\ x \notin Planned /\ ~(x = "setRels" /\ op = "remove") => Blank(p)
  /\ x # "refreshTags" => p.counted = {}
  /\ x \in {"setRels", "refreshTags"} => p.create = {} /\ p.enable = {}
  /\ \A t \in p.counted : tally[h] = CountTagRel(t)
  /\ x = "setRels" /\ op = "remove" => Listed(q) \subseteq p.refresh
  /\ x \in {"readRels", "dropRels", "createRels", "enableRels"} =>
       p.unread \cup p.drop \cup p.create \cup p.enable \subseteq p.refresh
  /\ x = "saveQuestions" => tally[h] = Cardinality(UserQuestions(Owner[q]))

Alone == \A g, h \in Handlers : Busy(g) /\ Busy(h) => g = h

Settling ==
  /\ Alone
  /\ \A h \in Handlers :
       /\ Busy(h) => Written(h) /\ Tagging(h) /\ TagsPlanned(h)
       /\ ~Busy(h) => Blank(plan[h])
  /\ \A q \in Questions : (\A h \in Handlers : Busy(h) => req[h].q # q) =>
       HasRow(q) /\ Tagged(q)
  /\ \A t \in Tags : tagCount[t] = CountTagRel(t) \/ \E h \in Handlers : t \in Off(h)
  /\ StatusKept => \A u \in Users :
       userCount[u] = Cardinality(UserQuestions(u)) \/ \E h \in Handlers : Owes(h, u)

AllChained == \A h \in Handlers : Busy(h) => Chained(req[h].op, todo[h])

SettleInv == clean => Settling

(* Sequences of statements: what is linked stays linked when the first is done. *)
LEMMA ChainedTail ==
  ASSUME NEW op, NEW s \in Seq(Statements), s # <<>>, Chained(op, s)
  PROVE  /\ Uses(op, Head(s))
         /\ Tail(s) = <<>> => Last(op, Head(s))
         /\ Tail(s) # <<>> => /\ Linked(op, Head(s), Head(Tail(s)))
                              /\ Uses(op, Head(Tail(s)))
                              /\ Chained(op, Tail(s))
<1>1. Len(s) \in Nat /\ Len(s) > 0 /\ Head(s) = s[1]
  BY EmptySeq, LenProperties, HeadTailProperties
<1>2. /\ Tail(s) \in Seq(Statements) /\ Len(Tail(s)) = Len(s) - 1
      /\ \A i \in 1..Len(Tail(s)) : Tail(s)[i] = s[i + 1]
  BY HeadTailProperties
<1>3. Uses(op, Head(s))
  BY <1>1 DEF Chained
<1>4. CASE Tail(s) = <<>>
  <2>1. Len(Tail(s)) = 0
    BY <1>2, <1>4, EmptySeq
  <2>2. Len(s) = 1
    <3> DEFINE m == Len(s)
               n == Len(Tail(s))
    <3>1. m \in Nat /\ n = m - 1 /\ n = 0
      BY <1>1, <1>2, <2>1
    <3> HIDE DEF m, n
    <3>2. m = 1
      BY <3>1
    <3> QED BY <3>2 DEF m
  <2> QED BY <1>1, <1>3, <1>4, <2>2 DEF Chained
<1>5. CASE Tail(s) # <<>>
  <2> DEFINE u == Tail(s)
  <2>1. u \in Seq(Statements) /\ Len(u) \in Nat /\ Len(u) > 0 /\ Head(u) = u[1]
    BY <1>2, <1>5, EmptySeq, LenProperties, HeadTailProperties
  <2>2. \A i \in 1..Len(u) : u[i] = s[i + 1] /\ i + 1 \in 1..Len(s)
    BY <1>1, <1>2
  <2>3. Len(s) = Len(u) + 1
    BY <1>1, <1>2, <2>1
  <2> HIDE DEF u
  <2>4. u[1] = s[2] /\ 1 \in 1..(Len(s) - 1) /\ 2 \in 1..Len(s) /\ u[Len(u)] = s[Len(s)]
    BY <2>1, <2>2, <2>3
  <2>5. Linked(op, s[1], s[2]) /\ Uses(op, s[2])
    BY <2>4 DEF Chained
  <2>6. \A i \in 1..Len(u) : Uses(op, u[i])
    BY <2>2 DEF Chained
  <2>7. \A i \in 1..(Len(u) - 1) : Linked(op, u[i], u[i + 1])
    <3> SUFFICES ASSUME NEW i \in 1..(Len(u) - 1) PROVE Linked(op, u[i], u[i + 1])
      OBVIOUS
    <3>1. i \in 1..Len(u) /\ i + 1 \in 1..Len(u) /\ i + 1 \in 1..(Len(s) - 1)
      BY <2>1, <2>3
    <3>2. u[i] = s[i + 1] /\ u[i + 1] = s[(i + 1) + 1]
      BY <2>2, <3>1
    <3>3. Linked(op, s[i + 1], s[(i + 1) + 1])
      BY <3>1 DEF Chained
    <3> QED BY <3>2, <3>3
  <2>8. Last(op, u[Len(u)])
    BY <2>4 DEF Chained
  <2>9. Chained(op, u)
    BY <2>6, <2>7, <2>8 DEF Chained
  <2>10. Linked(op, Head(s), Head(u)) /\ Uses(op, Head(u))
    BY <1>1, <2>1, <2>4, <2>5
  <2> QED BY <1>3, <1>5, <2>9, <2>10 DEF u
<1> QED BY <1>4, <1>5

\* A piece of a program: its statements belong to op and follow each other.
Piece(op, s, x, y) ==
  /\ s \in Seq(Statements) /\ Len(s) > 0
  /\ \A i \in 1..Len(s) : Uses(op, s[i])
  /\ \A i \in 1..(Len(s) - 1) : Linked(op, s[i], s[i + 1])
  /\ s[1] = x /\ s[Len(s)] = y

LEMMA PiecesJoin ==
  ASSUME NEW op, NEW s, NEW t, NEW x, NEW y, NEW v, NEW w,
         Piece(op, s, x, y), Piece(op, t, v, w), Linked(op, y, v)
  PROVE  Piece(op, s \o t, x, w)
<1> DEFINE u == s \o t
<1>1. /\ s \in Seq(Statements) /\ t \in Seq(Statements)
      /\ Len(s) \in Nat /\ Len(t) \in Nat /\ Len(s) > 0 /\ Len(t) > 0
  BY LenProperties DEF Piece
<1>2. /\ u \in Seq(Statements) /\ Len(u) = Len(s) + Len(t)
      /\ \A i \in 1..(Len(s) + Len(t)) :
           u[i] = IF i <= Len(s) THEN s[i] ELSE t[i - Len(s)]
  BY <1>1, ConcatProperties
<1> HIDE DEF u
<1>3. /\ \A i \in 1..Len(s) : u[i] = s[i]
      /\ \A i \in 1..Len(t) : u[Len(s) + i] = t[i]
  <2> DEFINE m == Len(s)
             n == Len(t)
  <2>1. m \in Nat /\ n \in Nat
        /\ \A i \in 1..(m + n) : u[i] = IF i <= m THEN s[i] ELSE t[i - m]
    BY <1>1, <1>2
  <2> HIDE DEF m, n
  <2>2. \A i \in 1..n : m + i \in 1..(m + n) /\ ~(m + i <= m) /\ (m + i) - m = i
    BY <2>1
  <2>3. \A i \in 1..n : u[m + i] = t[i]
    BY <2>1, <2>2
  <2>4. \A i \in 1..m : u[i] = s[i]
    BY <2>1
  <2> QED BY <2>3, <2>4 DEF m, n
<1>4. ASSUME NEW i \in 1..Len(u) PROVE Uses(op, u[i])
  <2>1. CASE i <= Len(s)
    <3>1. i \in 1..Len(s)
      BY <1>1, <1>2, <2>1
    <3> QED BY <1>3, <3>1 DEF Piece
  <2>2. CASE ~(i <= Len(s))
    <3>1. i - Len(s) \in 1..Len(t) /\ u[i] = t[i - Len(s)]
      BY <1>1, <1>2, <2>2
    <3> QED BY <3>1 DEF Piece
  <2> QED BY <2>1, <2>2
<1>5. ASSUME NEW i \in 1..(Len(u) - 1) PROVE Linked(op, u[i], u[i + 1])
  <2>1. CASE i < Len(s)
    <3>1. i \in 1..(Len(s) - 1) /\ i \in 1..Len(s) /\ i + 1 \in 1..Len(s)
      BY <1>1, <1>2, <2>1
    <3>2. u[i] = s[i] /\ u[i + 1] = s[i + 1]
      BY <1>3, <3>1
    <3>3. Linked(op, s[i], s[i + 1])
      BY <3>1 DEF Piece
    <3> QED BY <3>2, <3>3
  <2>2. CASE i = Len(s)
    <3>1. i \in 1..Len(s) /\ i + 1 = Len(s) + 1 /\ 1 \in 1..Len(t)
      BY <1>1, <2>2
    <3>2. u[i] = s[Len(s)] /\ u[i + 1] = t[1]
      BY <1>3, <2>2, <3>1
    <3> QED BY <3>2 DEF Piece
  <2>3. CASE i > Len(s)
    <3> DEFINE j == i - Len(s)
    <3>1. j \in 1..(Len(t) - 1) /\ j \in 1..Len(t) /\ j + 1 \in 1..Len(t)
          /\ i = Len(s) + j /\ i + 1 = Len(s) + (j + 1)
      BY <1>1, <1>2, <2>3
    <3> HIDE DEF j
    <3>2. u[i] = t[j] /\ u[i + 1] = t[j + 1]
      BY <1>3, <3>1
    <3>3. Linked(op, t[j], t[j + 1])
      BY <3>1 DEF Piece
    <3> QED BY <3>2, <3>3
  <2> QED BY <1>1, <1>2, <2>1, <2>2, <2>3
<1>6. u[1] = x /\ u[Len(u)] = w
  <2>1. 1 \in 1..Len(s) /\ Len(t) \in 1..Len(t)
    BY <1>1
  <2>2. u[1] = s[1] /\ u[Len(u)] = t[Len(t)]
    BY <1>2, <1>3, <2>1
  <2> QED BY <2>2 DEF Piece
<1>7. Len(u) > 0
  BY <1>1, <1>2
<1> QED BY <1>2, <1>4, <1>5, <1>6, <1>7 DEF Piece, u

LEMMA PieceChained ==
  ASSUME NEW op, NEW s, NEW x, NEW y, Piece(op, s, x, y), First(op, x), Last(op, y)
  PROVE  Chained(op, s) /\ First(op, Head(s))
<1>1. s # <<>> /\ Head(s) = s[1]
  BY HeadTailProperties, EmptySeq DEF Piece
<1> QED BY <1>1 DEF Piece, Chained

\* The pieces the programs are made of.
LEMMA ProgramPieces ==
  ASSUME NEW op
  PROVE  /\ op \in TagOperations => Piece(op, ChangeTags, "listRels", "refreshTags")
         /\ op \in Decisions \cup {"add", "remove", "recover"} =>
              Piece(op, CountUser, "countQuestions", "saveQuestions")
         /\ op = "add" => Piece(op, <<"insert", "queueReview", "setStatus">>, "insert", "setStatus")
         /\ op = "edit" => Piece(op, <<"read">>, "read", "read")
         /\ op \in {"remove", "recover"} =>
              Piece(op, <<"read", "setStatus">>, "read", "setStatus")
         /\ op = "remove" =>
              Piece(op, <<"listRels", "setRels", "refreshTags">>, "listRels", "refreshTags")
         /\ op = "recover" =>
              Piece(op, <<"setRels", "listRels", "refreshTags">>, "setRels", "refreshTags")
         /\ op \in Decisions =>
              /\ Piece(op, <<"readReview", "setStatus">>, "readReview", "setStatus")
              /\ Piece(op, <<"closeReview">>, "closeReview", "closeReview")
<1> USE DEF Piece, Uses, Linked, Statements, TagOperations, Decisions, ListOperations
<1>1. op \in TagOperations => Piece(op, ChangeTags, "listRels", "refreshTags")
  BY DEF ChangeTags
<1>2. op \in Decisions \cup {"add", "remove", "recover"} =>
        Piece(op, CountUser, "countQuestions", "saveQuestions")
  BY DEF CountUser
<1>3. op = "add" => Piece(op, <<"insert", "queueReview", "setStatus">>, "insert", "setStatus")
  OBVIOUS
<1>4. op = "edit" => Piece(op, <<"read">>, "read", "read")
  OBVIOUS
<1>5. op \in {"remove", "recover"} => Piece(op, <<"read", "setStatus">>, "read", "setStatus")
  OBVIOUS
<1>6. op = "remove" =>
        Piece(op, <<"listRels", "setRels", "refreshTags">>, "listRels", "refreshTags")
  OBVIOUS
<1>7. op = "recover" =>
        Piece(op, <<"setRels", "listRels", "refreshTags">>, "setRels", "refreshTags")
  OBVIOUS
<1>8. op \in Decisions => Piece(op, <<"readReview", "setStatus">>, "readReview", "setStatus")
  OBVIOUS
<1>9. op \in Decisions => Piece(op, <<"closeReview">>, "closeReview", "closeReview")
  OBVIOUS
<1> QED BY <1>1, <1>2, <1>3, <1>4, <1>5, <1>6, <1>7, <1>8, <1>9

LEMMA ProgramChained ==
  ASSUME NEW r \in Request
  PROVE  Chained(r.op, Program(r)) /\ First(r.op, Head(Program(r)))
<1> DEFINE op == r.op
<1>1. op \in AllOperations
  BY QuestionAssumption DEF Request
<1>2. CASE op \in {"close", "reopen", "adminSet"}
  <2>1. Program(r) = <<"setStatus">>
    BY <1>2 DEF Program, Programs, CloseQuestion, ReopenQuestion, AdminSetQuestionStatus
  <2> QED
    BY <1>2, <2>1
    DEF Chained, Uses, Last, First, Statements, Decisions, ListOperations, TagOperations
<1>3. CASE op \in {"pin", "unpin"}
  <2>1. Program(r) = <<"read", "saveOperation">>
    BY <1>3 DEF Program, Programs, OperationPin
  <2> QED
    BY <1>3, <2>1
    DEF Chained, Uses, Linked, Last, First, Statements, Decisions, ListOperations, TagOperations
<1>4. CASE op \in {"hide", "show"}
  <2>1. Program(r) = <<"read", "setRels", "listRels", "refreshTags", "saveOperation">>
    BY <1>4 DEF Program, Programs, OperationVisibility
  <2> QED
    BY <1>4, <2>1
    DEF Chained, Uses, Linked, Last, First, Statements, Decisions, ListOperations, TagOperations
<1>5. CASE op \in Decisions
  <2>1. Program(r) = (<<"readReview", "setStatus">> \o CountUser) \o <<"closeReview">>
    BY <1>5 DEF Program, Programs, UpdateReview, Decisions
  <2>2. Linked(op, "setStatus", "countQuestions") /\ Linked(op, "saveQuestions", "closeReview")
        /\ First(op, "readReview") /\ Last(op, "closeReview")
    BY <1>5 DEF Linked, First, Last, Decisions, ListOperations
  <2>3. Piece(op, Program(r), "readReview", "closeReview")
    BY <1>5, <2>1, <2>2, ProgramPieces, PiecesJoin
  <2> QED BY <2>2, <2>3, PieceChained
<1>6. CASE op = "remove"
  <2>1. Program(r) = (<<"read", "setStatus">> \o CountUser)
                       \o <<"listRels", "setRels", "refreshTags">>
    BY <1>6 DEF Program, Programs, RemoveQuestion
  <2>2. Linked(op, "setStatus", "countQuestions") /\ Linked(op, "saveQuestions", "listRels")
        /\ First(op, "read") /\ Last(op, "refreshTags")
    BY <1>6 DEF Linked, First, Last, Decisions, ListOperations
  <2>3. Piece(op, Program(r), "read", "refreshTags")
    BY <1>6, <2>1, <2>2, ProgramPieces, PiecesJoin
  <2> QED BY <2>2, <2>3, PieceChained
<1>7. CASE op = "recover"
  <2>1. Program(r) = (<<"read", "setStatus">> \o CountUser)
                       \o <<"setRels", "listRels", "refreshTags">>
    BY <1>7 DEF Program, Programs, RecoverQuestion
  <2>2. Linked(op, "setStatus", "countQuestions") /\ Linked(op, "saveQuestions", "setRels")
        /\ First(op, "read") /\ Last(op, "refreshTags")
    BY <1>7 DEF Linked, First, Last, Decisions, ListOperations
  <2>3. Piece(op, Program(r), "read", "refreshTags")
    BY <1>7, <2>1, <2>2, ProgramPieces, PiecesJoin
  <2> QED BY <2>2, <2>3, PieceChained
<1>8. CASE op = "applyEdit"
  <2>1. Program(r) = ChangeTags
    BY <1>8 DEF Program, Programs, RevisionAuditQuestion
  <2>2. First(op, "listRels") /\ Last(op, "refreshTags") /\ op \in TagOperations
    BY <1>8 DEF First, Last, Decisions, ListOperations, TagOperations
  <2> QED BY <2>1, <2>2, ProgramPieces, PieceChained
<1>9. CASE op = "edit"
  <2>1. Program(r) = <<"read">> \o ChangeTags
    BY <1>9 DEF Program, Programs, UpdateQuestion
  <2>2. Linked(op, "read", "listRels") /\ First(op, "read") /\ Last(op, "refreshTags")
        /\ op \in TagOperations
    BY <1>9 DEF Linked, First, Last, Decisions, ListOperations, TagOperations
  <2>3. Piece(op, Program(r), "read", "refreshTags")
    BY <1>9, <2>1, <2>2, ProgramPieces, PiecesJoin
  <2> QED BY <2>2, <2>3, PieceChained
<1>10. CASE op = "add"
  <2>1. Program(r) = (<<"insert", "queueReview", "setStatus">> \o ChangeTags) \o CountUser
    BY <1>10 DEF Program, Programs, AddQuestion
  <2>2. Linked(op, "setStatus", "listRels") /\ Linked(op, "refreshTags", "countQuestions")
        /\ First(op, "insert") /\ Last(op, "saveQuestions") /\ op \in TagOperations
    BY <1>10 DEF Linked, First, Last, Decisions, ListOperations, TagOperations
  <2>3. Piece(op, Program(r), "insert", "saveQuestions")
    BY <1>10, <2>1, <2>2, ProgramPieces, PiecesJoin
  <2> QED BY <2>2, <2>3, PieceChained
<1> QED
  BY <1>1, <1>2, <1>3, <1>4, <1>5, <1>6, <1>7, <1>8, <1>9, <1>10
  DEF AllOperations, TagOperations, ListOperations, Decisions

-----------------------------------------------------------------------------
(* What a handler has left is a rest of its program. *)
LEMMA StepHead ==
  ASSUME TypeOK, AllChained, NEW h \in Handlers, Busy(h), Advance(h)
  PROVE  /\ Uses(req[h].op, Head(todo[h]))
         /\ Busy(h)' => /\ req'[h] = req[h]
                        /\ Linked(req[h].op, Head(todo[h]), Head(todo'[h]))
                        /\ Uses(req[h].op, Head(todo'[h]))
                        /\ Chained(req'[h].op, todo'[h])
         /\ ~Busy(h)' => Last(req[h].op, Head(todo[h]))
         /\ \A g \in Handlers \ {h} : todo'[g] = todo[g] /\ req'[g] = req[g]
<1>1. /\ todo \in [Handlers -> Seq(Statements)] /\ todo[h] \in Seq(Statements)
      /\ todo[h] # <<>> /\ Chained(req[h].op, todo[h])
  BY DEF TypeOK, Busy, AllChained
<1>2. todo'[h] = Tail(todo[h])
  BY <1>1 DEF Advance
<1>3. Busy(h)' <=> Tail(todo[h]) # <<>>
  BY <1>2 DEF Busy
<1>4. Busy(h)' => req'[h] = req[h]
  BY AdvanceKeeps
<1>5. \A g \in Handlers \ {h} : todo'[g] = todo[g] /\ req'[g] = req[g]
  BY AdvanceKeeps
<1> QED BY <1>1, <1>2, <1>3, <1>4, <1>5, ChainedTail

LEMMA HeadUsed ==
  ASSUME TypeOK, AllChained, NEW h \in Handlers, Busy(h)
  PROVE  Uses(req[h].op, Head(todo[h]))
<1>1. todo[h] \in Seq(Statements) /\ todo[h] # <<>> /\ Chained(req[h].op, todo[h])
  BY DEF TypeOK, Busy, AllChained
<1> QED BY <1>1, ChainedTail

LEMMA AdvanceChained ==
  ASSUME TypeOK, AllChained, NEW h \in Handlers, Busy(h), Advance(h)
  PROVE  AllChained'
<1> SUFFICES ASSUME NEW g \in Handlers, Busy(g)' PROVE Chained(req'[g].op, todo'[g])
  BY DEF AllChained
<1>1. CASE g = h  BY <1>1, StepHead
<1>2. CASE g # h
  BY <1>2, StepHead DEF AllChained, Busy
<1> QED BY <1>1, <1>2

LEMMA ReturnKeeps ==
  ASSUME TypeOK, NEW h \in Handlers, Return(h)
  PROVE  /\ ~Busy(h)' /\ Blank(plan'[h])
         /\ \A g \in Handlers \ {h} :
              todo'[g] = todo[g] /\ req'[g] = req[g] /\ plan'[g] = plan[g]
<1>1. todo' = [todo EXCEPT ![h] = <<>>] /\ todo \in [Handlers -> Seq(Statements)]
      /\ req' = [req EXCEPT ![h] = NoRequest] /\ req \in [Handlers -> Request \cup {NoRequest}]
      /\ plan' = [plan EXCEPT ![h] = NothingPlanned] /\ DOMAIN plan = Handlers
  BY DEF TypeOK, Return
<1>2. todo'[h] = <<>> /\ plan'[h] = NothingPlanned
  BY <1>1
<1>3. \A g \in Handlers \ {h} : todo'[g] = todo[g] /\ req'[g] = req[g] /\ plan'[g] = plan[g]
  BY <1>1
<1> QED BY <1>2, <1>3 DEF Busy, NothingPlanned, Blank

LEMMA ReturnChained ==
  ASSUME TypeOK, AllChained, NEW h \in Handlers, Return(h)
  PROVE  AllChained'
BY ReturnKeeps DEF AllChained, Busy

LEMMA StillChained ==
  ASSUME AllChained, UNCHANGED <<todo, req>>
  PROVE  AllChained'
BY DEF AllChained, Busy

LEMMA FailToCountChained ==
  ASSUME TypeOK, AllChained, NEW h \in Handlers, FailToCount(h)
  PROVE  AllChained'
<1> SUFFICES ASSUME NEW g \in Handlers, Busy(g)' PROVE Chained(req'[g].op, todo'[g])
  BY DEF AllChained
<1>1. /\ todo \in [Handlers -> Seq(Statements)] /\ todo' = [todo EXCEPT ![h] = Tail(Tail(@))]
      /\ req' = req /\ Busy(h) /\ Len(todo[h]) > 2
  BY DEF TypeOK, FailToCount, At
<1>2. CASE g = h
  <2>1. todo[h] \in Seq(Statements) /\ todo[h] # <<>> /\ Chained(req[h].op, todo[h])
    BY <1>1 DEF Busy, AllChained
  <2>2. Tail(todo[h]) \in Seq(Statements) /\ Tail(todo[h]) # <<>>
    BY <1>1, <2>1, HeadTailProperties, EmptySeq, TailTwice
  <2>3. Chained(req[h].op, Tail(todo[h]))
    BY <2>1, <2>2, ChainedTail
  <2>4. Tail(Tail(todo[h])) # <<>>
    BY <1>1, <2>1, TailTwice
  <2> QED BY <1>1, <1>2, <2>2, <2>3, <2>4, ChainedTail
<1>3. CASE g # h
  <2>1. todo'[g] = todo[g]
    BY <1>1, <1>3
  <2> QED BY <1>1, <2>1 DEF AllChained, Busy
<1> QED BY <1>2, <1>3

LEMMA ReceiveChained ==
  ASSUME TypeOK, AllChained, NEW h \in Handlers, NEW r \in Request, Receive(h, r)
  PROVE  AllChained'
<1>1. /\ todo' = [todo EXCEPT ![h] = Program(r)] /\ req' = [req EXCEPT ![h] = r]
      /\ DOMAIN todo = Handlers /\ DOMAIN req = Handlers
  BY DEF TypeOK, Receive
<1> QED BY <1>1, ProgramChained DEF AllChained, Busy

LEMMA NextChained == TypeOK /\ AllChained /\ [Next]_vars => AllChained'
<1> SUFFICES ASSUME TypeOK, AllChained, [Next]_vars PROVE AllChained'
  OBVIOUS
<1>1. ASSUME NEW h \in Handlers,
             \/ ReadQuestion(h) \/ InsertQuestion(h) \/ \E v \in Verdicts : QueueReview(h, v)
             \/ SetStatus(h) \/ CloseReview(h) \/ SaveOperation(h)
             \/ ListRels(h) \/ DropRels(h) \/ EnableRels(h) \/ SetRels(h)
             \/ EndRefresh(h) \/ CountQuestions(h) \/ SaveQuestionCount(h) \/ FailTolerated(h)
      PROVE  AllChained'
  <2>1. Busy(h) /\ Advance(h)
    BY <1>1
    DEF ReadQuestion, InsertQuestion, QueueReview, SetStatus, CloseReview, SaveOperation,
        ListRels, DropRels, EnableRels, SetRels, EndRefresh, CountQuestions,
        SaveQuestionCount, FailTolerated, Tolerated, At
  <2> QED BY <2>1, AdvanceChained
<1>2. ASSUME NEW h \in Handlers,
             Refuse(h) \/ ReadReview(h) \/ CreateRels(h) \/ Fail(h) \/ SaveTagCount(h)
             \/ \E t \in Tags : ReadRel(h, t) \/ CountTag(h, t)
      PROVE  AllChained'
  <2>1. (Busy(h) /\ Advance(h)) \/ Return(h) \/ UNCHANGED <<todo, req>>
    BY <1>2 DEF Refuse, ReadReview, CreateRels, Fail, SaveTagCount, ReadRel, CountTag, At
  <2> QED BY <2>1, AdvanceChained, ReturnChained, StillChained
<1>3. CASE UNCHANGED vars \/ \E u \in Users : RemoveAllUserQuestion(u)
  BY <1>3, StillChained DEF vars, RemoveAllUserQuestion
<1> QED
  BY <1>1, <1>2, <1>3, ReceiveChained, FailToCountChained DEF Next, Step

-----------------------------------------------------------------------------
(* As long as nothing has gone wrong: one request at a time. *)
LEMMA OneServes ==
  ASSUME Settling, NEW h \in Handlers, Busy(h)
  PROVE  /\ \A g \in Handlers \ {h} : ~Busy(g) /\ Off(g) = {} /\ \A u : ~Owes(g, u)
         /\ \A t \in Tags : tagCount[t] = CountTagRel(t) \/ t \in Off(h)
         /\ StatusKept => \A u \in Users :
              userCount[u] = Cardinality(UserQuestions(u)) \/ Owes(h, u)
         /\ \A q \in Questions \ {req[h].q} :
              HasRow(q) /\ Tagged(q)
         /\ Written(h) /\ Tagging(h) /\ TagsPlanned(h)
<1>1. \A g \in Handlers \ {h} : ~Busy(g)
  BY DEF Settling, Alone
<1>2. \A g \in Handlers \ {h} : Off(g) = {} /\ \A u : ~Owes(g, u)
  BY <1>1 DEF Settling, Off, Owes, Blank
<1>3. \A q \in Questions \ {req[h].q} : HasRow(q) /\ Tagged(q)
  BY <1>1 DEF Settling
<1>4. \A t \in Tags : tagCount[t] = CountTagRel(t) \/ t \in Off(h)
  BY <1>2 DEF Settling
<1>5. StatusKept => \A u \in Users :
              userCount[u] = Cardinality(UserQuestions(u)) \/ Owes(h, u)
  BY <1>2 DEF Settling
<1> QED BY <1>1, <1>2, <1>3, <1>4, <1>5 DEF Settling

\* The question that the one handler serves is all that a step of it changes.
Apart(h) ==
  /\ \A g \in Handlers \ {h} : todo'[g] = todo[g] /\ req'[g] = req[g] /\ plan'[g] = plan[g]
  /\ \A q \in Questions \ {req[h].q} :
       /\ status'[q] = status[q] /\ rel'[q] = rel[q]
       /\ q \in revived' <=> q \in revived

LEMMA StepSettles ==
  ASSUME TypeOK, Settling, NEW h \in Handlers, NEW o \in Questions, req[h].q = o,
         Busy(h), Apart(h),
         Busy(h)' => req'[h] = req[h] /\ (Written(h))' /\ (Tagging(h))' /\ (TagsPlanned(h))',
         ~Busy(h)' => /\ Blank(plan'[h])
                      /\ HasRow(o)' /\ Tagged(o)',
         \A t \in Tags : (tagCount[t] = CountTagRel(t) \/ t \in Off(h))',
         StatusKept => \A u \in Users :
           (userCount[u] = Cardinality(UserQuestions(u)) \/ Owes(h, u))'
  PROVE  Settling'
<1>1. \A g \in Handlers \ {h} : ~Busy(g) /\ ~Busy(g)'
  BY OneServes DEF Apart, Busy
<1>2. Alone'
  BY <1>1 DEF Alone
<1>3. \A g \in Handlers : /\ Busy(g)' => (Written(g))' /\ (Tagging(g))' /\ (TagsPlanned(g))'
                          /\ ~Busy(g)' => Blank(plan'[g])
  BY <1>1 DEF Settling, Apart
<1>4. ASSUME NEW q \in Questions, \A g \in Handlers : Busy(g)' => req'[g].q # q
      PROVE  HasRow(q)' /\ Tagged(q)'
  <2>1. CASE q = o
    <3>1. Busy(h)' => req'[h].q # q
      BY <1>4
    <3>2. Busy(h)' => req'[h] = req[h]
      OBVIOUS
    <3>3. ~Busy(h)'
      BY <2>1, <3>1, <3>2
    <3> QED BY <2>1, <3>3
  <2>2. CASE q # o
    <3>1. HasRow(q) /\ Tagged(q)
      BY <2>2, OneServes
    <3> QED BY <2>2, <3>1 DEF Apart, HasRow, Tagged, Readable, Listed
  <2> QED BY <2>1, <2>2
<1> QED BY <1>2, <1>3, <1>4 DEF Settling, StatusKept

LEMMA CountsSame ==
  ASSUME NEW t \in Tags,
         \A q \in Questions : rel'[q][t] = "available" <=> rel[q][t] = "available"
  PROVE  CountTagRel(t)' = CountTagRel(t)
BY DEF CountTagRel

LEMMA QuestionsSame ==
  ASSUME NEW u,
         \A q \in Questions : Owner[q] = u =>
           (status'[q] \in {"available", "closed"} <=> status[q] \in {"available", "closed"})
  PROVE  UserQuestions(u)' = UserQuestions(u)
BY DEF UserQuestions

-----------------------------------------------------------------------------
(* The steps, one by one, as long as nothing has gone wrong. *)

\* A step that writes nothing but what its handler has read or planned.
LEMMA ReadersSettle ==
  ASSUME TypeOK, Settling, NEW h \in Handlers, Busy(h), Apart(h),
         UNCHANGED <<status, rel, revived, tagCount, userCount>>,
         Busy(h)' => /\ req'[h] = req[h] /\ (Written(h))' /\ (Tagging(h))' /\ (TagsPlanned(h))',
         ~Busy(h)' => /\ Blank(plan'[h])
                      /\ HasRow(req[h].q) /\ Tagged(req[h].q),
         \A t \in Off(h) : t \in Off(h)' \/ tagCount[t] = CountTagRel(t),
         StatusKept => \A u \in Users :
           Owes(h, u) => Owes(h, u)' \/ userCount[u] = Cardinality(UserQuestions(u))
  PROVE  Settling'
<1>1. \A t \in Tags : (tagCount[t] = CountTagRel(t) \/ t \in Off(h))'
  <2>1. \A t \in Tags : CountTagRel(t)' = CountTagRel(t)
    BY DEF CountTagRel
  <2> QED BY <2>1, OneServes
<1>2. StatusKept => \A u \in Users :
        (userCount[u] = Cardinality(UserQuestions(u)) \/ Owes(h, u))'
  <2>1. \A u \in Users : UserQuestions(u)' = UserQuestions(u)
    BY DEF UserQuestions
  <2> QED BY <2>1, OneServes
<1>3. ASSUME NEW o \in Questions
      PROVE  /\ HasRow(o) => HasRow(o)'
             /\ Tagged(o) => Tagged(o)'
  BY DEF HasRow, Tagged, Readable, Listed
<1>4. PICK o \in Questions : o = req[h].q
  BY TypeSplit, Serves
<1>5. ~Busy(h)' => /\ Blank(plan'[h])
                   /\ HasRow(o)' /\ Tagged(o)'
  BY <1>3, <1>4
<1> QED BY <1>1, <1>2, <1>4, <1>5, StepSettles

LEMMA RefuseSettles ==
  ASSUME TypeOK, AllChained, Settling, NEW h \in Handlers, Refuse(h)
  PROVE  Settling'
<1>1. /\ Busy(h) /\ Head(todo[h]) = "read" /\ Return(h)
      /\ UNCHANGED <<status, rel, revived, tagCount, userCount>>
  BY DEF Refuse, At, question, counters, history
<1>2. ~Busy(h)' /\ Apart(h) /\ Blank(plan'[h])
  BY <1>1, ReturnKeeps DEF Apart
<1>3. Uses(req[h].op, "read")
  BY <1>1, HeadUsed
<1>4. req[h].op # "add"
  BY <1>3 DEF Uses, ListOperations
<1>5. HasRow(req[h].q) /\ Tagged(req[h].q)
  BY <1>1, <1>4, OneServes DEF Written, Tagging
<1>6. Off(h) = {} /\ \A u : ~Owes(h, u)
  BY <1>1, <1>4, OneServes DEF Off, Owes, TagsPlanned, Planned, Blank
<1> QED BY <1>1, <1>2, <1>5, <1>6, ReadersSettle

LEMMA ReadQuestionSettles ==
  ASSUME TypeOK, AllChained, Settling, NEW h \in Handlers, ReadQuestion(h)
  PROVE  Settling'
<1>1. /\ Busy(h) /\ Head(todo[h]) = "read" /\ Advance(h)
      /\ UNCHANGED <<status, rel, revived, tagCount, userCount, plan, tally, verdict>>
  BY DEF ReadQuestion, At, question, counters, history
<1>2. Apart(h)
  BY <1>1, StepHead DEF Apart
<1>3. Uses(req[h].op, "read") /\ ~Last(req[h].op, "read")
  <2>1. Uses(req[h].op, "read")
    BY <1>1, StepHead
  <2> QED BY <2>1 DEF Uses, Last, ListOperations
<1>4. /\ Busy(h)' /\ req'[h] = req[h] /\ Linked(req[h].op, "read", Head(todo'[h]))
  BY <1>1, <1>3, StepHead
<1>5. req[h].op \in {"edit", "remove", "recover", "hide", "show", "pin", "unpin"}
  BY <1>3 DEF Uses, ListOperations
<1>6. \/ req[h].op = "edit" /\ Head(todo'[h]) = "listRels"
      \/ req[h].op \in {"remove", "recover"} /\ Head(todo'[h]) = "setStatus"
      \/ req[h].op \in {"hide", "show"} /\ Head(todo'[h]) = "setRels"
      \/ req[h].op \in {"pin", "unpin"} /\ Head(todo'[h]) = "saveOperation"
  BY <1>4, <1>5 DEF Linked
<1>7. Written(h)'
  BY <1>1, <1>4, <1>5, <1>6, OneServes DEF Written, HasRow, Decisions
<1>8. Tagging(h)'
  BY <1>1, <1>4, <1>5, <1>6, OneServes DEF Tagging, Tagged, Listed, Readable, StatusKept
<1>9. TagsPlanned(h)'
  <2>1. Blank(plan[h])
    BY <1>1, OneServes DEF TagsPlanned, Planned, Blank
  <2> QED BY <1>1, <1>4, <1>5, <1>6, <2>1 DEF TagsPlanned, Planned, Blank
<1>10. Off(h) = {} /\ \A u : ~Owes(h, u)
  BY <1>1, <1>5, OneServes DEF Off, Owes, TagsPlanned, Planned, Blank
<1> QED BY <1>1, <1>2, <1>4, <1>7, <1>8, <1>9, <1>10, ReadersSettle

LEMMA ReadReviewSettles ==
  ASSUME TypeOK, AllChained, Settling, NEW h \in Handlers, ReadReview(h)
  PROVE  Settling'
<1>1. /\ Busy(h) /\ Head(todo[h]) = "readReview"
      /\ UNCHANGED <<status, rel, revived, tagCount, userCount>>
      /\ (Advance(h) /\ UNCHANGED locals) \/ Return(h)
  BY DEF ReadReview, At, question, counters, history
<1>2. Uses(req[h].op, "readReview")
  BY <1>1, HeadUsed
<1>3. req[h].op \in Decisions /\ req[h].op # "add"
  BY <1>2 DEF Uses, Decisions
<1>4. Off(h) = {} /\ \A u : ~Owes(h, u)
  BY <1>1, <1>3, OneServes DEF Off, Owes, TagsPlanned, Planned, Blank
<1>5. HasRow(req[h].q) /\ Tagged(req[h].q)
  BY <1>1, <1>3, OneServes DEF Written, Tagging
<1>6. CASE Return(h)
  <2>1. ~Busy(h)' /\ Apart(h) /\ Blank(plan'[h])
    BY <1>1, <1>6, ReturnKeeps DEF Apart
  <2> QED BY <1>1, <1>4, <1>5, <2>1, ReadersSettle
<1>7. CASE Advance(h) /\ UNCHANGED locals
  <2>1. Apart(h)
    BY <1>1, <1>7, StepHead DEF Apart, locals
  <2>2. ~Last(req[h].op, "readReview")
    BY <1>3 DEF Last
  <2>3. Busy(h)' /\ req'[h] = req[h] /\ Linked(req[h].op, "readReview", Head(todo'[h]))
    BY <1>1, <1>7, <2>2, StepHead
  <2>4. Head(todo'[h]) = "setStatus"
    BY <2>3 DEF Linked
  <2>5. Written(h)'
    BY <1>1, <1>3, <2>3, <2>4, OneServes DEF Written, HasRow, Decisions
  <2>6. Tagging(h)'
    BY <1>1, <1>5, <2>3, <2>4 DEF Tagging, Tagged, Listed
  <2>7. Blank(plan[h]) /\ plan' = plan /\ tally' = tally
    BY <1>1, <1>7, OneServes DEF TagsPlanned, Planned, Blank, locals
  <2>8. TagsPlanned(h)'
    BY <2>3, <2>4, <2>7 DEF TagsPlanned, Planned, Blank
  <2> QED BY <1>1, <1>4, <2>1, <2>3, <2>5, <2>6, <2>8, ReadersSettle
<1> QED BY <1>1, <1>6, <1>7

LEMMA SaveOperationSettles ==
  ASSUME TypeOK, AllChained, Settling, NEW h \in Handlers, SaveOperation(h)
  PROVE  Settling'
<1>1. /\ Busy(h) /\ Head(todo[h]) = "saveOperation" /\ Advance(h)
      /\ UNCHANGED <<status, rel, revived, tagCount, userCount, plan>>
  BY DEF SaveOperation, At, counters, history
<1>2. Apart(h)
  BY <1>1, StepHead DEF Apart
<1>3. Uses(req[h].op, "saveOperation")
  BY <1>1, StepHead
<1>4. req[h].op \in {"hide", "show", "pin", "unpin"}
  BY <1>3 DEF Uses, ListOperations
<1>5. ASSUME Busy(h)' PROVE FALSE
  <2>1. Linked(req[h].op, "saveOperation", Head(todo'[h]))
    BY <1>1, <1>5, StepHead
  <2> QED BY <2>1 DEF Linked
<1>6. Off(h) = {} /\ \A u : ~Owes(h, u)
  BY <1>1, <1>4, OneServes DEF Off, Owes, TagsPlanned, Planned, Blank
<1>7. HasRow(req[h].q) /\ Tagged(req[h].q)
  BY <1>1, <1>4, OneServes DEF Written, Tagging
<1>8. Blank(plan'[h])
  BY <1>1, OneServes DEF TagsPlanned, Planned, Blank
<1> QED BY <1>1, <1>2, <1>5, <1>6, <1>7, <1>8, ReadersSettle

LEMMA InsertQuestionSettles ==
  ASSUME TypeOK, AllChained, Settling, NEW h \in Handlers, InsertQuestion(h)
  PROVE  Settling'
<1>1. /\ Busy(h) /\ Head(todo[h]) = "insert" /\ Advance(h)
      /\ UNCHANGED <<rel, revived, tagCount, userCount, plan, tally, verdict>>
      /\ status' = [status EXCEPT ![req[h].q] = "pending"]
  BY DEF InsertQuestion, At, counters, locals, history
<1>2. PICK o \in Questions : o = req[h].q
  BY <1>1, TypeSplit, Serves
<1>3. /\ status'[o] = "pending" /\ status[o] \in Statuses \cup {"none"}
      /\ \A q \in Questions \ {o} : status'[q] = status[q]
  BY <1>1, <1>2 DEF TypeOK
<1>4. Apart(h)
  BY <1>1, <1>2, <1>3, StepHead DEF Apart
<1>5. req[h].op = "add"
  <2>1. Uses(req[h].op, "insert")
    BY <1>1, StepHead
  <2> QED BY <2>1 DEF Uses
<1>6. Busy(h)' /\ req'[h] = req[h] /\ Head(todo'[h]) = "queueReview"
  <2>1. ~Last(req[h].op, "insert")
    BY <1>5 DEF Last
  <2>2. Busy(h)' /\ req'[h] = req[h] /\ Linked(req[h].op, "insert", Head(todo'[h]))
    BY <1>1, <2>1, StepHead
  <2> QED BY <2>2 DEF Linked
<1>7. Written(h)'
  BY <1>2, <1>3, <1>5, <1>6 DEF Written, Decisions
<1>8. Tagging(h)'
  BY <1>5, <1>6 DEF Tagging, Decisions
<1>9. Blank(plan[h])
  BY <1>1, OneServes DEF TagsPlanned, Planned, Blank
<1>10. TagsPlanned(h)'
  BY <1>1, <1>5, <1>6, <1>9 DEF TagsPlanned, Planned, Blank
<1>11. Off(h) = {} /\ \A u : ~Owes(h, u)
  BY <1>1, <1>5, <1>9 DEF Off, Owes, Blank
<1>12. \A t \in Tags : (tagCount[t] = CountTagRel(t) \/ t \in Off(h))'
  BY <1>1, <1>11, OneServes DEF CountTagRel
<1>13. ASSUME StatusKept
       PROVE  \A u \in Users : (userCount[u] = Cardinality(UserQuestions(u)) \/ Owes(h, u))'
  <2>1. status[o] \in {"none", "pending"}
    BY <1>1, <1>2, <1>5, OneServes DEF Written
  <2>2. \A u \in Users : UserQuestions(u)' = UserQuestions(u)
    BY <1>3, <2>1 DEF UserQuestions
  <2> QED BY <1>1, <1>11, <1>13, <2>2, OneServes
<1> QED BY <1>1, <1>2, <1>4, <1>6, <1>7, <1>8, <1>10, <1>12, <1>13, StepSettles

LEMMA QueueReviewSettles ==
  ASSUME TypeOK, AllChained, Settling, NEW h \in Handlers, NEW v \in Verdicts,
         QueueReview(h, v), clean'
  PROVE  Settling'
<1>1. /\ Busy(h) /\ Head(todo[h]) = "queueReview" /\ Advance(h)
      /\ UNCHANGED <<status, rel, revived, tagCount, userCount, plan, tally>>
  BY DEF QueueReview, At, question, counters
<1>2. PICK o \in Questions : o = req[h].q
  BY <1>1, TypeSplit, Serves
<1>4. Apart(h)
  BY <1>1, StepHead DEF Apart
<1>5. req[h].op = "add"
  <2>1. Uses(req[h].op, "queueReview")
    BY <1>1, StepHead
  <2> QED BY <2>1 DEF Uses
<1>6. Busy(h)' /\ req'[h] = req[h] /\ Head(todo'[h]) = "setStatus"
  <2>1. ~Last(req[h].op, "queueReview")
    BY <1>5 DEF Last
  <2>2. Busy(h)' /\ req'[h] = req[h] /\ Linked(req[h].op, "queueReview", Head(todo'[h]))
    BY <1>1, <2>1, StepHead
  <2> QED BY <2>2 DEF Linked
<1>7. Written(h)'
  BY <1>1, <1>2, <1>5, <1>6, OneServes DEF Written, Decisions
<1>8. Tagging(h)'
  BY <1>5, <1>6 DEF Tagging, Decisions
<1>9. Blank(plan[h])
  BY <1>1, OneServes DEF TagsPlanned, Planned, Blank
<1>10. TagsPlanned(h)'
  BY <1>1, <1>5, <1>6, <1>9 DEF TagsPlanned, Planned, Blank
<1>11. Off(h) = {} /\ \A u : ~Owes(h, u)
  BY <1>1, <1>5, <1>9 DEF Off, Owes, Blank
<1>12. \A t \in Tags : (tagCount[t] = CountTagRel(t) \/ t \in Off(h))'
  BY <1>1, <1>11, OneServes DEF CountTagRel
<1>13. ASSUME StatusKept
       PROVE  \A u \in Users : (userCount[u] = Cardinality(UserQuestions(u)) \/ Owes(h, u))'
  BY <1>1, <1>11, <1>13, OneServes DEF UserQuestions
<1> QED BY <1>1, <1>2, <1>4, <1>6, <1>7, <1>8, <1>10, <1>12, <1>13, StepSettles

LEMMA SetStatusSettles ==
  ASSUME TypeOK, AllChained, Settling, NEW h \in Handlers, SetStatus(h)
  PROVE  Settling'
<1>1. /\ Busy(h) /\ Head(todo[h]) = "setStatus" /\ Advance(h)
      /\ UNCHANGED <<rel, tagCount, userCount, plan, tally>>
      /\ status' = [status EXCEPT ![req[h].q] = NewStatus(h)]
      /\ revived' = IF NewStatus(h) = "deleted" THEN revived \ {req[h].q}
                    ELSE IF status[req[h].q] = "deleted" /\ req[h].op # "recover"
                    THEN revived \cup {req[h].q} ELSE revived
  BY DEF SetStatus, At, counters
<1>2. PICK o \in Questions : o = req[h].q
  BY <1>1, TypeSplit, Serves
<1>3. /\ status'[o] = NewStatus(h) /\ status[o] \in Statuses \cup {"none"}
      /\ \A q \in Questions \ {o} : status'[q] = status[q]
  BY <1>1, <1>2 DEF TypeOK
<1>4. Apart(h)
  BY <1>1, <1>2, <1>3, StepHead DEF Apart
<1>5. Uses(req[h].op, "setStatus") /\ req[h] \in Request
  BY <1>1, StepHead, TypeSplit, Serves
<1>6. req[h].op \in {"approve", "reject", "add", "remove", "recover", "close", "reopen", "adminSet"}
  BY <1>5 DEF Uses, Decisions
<1>7. status'[o] = IF req[h].op = "add" THEN verdict[h]
                   ELSE IF req[h].op = "adminSet" THEN req[h].to
                   ELSE IF req[h].op = "close" THEN "closed"
                   ELSE IF req[h].op \in {"remove", "reject"} THEN "deleted"
                   ELSE "available"
  BY <1>3 DEF NewStatus
<1>8. status'[o] # "none"
  <2>1. verdict[h] \in Statuses /\ req[h].to \in Statuses
    BY <1>1, TypeSplit, Serves DEF LocalsOK
  <2> QED BY <1>7, <2>1 DEF Statuses
<1>17. ASSUME req[h].op \in {"approve", "reject", "close", "reopen", "adminSet"}
       PROVE  Tagged(o)'
  <2>1. Tagged(o) /\ status[o] # "none"
    BY <1>1, <1>2, <1>17, OneServes DEF Tagging, Written, Decisions
  <2>2. Listed(o)' = Listed(o)
    BY <1>1 DEF Listed
  <2> QED BY <1>1, <1>2, <1>3, <1>17, <2>1, <2>2 DEF Tagged
<1>9. req[h].op # "add" => HasRow(o)'
  BY <1>1, <1>2, OneServes DEF Written, HasRow
<1>10. Blank(plan[h])
  BY <1>1, OneServes DEF TagsPlanned, Planned
<1>11. Off(h) = {} /\ \A t \in Tags : CountTagRel(t)' = CountTagRel(t)
  BY <1>1, <1>10 DEF Off, Blank, CountTagRel
<1>12. \A t \in Tags : (tagCount[t] = CountTagRel(t) \/ t \in Off(h))'
  BY <1>1, <1>11, OneServes
<1>13. \A u : ~Owes(h, u)
  BY <1>1 DEF Owes
<1>14. \A u \in Users : u # Owner[o] => UserQuestions(u)' = UserQuestions(u)
  BY <1>3 DEF UserQuestions
<1>15. CASE req[h].op \in {"close", "reopen", "adminSet"}
  <2>1. ~StatusKept
    BY <1>5, <1>15 DEF StatusKept, Request
  <2>2. ASSUME Busy(h)' PROVE FALSE
    <3>1. /\ Linked(req[h].op, "setStatus", Head(todo'[h])) /\ Uses(req[h].op, Head(todo'[h]))
      BY <1>1, <2>2, StepHead
    <3> QED BY <1>15, <3>1 DEF Linked, Uses, Decisions
  <2> QED BY <1>1, <1>2, <1>4, <1>9, <1>10, <1>12, <1>15, <1>17, <2>1, <2>2, StepSettles
<1>16. CASE req[h].op \in {"approve", "reject", "add", "remove", "recover"}
  <2>1. ~Last(req[h].op, "setStatus")
    BY <1>16 DEF Last, Decisions
  <2>2. Busy(h)' /\ req'[h] = req[h] /\ Linked(req[h].op, "setStatus", Head(todo'[h]))
    BY <1>1, <2>1, StepHead
  <2>3. Head(todo'[h]) = IF req[h].op = "add" THEN "listRels" ELSE "countQuestions"
    BY <2>2 DEF Linked
  <2>4. Written(h)'
    BY <1>2, <1>7, <1>8, <1>9, <1>16, <2>2, <2>3 DEF Written, Decisions
  <2>5. Tagging(h)'
    BY <1>2, <1>16, <1>17, <2>2, <2>3 DEF Tagging, TagOperations, Decisions
  <2>6. TagsPlanned(h)'
    BY <1>1, <1>10, <1>16, <2>2, <2>3 DEF TagsPlanned, Planned, Blank
  <2>7. \A u \in Users : StatusKept =>
          (userCount[u] = Cardinality(UserQuestions(u)) \/ Owes(h, u))'
    <3>1. Owes(h, Owner[o])'
      BY <1>2, <2>2, <2>3 DEF Owes
    <3> QED BY <1>1, <1>13, <1>14, <3>1, OneServes
  <2> QED BY <1>1, <1>2, <1>4, <1>12, <2>2, <2>4, <2>5, <2>6, <2>7, StepSettles
<1> QED BY <1>6, <1>15, <1>16

LEMMA CloseReviewSettles ==
  ASSUME TypeOK, AllChained, Settling, NEW h \in Handlers, CloseReview(h)
  PROVE  Settling'
<1>1. /\ Busy(h) /\ Head(todo[h]) = "closeReview" /\ Advance(h)
      /\ UNCHANGED <<status, rel, revived, tagCount, userCount, plan>>
  BY DEF CloseReview, At, question, counters, locals, history
<1>2. Apart(h)
  BY <1>1, StepHead DEF Apart
<1>3. req[h].op \in {"approve", "reject"}
  <2>1. Uses(req[h].op, "closeReview")
    BY <1>1, StepHead
  <2> QED BY <2>1 DEF Uses, Decisions
<1>4. ASSUME Busy(h)' PROVE FALSE
  <2>1. Linked(req[h].op, "closeReview", Head(todo'[h]))
    BY <1>1, <1>4, StepHead
  <2> QED BY <2>1 DEF Linked
<1>5. Blank(plan[h]) /\ plan' = plan
  BY <1>1, OneServes DEF TagsPlanned, Planned
<1>6. Off(h) = {} /\ \A u : ~Owes(h, u)
  BY <1>1, <1>3, <1>5 DEF Off, Owes, Blank
<1>7. HasRow(req[h].q) /\ Tagged(req[h].q)
  BY <1>1, <1>3, OneServes DEF Written, Tagging, Decisions
<1> QED BY <1>1, <1>2, <1>4, <1>5, <1>6, <1>7, ReadersSettle

LEMMA CountQuestionsSettles ==
  ASSUME TypeOK, AllChained, Settling, NEW h \in Handlers, CountQuestions(h)
  PROVE  Settling'
<1>1. /\ Busy(h) /\ Head(todo[h]) = "countQuestions" /\ Advance(h)
      /\ UNCHANGED <<status, rel, revived, tagCount, userCount, plan>>
      /\ tally' = [tally EXCEPT ![h] = Cardinality(UserQuestions(Owner[req[h].q]))]
  BY DEF CountQuestions, At, question, counters, history
<1>2. Apart(h)
  BY <1>1, StepHead DEF Apart
<1>3. tally'[h] = Cardinality(UserQuestions(Owner[req[h].q]))
  BY <1>1 DEF TypeOK
<1>4. req[h].op \in {"approve", "reject", "add", "remove", "recover"}
  <2>1. Uses(req[h].op, "countQuestions")
    BY <1>1, StepHead
  <2> QED BY <2>1 DEF Uses, Decisions
<1>5. Busy(h)' /\ req'[h] = req[h] /\ Head(todo'[h]) = "saveQuestions"
  <2>1. ~Last(req[h].op, "countQuestions")
    BY <1>4 DEF Last, Decisions
  <2>2. Busy(h)' /\ req'[h] = req[h] /\ Linked(req[h].op, "countQuestions", Head(todo'[h]))
    BY <1>1, <2>1, StepHead
  <2> QED BY <2>2 DEF Linked
<1>6. Written(h)'
  BY <1>1, <1>4, <1>5, OneServes DEF Written, HasRow, Decisions
<1>7. Tagging(h)'
  BY <1>1, <1>4, <1>5, OneServes DEF Tagging, Tagged, Listed
<1>8. Blank(plan[h])
  BY <1>1, OneServes DEF TagsPlanned, Planned
<1>9. TagsPlanned(h)'
  BY <1>1, <1>3, <1>5, <1>8 DEF TagsPlanned, Planned, Blank, UserQuestions
<1>10. Off(h) = {} /\ \A u : Owes(h, u) => Owes(h, u)'
  BY <1>1, <1>5, <1>8 DEF Off, Owes, Blank
<1> QED BY <1>1, <1>2, <1>5, <1>6, <1>7, <1>9, <1>10, ReadersSettle

LEMMA SaveQuestionCountSettles ==
  ASSUME TypeOK, AllChained, Settling, NEW h \in Handlers, SaveQuestionCount(h)
  PROVE  Settling'
<1>1. /\ Busy(h) /\ Head(todo[h]) = "saveQuestions" /\ Advance(h)
      /\ UNCHANGED <<status, rel, revived, tagCount, plan>>
      /\ userCount' = [userCount EXCEPT ![Owner[req[h].q]] = tally[h]]
  BY DEF SaveQuestionCount, At, question, history
<1>2. PICK o \in Questions : o = req[h].q
  BY <1>1, TypeSplit, Serves
<1>3. /\ Owner[o] \in Users /\ userCount'[Owner[o]] = tally[h]
      /\ \A u \in Users \ {Owner[o]} : userCount'[u] = userCount[u]
  BY <1>1, <1>2, QuestionAssumption DEF TypeOK
<1>4. Apart(h)
  BY <1>1, StepHead DEF Apart
<1>5. req[h].op \in {"approve", "reject", "add", "remove", "recover"} /\ req[h] \in Request
  <2>1. Uses(req[h].op, "saveQuestions")
    BY <1>1, StepHead
  <2> QED BY <1>1, <2>1, TypeSplit, Serves DEF Uses, Decisions
<1>6. Blank(plan[h]) /\ tally[h] = Cardinality(UserQuestions(Owner[o]))
  BY <1>1, <1>2, OneServes DEF TagsPlanned, Planned
<1>7. Off(h) = {} /\ \A u \in Users : Owes(h, u) => u = Owner[o]
  BY <1>1, <1>2, <1>6 DEF Off, Owes, Blank
<1>8. \A t \in Tags : (tagCount[t] = CountTagRel(t) \/ t \in Off(h))'
  BY <1>1, <1>7, OneServes DEF CountTagRel
<1>9. ASSUME StatusKept
      PROVE  \A u \in Users : (userCount[u] = Cardinality(UserQuestions(u)) \/ Owes(h, u))'
  <2>1. status' = status
    BY <1>1
  <2>2. \A u \in Users : UserQuestions(u)' = UserQuestions(u)
    BY <2>1 DEF UserQuestions
  <2> QED BY <1>1, <1>3, <1>6, <1>7, <1>9, <2>2, OneServes
<1>10. CASE req[h].op = "add"
  <2>1. ASSUME Busy(h)' PROVE FALSE
    <3>1. Linked(req[h].op, "saveQuestions", Head(todo'[h])) /\ Uses(req[h].op, Head(todo'[h]))
      BY <1>1, <2>1, StepHead
    <3> QED BY <1>10, <3>1 DEF Linked, Uses, Decisions
  <2>2. /\ \A t \in req[h].tags : rel[o][t] = "available"
        /\ \E t \in Tags : t \in req[h].tags
    <3>1. req[h].tags # {} /\ req[h].tags \in SUBSET Tags
      BY <1>5, <1>10 DEF Request, TagOperations
    <3> QED BY <1>1, <1>2, <1>10, <3>1, OneServes DEF Tagging, TagOperations
  <2>3. \E t \in Tags : rel[o][t] = "available"
    BY <2>2
  <2>4. HasRow(o)' /\ Tagged(o)'
    BY <1>1, <2>3 DEF HasRow, Tagged, Listed
  <2> QED BY <1>1, <1>2, <1>4, <1>6, <1>8, <1>9, <2>1, <2>4, StepSettles
<1>11. CASE req[h].op \in {"approve", "reject", "remove", "recover"}
  <2>1. ~Last(req[h].op, "saveQuestions")
    BY <1>11 DEF Last, Decisions
  <2>2. Busy(h)' /\ req'[h] = req[h] /\ Linked(req[h].op, "saveQuestions", Head(todo'[h]))
    BY <1>1, <2>1, StepHead
  <2>3. Head(todo'[h]) = IF req[h].op = "remove" THEN "listRels"
                         ELSE IF req[h].op = "recover" THEN "setRels" ELSE "closeReview"
    BY <2>2 DEF Linked
  <2>4. Written(h)'
    BY <1>1, <1>11, <2>2, <2>3, OneServes DEF Written, HasRow, Decisions
  <2>5. Tagging(h)'
    BY <1>1, <1>11, <2>2, <2>3, OneServes
    DEF Tagging, TagOperations, Decisions, Tagged, Listed
  <2>6. TagsPlanned(h)'
    BY <1>1, <1>6, <1>11, <2>2, <2>3 DEF TagsPlanned, Planned, Blank
  <2> QED BY <1>1, <1>2, <1>4, <1>8, <1>9, <2>2, <2>4, <2>5, <2>6, StepSettles
<1> QED BY <1>5, <1>10, <1>11

\* A step that plans what is to be done with tags, and stays where it is or goes on.
LEMMA ListRelsSettles ==
  ASSUME TypeOK, AllChained, Settling, NEW h \in Handlers, ListRels(h)
  PROVE  Settling'
<1>1. /\ Busy(h) /\ Head(todo[h]) = "listRels" /\ Advance(h)
      /\ UNCHANGED <<status, rel, revived, tagCount, userCount, tally>>
      /\ plan' = [plan EXCEPT ![h] =
           IF req[h].tags = {} THEN [@ EXCEPT !.refresh = Listed(req[h].q)]
           ELSE [@ EXCEPT !.unread = req[h].tags,
                          !.drop = Listed(req[h].q) \ req[h].tags,
                          !.refresh = Listed(req[h].q) \cup req[h].tags]]
  BY DEF ListRels, At, question, counters, history
<1>2. req[h] \in Request /\ plan[h] \in Plans /\ plan \in [Handlers -> Plans]
  BY <1>1, TypeSplit, Serves, PlanType
<1>3. /\ \A g \in Handlers \ {h} : plan'[g] = plan[g]
      /\ req[h].tags = {} => plan'[h] = [plan[h] EXCEPT !.refresh = Listed(req[h].q)]
      /\ req[h].tags # {} => plan'[h] = [plan[h] EXCEPT
                               !.unread = req[h].tags,
                               !.drop = Listed(req[h].q) \ req[h].tags,
                               !.refresh = Listed(req[h].q) \cup req[h].tags]
  BY <1>1, <1>2
<1>4. Apart(h)
  BY <1>1, <1>3, StepHead DEF Apart
<1>5. req[h].op \in {"add", "edit", "applyEdit", "remove", "recover", "hide", "show"}
      /\ (req[h].op \in {"add", "edit", "applyEdit"} <=> req[h].tags # {})
  <2>1. Uses(req[h].op, "listRels")
    BY <1>1, StepHead
  <2> QED BY <1>2, <2>1 DEF Uses, TagOperations, Request
<1>6. Busy(h)' /\ req'[h] = req[h] /\ Linked(req[h].op, "listRels", Head(todo'[h]))
  <2>1. ~Last(req[h].op, "listRels")
    BY <1>5 DEF Last, Decisions, ListOperations
  <2> QED BY <1>1, <2>1, StepHead
<1>7. Head(todo'[h]) = IF req[h].op \in {"add", "edit", "applyEdit"} THEN "readRels"
                       ELSE IF req[h].op = "remove" THEN "setRels" ELSE "refreshTags"
  BY <1>5, <1>6 DEF Linked, TagOperations
<1>8. Written(h)'
  BY <1>1, <1>5, <1>6, <1>7, OneServes DEF Written, HasRow, Decisions
<1>9. Blank(plan[h])
  BY <1>1, OneServes DEF TagsPlanned, Planned
<1>10. CASE req[h].tags = {}
  <2>1. /\ plan'[h].refresh = Listed(req[h].q) /\ plan'[h].counted = {}
        /\ plan'[h].create = {} /\ plan'[h].enable = {}
    BY <1>2, <1>3, <1>9, <1>10 DEF Plans, Blank
  <2>2. Tagging(h)'
    BY <1>1, <1>5, <1>6, <1>7, <1>10, OneServes DEF Tagging, Listed, TagOperations, Decisions
  <2>3. TagsPlanned(h)'
    BY <1>1, <1>5, <1>6, <1>7, <1>10, <2>1 DEF TagsPlanned, Planned, Blank, Listed
  <2>4. \A t \in Off(h) : t \in Off(h)'
    BY <1>1, <1>9, <2>1 DEF Off, Blank, Listed
  <2>5. \A u : Owes(h, u) => Owes(h, u)'
    BY <1>1, <1>5, <1>10 DEF Owes
  <2> QED BY <1>1, <1>4, <1>6, <1>8, <2>2, <2>3, <2>4, <2>5, ReadersSettle
<1>11. CASE req[h].tags # {}
  <2>1. /\ plan'[h].unread = req[h].tags
        /\ plan'[h].drop = Listed(req[h].q) \ req[h].tags
        /\ plan'[h].refresh = Listed(req[h].q) \cup req[h].tags
        /\ plan'[h].counted = {} /\ plan'[h].create = {} /\ plan'[h].enable = {}
    BY <1>2, <1>3, <1>9, <1>11 DEF Plans, Blank
  <2>2. Tagging(h)'
    BY <1>1, <1>5, <1>6, <1>7, <1>11, <2>1 DEF Tagging, Decisions
  <2>3. TagsPlanned(h)'
    BY <1>1, <1>5, <1>6, <1>7, <1>11, <2>1 DEF TagsPlanned, Planned, Blank
  <2>4. Off(h) = {}
    BY <1>1, <1>5, <1>9, <1>11 DEF Off, Blank
  <2>5. \A u : Owes(h, u) => Owes(h, u)'
    BY <1>1, <1>5, <1>6, <1>7, <1>11 DEF Owes
  <2> QED BY <1>1, <1>4, <1>6, <1>8, <2>2, <2>3, <2>4, <2>5, ReadersSettle
<1> QED BY <1>10, <1>11

LEMMA ReadRelSettles ==
  ASSUME TypeOK, AllChained, Settling, NEW h \in Handlers, NEW t \in Tags, ReadRel(h, t)
  PROVE  Settling'
<1> DEFINE found == rel[req[h].q][t]
           p == [plan[h] EXCEPT
                   !.unread = @ \ {t},
                   !.create = IF found = "none" THEN @ \cup {t} ELSE @,
                   !.enable = IF found \in {"hide", "deleted"} THEN @ \cup {t} ELSE @]
<1>1. /\ Busy(h) /\ Head(todo[h]) = "readRels" /\ t \in plan[h].unread
      /\ UNCHANGED <<status, rel, revived, tagCount, userCount, tally>>
      /\ plan' = [plan EXCEPT ![h] = p]
      /\ IF p.unread = {} THEN Advance(h) ELSE UNCHANGED <<todo, req>>
  BY DEF ReadRel, At, question, counters, history
<1>2. /\ req[h] \in Request /\ req[h].q \in Questions
      /\ plan[h] \in Plans /\ plan \in [Handlers -> Plans]
  BY <1>1, TypeSplit, Serves, PlanType
<1>3. \A g \in Handlers \ {h} : plan'[g] = plan[g]
  BY <1>1, <1>2
<1>4. /\ plan'[h].unread = plan[h].unread \ {t} /\ p.unread = plan'[h].unread
      /\ plan'[h].create = IF found = "none" THEN plan[h].create \cup {t} ELSE plan[h].create
      /\ plan'[h].enable = IF found \in {"hide", "deleted"} THEN plan[h].enable \cup {t}
                                                            ELSE plan[h].enable
      /\ plan'[h].drop = plan[h].drop /\ plan'[h].refresh = plan[h].refresh
      /\ plan'[h].counted = plan[h].counted
  BY <1>1, <1>2 DEF Plans
<1>5. found \in {"none", "hide", "deleted", "available"}
  BY <1>2 DEF TypeOK, RelStatuses
<1> HIDE DEF p, found
<1>6. req[h].op \in {"add", "edit", "applyEdit"}
  <2>1. Uses(req[h].op, "readRels")
    BY <1>1, HeadUsed
  <2> QED BY <2>1 DEF Uses, TagOperations
<1>7. /\ Busy(h)' /\ req'[h] = req[h]
      /\ Head(todo'[h]) = IF plan'[h].unread = {} THEN "dropRels" ELSE "readRels"
      /\ \A g \in Handlers \ {h} : todo'[g] = todo[g] /\ req'[g] = req[g]
  <2>1. CASE p.unread = {}
    <3>1. ~Last(req[h].op, "readRels")
      BY <1>6 DEF Last
    <3>2. /\ Busy(h)' /\ req'[h] = req[h] /\ Linked(req[h].op, "readRels", Head(todo'[h]))
          /\ \A g \in Handlers \ {h} : todo'[g] = todo[g] /\ req'[g] = req[g]
      BY <1>1, <2>1, <3>1, StepHead
    <3> QED BY <1>4, <2>1, <3>2 DEF Linked
  <2>2. CASE p.unread # {}
    BY <1>1, <1>4, <2>2 DEF Busy
  <2> QED BY <2>1, <2>2
<1>8. Apart(h)
  BY <1>1, <1>3, <1>7 DEF Apart
<1>9. Written(h)'
  BY <1>1, <1>6, <1>7, OneServes DEF Written, HasRow, Decisions
<1>10. /\ plan[h].drop \cap req[h].tags = {}
       /\ plan[h].unread \cup plan[h].create \subseteq req[h].tags
       /\ \A s \in req[h].tags : \/ s \in plan[h].unread \cup plan[h].create \cup plan[h].enable
                                 \/ rel[req[h].q][s] = "available"
       /\ \A s \in plan[h].create : rel[req[h].q][s] = "none"
  BY <1>1, OneServes DEF Tagging
<1>11. Tagging(h)'
  BY <1>1, <1>4, <1>5, <1>6, <1>7, <1>10 DEF Tagging, Decisions, found
<1>12. /\ plan[h].unread \cup plan[h].drop \cup plan[h].create \cup plan[h].enable
            \subseteq plan[h].refresh
       /\ plan[h].counted = {}
  BY <1>1, OneServes DEF TagsPlanned
<1>13. TagsPlanned(h)'
  BY <1>1, <1>4, <1>7, <1>12 DEF TagsPlanned, Planned
<1>14. \A s \in Off(h) : s \in Off(h)'
  BY <1>1, <1>4 DEF Off
<1>15. \A u : Owes(h, u) => Owes(h, u)'
  BY <1>1, <1>6, <1>7 DEF Owes
<1> QED BY <1>1, <1>7, <1>8, <1>9, <1>11, <1>13, <1>14, <1>15, ReadersSettle

LEMMA CountTagSettles ==
  ASSUME TypeOK, AllChained, Settling, NEW h \in Handlers, NEW t \in Tags, CountTag(h, t)
  PROVE  Settling'
<1>1. /\ Busy(h) /\ Head(todo[h]) = "refreshTags"
      /\ plan[h].counted = {} /\ t \in plan[h].refresh
      /\ UNCHANGED <<status, rel, revived, tagCount, userCount, todo, req>>
      /\ tally' = [tally EXCEPT ![h] = CountTagRel(t)]
      /\ plan' = [plan EXCEPT ![h].counted = {t}, ![h].refresh = @ \ {t}]
  BY DEF CountTag, At, question, counters, history
<1>2. plan[h] \in Plans /\ plan \in [Handlers -> Plans] /\ tally'[h] = CountTagRel(t)
  BY <1>1, TypeSplit, PlanType DEF TypeOK
<1>3. /\ \A g \in Handlers \ {h} : plan'[g] = plan[g]
      /\ plan'[h].counted = {t} /\ plan'[h].refresh = plan[h].refresh \ {t}
      /\ plan'[h].create = plan[h].create /\ plan'[h].enable = plan[h].enable
  BY <1>1, <1>2 DEF Plans
<1>4. Busy(h)' /\ Apart(h)
  BY <1>1, <1>3 DEF Busy, Apart
<1>5. Written(h)'
  BY <1>1, OneServes DEF Written, HasRow
<1>6. Tagging(h)'
  BY <1>1, OneServes DEF Tagging, Listed, Tagged, Readable
<1>7. TagsPlanned(h)'
  <2>1. CountTagRel(t)' = CountTagRel(t)
    BY <1>1 DEF CountTagRel
  <2>2. \A s \in plan'[h].counted : tally'[h] = CountTagRel(s)'
    BY <1>2, <1>3, <2>1
  <2>3. plan'[h].create = {} /\ plan'[h].enable = {}
    BY <1>1, <1>3, OneServes DEF TagsPlanned
  <2> QED BY <1>1, <2>2, <2>3 DEF TagsPlanned, Planned
<1>8. \A s \in Off(h) : s \in Off(h)'
  BY <1>1, <1>3 DEF Off
<1>9. \A u : Owes(h, u) => Owes(h, u)'
  BY <1>1 DEF Owes, Busy
<1> QED BY <1>1, <1>4, <1>5, <1>6, <1>7, <1>8, <1>9, ReadersSettle

LEMMA SaveTagCountSettles ==
  ASSUME TypeOK, AllChained, Settling, NEW h \in Handlers, SaveTagCount(h)
  PROVE  Settling'
<1>1. /\ Busy(h) /\ Head(todo[h]) = "refreshTags" /\ plan[h].counted # {}
      /\ UNCHANGED <<status, rel, revived, userCount, todo, req>>
      /\ tagCount' = [t \in Tags |-> IF t \in plan[h].counted THEN tally[h] ELSE tagCount[t]]
      /\ plan' = [plan EXCEPT ![h].counted = {}]
  BY DEF SaveTagCount, At, question, history
<1>2. /\ plan[h] \in Plans /\ plan \in [Handlers -> Plans]
      /\ req[h].q \in Questions
  BY <1>1, TypeSplit, PlanType, Serves
<1>3. /\ \A g \in Handlers \ {h} : plan'[g] = plan[g]
      /\ plan'[h].counted = {} /\ plan'[h].refresh = plan[h].refresh
      /\ plan'[h].create = plan[h].create /\ plan'[h].enable = plan[h].enable
  BY <1>1, <1>2 DEF Plans
<1>4. Busy(h)' /\ Apart(h)
  BY <1>1, <1>3 DEF Busy, Apart
<1>5. Written(h)'
  BY <1>1, OneServes DEF Written, HasRow
<1>6. Tagging(h)'
  BY <1>1, OneServes DEF Tagging, Listed, Tagged, Readable
<1>7. TagsPlanned(h)'
  BY <1>1, <1>2, <1>3, OneServes DEF TagsPlanned, Planned
<1>8. ASSUME NEW t \in Tags PROVE (tagCount[t] = CountTagRel(t) \/ t \in Off(h))'
  <2>1. CountTagRel(t)' = CountTagRel(t)
    BY <1>1 DEF CountTagRel
  <2>2. CASE t \in plan[h].counted
    BY <1>1, <2>1, <2>2, OneServes DEF TagsPlanned
  <2>3. CASE t \notin plan[h].counted
    <3>1. tagCount'[t] = tagCount[t]
      BY <1>1, <2>3
    <3>2. t \in Off(h) => t \in Off(h)'
      <4>1. todo' = todo /\ Head(todo[h]) = "refreshTags"
        BY <1>1
      <4>2. plan'[h].refresh = plan[h].refresh
        BY <1>3
      <4> QED BY <2>3, <4>1, <4>2 DEF Off
    <3>3. tagCount[t] = CountTagRel(t) \/ t \in Off(h)
      BY <1>1, OneServes
    <3> QED BY <2>1, <3>1, <3>2, <3>3
  <2> QED BY <2>2, <2>3
<1>9. ASSUME StatusKept
      PROVE  \A u \in Users : (userCount[u] = Cardinality(UserQuestions(u)) \/ Owes(h, u))'
  <2>1. status' = status
    BY <1>1
  <2>2. \A u \in Users : UserQuestions(u)' = UserQuestions(u) /\ (Owes(h, u) => Owes(h, u)')
    BY <1>1, <2>1 DEF UserQuestions, Owes, Busy
  <2> QED BY <1>1, <1>9, <2>2, OneServes
<1>10. PICK o \in Questions : o = req[h].q
  BY <1>2
<1> QED BY <1>1, <1>4, <1>5, <1>6, <1>7, <1>8, <1>9, <1>10, StepSettles

LEMMA EndRefreshSettles ==
  ASSUME TypeOK, AllChained, Settling, NEW h \in Handlers, EndRefresh(h)
  PROVE  Settling'
<1>1. /\ Busy(h) /\ Head(todo[h]) = "refreshTags" /\ Advance(h)
      /\ plan[h].counted = {} /\ plan[h].refresh = {}
      /\ UNCHANGED <<status, rel, revived, tagCount, userCount, plan, tally>>
  BY DEF EndRefresh, At, question, counters, locals, history
<1>2. Apart(h)
  BY <1>1, StepHead DEF Apart
<1>3. Blank(plan[h])
  BY <1>1, OneServes DEF TagsPlanned, Blank
<1>4. Off(h) = {}
  BY <1>1, <1>3 DEF Off, Blank
<1>5. /\ req[h].op \in {"add", "edit", "applyEdit", "remove", "recover", "hide", "show"}
      /\ req[h] \in Request
  <2>1. Uses(req[h].op, "refreshTags")
    BY <1>1, StepHead
  <2> QED BY <1>1, <2>1, TypeSplit, Serves DEF Uses, TagOperations
<1>6. CASE req[h].op \in {"add", "hide", "show"}
  <2>1. ~Last(req[h].op, "refreshTags")
    BY <1>6 DEF Last, ListOperations
  <2>2. Busy(h)' /\ req'[h] = req[h] /\ Linked(req[h].op, "refreshTags", Head(todo'[h]))
    BY <1>1, <2>1, StepHead
  <2>3. Head(todo'[h]) = IF req[h].op = "add" THEN "countQuestions" ELSE "saveOperation"
    BY <2>2 DEF Linked
  <2>4. Written(h)'
    BY <1>1, <1>6, <2>2, <2>3, OneServes DEF Written, HasRow, Decisions
  <2>5. Tagging(h)'
    <3>1. CASE req[h].op = "add"
      BY <1>1, <2>2, <2>3, <3>1, OneServes DEF Tagging, Decisions
    <3>2. CASE req[h].op \in {"hide", "show"}
      <4>1. Listed(req[h].q) # {}
        BY <1>1, <3>2, OneServes DEF Tagging
      <4> QED BY <1>1, <2>2, <2>3, <3>2, <4>1 DEF Tagging, Tagged, Listed, TagOperations
    <3> QED BY <1>6, <3>1, <3>2
  <2>6. TagsPlanned(h)'
    BY <1>1, <1>3, <1>6, <2>2, <2>3 DEF TagsPlanned, Planned, Blank
  <2>7. \A u : Owes(h, u) => Owes(h, u)'
    BY <1>1, <1>6, <2>2, <2>3 DEF Owes
  <2> QED BY <1>1, <1>2, <1>4, <2>2, <2>4, <2>5, <2>6, <2>7, ReadersSettle
<1>7. CASE req[h].op \in {"edit", "applyEdit", "remove", "recover"}
  <2>1. ASSUME Busy(h)' PROVE FALSE
    <3>1. Linked(req[h].op, "refreshTags", Head(todo'[h])) /\ Uses(req[h].op, Head(todo'[h]))
      BY <1>1, <2>1, StepHead
    <3> QED BY <1>7, <3>1 DEF Linked, Uses, ListOperations
  <2>2. HasRow(req[h].q)
    BY <1>1, <1>7, OneServes DEF Written
  <2>3. Tagged(req[h].q)
    <3>1. CASE req[h].op \in {"edit", "applyEdit"}
      <4>1. req[h].tags # {} /\ req[h].tags \in SUBSET Tags
        BY <1>5, <3>1 DEF Request, TagOperations
      <4>2. \A t \in req[h].tags : rel[req[h].q][t] = "available"
        BY <1>1, <3>1, OneServes DEF Tagging, TagOperations
      <4> QED BY <4>1, <4>2 DEF Tagged, Listed
    <3>2. CASE req[h].op = "remove"
      BY <1>1, <3>2, OneServes DEF Written, Tagged, Readable
    <3>3. CASE req[h].op = "recover"
      BY <1>1, <3>3, OneServes DEF Tagging, Tagged
    <3> QED BY <1>7, <3>1, <3>2, <3>3
  <2>4. \A u : ~Owes(h, u)
    BY <1>1, <1>7 DEF Owes
  <2> QED BY <1>1, <1>2, <1>3, <1>4, <2>1, <2>2, <2>3, <2>4, ReadersSettle
<1> QED BY <1>5, <1>6, <1>7

(* The steps that set rows. *)

LEMMA RowsSet ==
  ASSUME TypeOK, NEW o \in Questions, NEW ts \in SUBSET Tags, NEW st \in RelStatuses,
         SetRel(o, ts, st)
  PROVE  /\ \A q \in Questions \ {o} : rel'[q] = rel[q]
         /\ \A t \in Tags : rel'[o][t] = IF t \in ts THEN st ELSE rel[o][t]
         /\ \A t \in Tags \ ts : CountTagRel(t)' = CountTagRel(t)
         /\ (\E t \in Tags : rel[o][t] # "none") => \E t \in Tags : rel'[o][t] # "none"
<1>1. /\ \A q \in Questions \ {o} : rel'[q] = rel[q]
      /\ \A t \in Tags : rel'[o][t] = IF t \in ts THEN st ELSE rel[o][t]
  BY DEF TypeOK, SetRel
<1>2. \A t \in Tags \ ts : CountTagRel(t)' = CountTagRel(t)
  <2> SUFFICES ASSUME NEW t \in Tags \ ts PROVE CountTagRel(t)' = CountTagRel(t)
    OBVIOUS
  <2>1. \A q \in Questions : rel'[q][t] = rel[q][t]
    BY <1>1
  <2> QED BY <2>1, CountsSame
<1>3. st # "none"
  BY DEF RelStatuses
<1> QED BY <1>1, <1>2, <1>3

\* The statements before and after which rows are set.
SetsRows(h) ==
  /\ req[h].op \notin Decisions
  /\ Head(todo[h]) \notin {"countQuestions", "saveQuestions"}
  /\ req[h].op = "remove" => Head(todo[h]) \notin {"read", "setStatus"}
  /\ req[h].op = "add" => /\ Head(todo[h]) \notin {"insert", "queueReview", "setStatus"}
                          /\ Head(todo'[h]) \notin {"insert", "queueReview", "setStatus"}

\* Rows of the question that is served are set, and their tags are to be counted.
LEMMA RowsSettle ==
  ASSUME TypeOK, Settling, NEW h \in Handlers, NEW o \in Questions, req[h].q = o, Busy(h),
         NEW ts \in SUBSET Tags, NEW st \in RelStatuses, SetRel(o, ts, st),
         UNCHANGED <<status, tagCount, userCount>>,
         \A q \in Questions \ {o} : q \in revived' <=> q \in revived,
         \A g \in Handlers \ {h} : todo'[g] = todo[g] /\ req'[g] = req[g] /\ plan'[g] = plan[g],
         Busy(h)', req'[h] = req[h], (Tagging(h))', (TagsPlanned(h))',
         SetsRows(h),
         \A t \in Tags : t \in Off(h) => t \in Off(h)',
         \A t \in ts : rel[o][t] = "available" \/ st = "available" => t \in Off(h)'
  PROVE  Settling'
<1>1. /\ \A q \in Questions \ {o} : rel'[q] = rel[q]
      /\ \A t \in Tags : rel'[o][t] = IF t \in ts THEN st ELSE rel[o][t]
      /\ \A t \in Tags \ ts : CountTagRel(t)' = CountTagRel(t)
      /\ (\E t \in Tags : rel[o][t] # "none") => \E t \in Tags : rel'[o][t] # "none"
  BY RowsSet
<1>2. Apart(h)
  BY <1>1 DEF Apart
<1>3. Written(h)'
  <2>1. Written(h)
    BY OneServes
  <2> QED BY <1>1, <2>1 DEF Written, HasRow, SetsRows
<1>4. ASSUME NEW t \in Tags PROVE (tagCount[t] = CountTagRel(t) \/ t \in Off(h))'
  <2>1. CountTagRel(t)' = CountTagRel(t) \/ t \in Off(h)'
    <3>1. CASE t \notin ts
      BY <1>1, <3>1
    <3>2. CASE t \in ts /\ ~(rel[o][t] = "available" \/ st = "available")
      <4>1. \A q \in Questions : rel'[q][t] = "available" <=> rel[q][t] = "available"
        BY <1>1, <3>2
      <4> QED BY <4>1, CountsSame
    <3> QED BY <3>1, <3>2
  <2>2. tagCount[t] = CountTagRel(t) \/ t \in Off(h)
    BY OneServes
  <2> QED BY <2>1, <2>2
<1>5. ASSUME StatusKept
      PROVE  \A u \in Users : (userCount[u] = Cardinality(UserQuestions(u)) \/ Owes(h, u))'
  <2>1. status' = status
    OBVIOUS
  <2>2. \A u \in Users : UserQuestions(u)' = UserQuestions(u)
    BY <2>1 DEF UserQuestions
  <2>3. \A u \in Users : Owes(h, u) => Owes(h, u)'
    BY DEF Owes, SetsRows
  <2>4. \A u \in Users : userCount[u] = Cardinality(UserQuestions(u)) \/ Owes(h, u)
    BY <1>5, OneServes
  <2> QED BY <2>2, <2>3, <2>4
<1> QED BY <1>2, <1>3, <1>4, <1>5, StepSettles

LEMMA DropRelsSettles ==
  ASSUME TypeOK, AllChained, Settling, NEW h \in Handlers, DropRels(h)
  PROVE  Settling'
<1>1. /\ Busy(h) /\ Head(todo[h]) = "dropRels" /\ Advance(h)
      /\ UNCHANGED <<status, revived, tagCount, userCount, tally>>
      /\ SetRel(req[h].q, plan[h].drop, "deleted")
      /\ plan' = [plan EXCEPT ![h].drop = {}]
  BY DEF DropRels, At, question, counters, history
<1>2. /\ plan[h] \in Plans /\ plan \in [Handlers -> Plans] /\ plan[h].drop \in SUBSET Tags
      /\ req[h].tags \in SUBSET Tags
  BY <1>1, TypeSplit, Serves, PlanType DEF Plans
<1>3. PICK o \in Questions : o = req[h].q
  BY <1>1, TypeSplit, Serves
<1>4. /\ plan'[h].drop = {} /\ plan'[h].unread = plan[h].unread
      /\ plan'[h].create = plan[h].create /\ plan'[h].enable = plan[h].enable
      /\ plan'[h].refresh = plan[h].refresh /\ plan'[h].counted = plan[h].counted
      /\ \A g \in Handlers \ {h} : plan'[g] = plan[g]
  BY <1>1, <1>2 DEF Plans
<1>5. req[h].op \in {"add", "edit", "applyEdit"}
  <2>1. Uses(req[h].op, "dropRels")
    BY <1>1, HeadUsed
  <2> QED BY <2>1 DEF Uses, TagOperations
<1>6. Busy(h)' /\ req'[h] = req[h] /\ Head(todo'[h]) = "createRels"
  <2>1. ~Last(req[h].op, "dropRels")
    BY <1>5 DEF Last
  <2>2. Busy(h)' /\ req'[h] = req[h] /\ Linked(req[h].op, "dropRels", Head(todo'[h]))
    BY <1>1, <2>1, StepHead
  <2> QED BY <2>2 DEF Linked
<1>7. \A g \in Handlers \ {h} : todo'[g] = todo[g] /\ req'[g] = req[g] /\ plan'[g] = plan[g]
  BY <1>1, <1>4, StepHead
<1>8. \A t \in Tags : rel'[o][t] = IF t \in plan[h].drop THEN "deleted" ELSE rel[o][t]
  BY <1>1, <1>2, <1>3, RowsSet DEF RelStatuses
<1>9. /\ plan[h].drop \cap req[h].tags = {} /\ plan[h].unread = {}
      /\ plan[h].create \subseteq req[h].tags
      /\ \A t \in req[h].tags : \/ t \in plan[h].create \cup plan[h].enable
                                \/ rel[o][t] = "available"
      /\ \A t \in plan[h].create : rel[o][t] = "none"
  BY <1>1, <1>3, OneServes DEF Tagging
<1>10. Tagging(h)'
  BY <1>2, <1>3, <1>4, <1>5, <1>6, <1>8, <1>9 DEF Tagging, Decisions
<1>11. /\ plan[h].drop \cup plan[h].create \cup plan[h].enable \subseteq plan[h].refresh
       /\ plan[h].counted = {}
  BY <1>1, OneServes DEF TagsPlanned
<1>12. TagsPlanned(h)'
  BY <1>4, <1>6, <1>9, <1>11 DEF TagsPlanned, Planned
<1>13. /\ \A t \in Tags : t \in Off(h) => t \in Off(h)'
       /\ \A t \in plan[h].drop : t \in Off(h)'
  BY <1>1, <1>2, <1>4, <1>11 DEF Off
<1>14. "deleted" \in RelStatuses
  BY DEF RelStatuses
<1> QED
  <2> DEFINE ts == plan[h].drop
             st == "deleted"
  <2>1. ts \in SUBSET Tags /\ st \in RelStatuses /\ SetRel(o, ts, st)
    BY <1>1, <1>2, <1>3, <1>14
  <2> HIDE DEF ts
  <2>2. \A t \in ts : t \in Off(h)'
    BY <1>13 DEF ts
  <2>3. SetsRows(h)
    BY <1>1, <1>5, <1>6 DEF SetsRows, Decisions
  <2> HIDE DEF st
  <2> QED
    BY <1>1, <1>3, <1>6, <1>7, <1>10, <1>12, <1>13, <2>1, <2>2, <2>3, RowsSettle

LEMMA CreateRelsSettles ==
  ASSUME TypeOK, AllChained, Settling, NEW h \in Handlers, CreateRels(h)
  PROVE  Settling'
<1>0. Busy(h) /\ Head(todo[h]) = "createRels"
  BY DEF CreateRels, At
<1>1. /\ Advance(h)
      /\ UNCHANGED <<status, revived, tagCount, userCount, tally>>
      /\ SetRel(req[h].q, plan[h].create, "available")
      /\ plan' = [plan EXCEPT ![h].create = {}]
  <2>1. \A t \in plan[h].create : rel[req[h].q][t] = "none"
    BY <1>0, OneServes DEF Tagging
  <2> QED BY <2>1 DEF CreateRels, question, counters, history
<1>2. /\ plan[h] \in Plans /\ plan \in [Handlers -> Plans] /\ plan[h].create \in SUBSET Tags
      /\ req[h].tags \in SUBSET Tags
  BY <1>0, TypeSplit, Serves, PlanType DEF Plans
<1>3. PICK o \in Questions : o = req[h].q
  BY <1>0, TypeSplit, Serves
<1>4. /\ plan'[h].create = {} /\ plan'[h].unread = plan[h].unread
      /\ plan'[h].drop = plan[h].drop /\ plan'[h].enable = plan[h].enable
      /\ plan'[h].refresh = plan[h].refresh /\ plan'[h].counted = plan[h].counted
      /\ \A g \in Handlers \ {h} : plan'[g] = plan[g]
  BY <1>1, <1>2 DEF Plans
<1>5. req[h].op \in {"add", "edit", "applyEdit"}
  <2>1. Uses(req[h].op, "createRels")
    BY <1>0, HeadUsed
  <2> QED BY <2>1 DEF Uses, TagOperations
<1>6. Busy(h)' /\ req'[h] = req[h] /\ Head(todo'[h]) = "enableRels"
  <2>1. ~Last(req[h].op, "createRels")
    BY <1>5 DEF Last
  <2>2. Busy(h)' /\ req'[h] = req[h] /\ Linked(req[h].op, "createRels", Head(todo'[h]))
    BY <1>0, <1>1, <2>1, StepHead
  <2> QED BY <2>2 DEF Linked
<1>7. \A g \in Handlers \ {h} : todo'[g] = todo[g] /\ req'[g] = req[g] /\ plan'[g] = plan[g]
  BY <1>0, <1>1, <1>4, StepHead
<1>8. \A t \in Tags : rel'[o][t] = IF t \in plan[h].create THEN "available" ELSE rel[o][t]
  BY <1>1, <1>2, <1>3, RowsSet DEF RelStatuses
<1>9. /\ plan[h].drop \cap req[h].tags = {} /\ plan[h].unread = {}
      /\ \A t \in req[h].tags : \/ t \in plan[h].create \cup plan[h].enable
                                \/ rel[o][t] = "available"
  BY <1>0, <1>3, OneServes DEF Tagging
<1>10. Tagging(h)'
  BY <1>2, <1>3, <1>4, <1>5, <1>6, <1>8, <1>9 DEF Tagging, Decisions
<1>11. /\ plan[h].drop \cup plan[h].create \cup plan[h].enable \subseteq plan[h].refresh
       /\ plan[h].counted = {}
  BY <1>0, OneServes DEF TagsPlanned
<1>12. TagsPlanned(h)'
  BY <1>4, <1>6, <1>9, <1>11 DEF TagsPlanned, Planned
<1>13. /\ \A t \in Tags : t \in Off(h) => t \in Off(h)'
       /\ \A t \in plan[h].create : t \in Off(h)'
  BY <1>0, <1>2, <1>4, <1>11 DEF Off
<1> QED
  <2> DEFINE ts == plan[h].create
             st == "available"
  <2>1. ts \in SUBSET Tags /\ st \in RelStatuses /\ SetRel(o, ts, st)
    BY <1>1, <1>2, <1>3 DEF RelStatuses
  <2> HIDE DEF ts
  <2>2. \A t \in ts : t \in Off(h)'
    BY <1>13 DEF ts
  <2>3. SetsRows(h)
    BY <1>0, <1>5, <1>6 DEF SetsRows, Decisions
  <2> HIDE DEF st
  <2> QED
    BY <1>0, <1>1, <1>3, <1>6, <1>7, <1>10, <1>12, <1>13, <2>1, <2>2, <2>3, RowsSettle

LEMMA EnableRelsSettles ==
  ASSUME TypeOK, AllChained, Settling, NEW h \in Handlers, EnableRels(h)
  PROVE  Settling'
<1>1. /\ Busy(h) /\ Head(todo[h]) = "enableRels" /\ Advance(h)
      /\ UNCHANGED <<status, tagCount, userCount, tally>>
      /\ SetRel(req[h].q, plan[h].enable, "available")
      /\ plan' = [plan EXCEPT ![h].enable = {}]
      /\ revived' = revived \ {req[h].q}
  BY DEF EnableRels, At, question, counters, history
<1>2. /\ plan[h] \in Plans /\ plan \in [Handlers -> Plans] /\ plan[h].enable \in SUBSET Tags
      /\ req[h].tags \in SUBSET Tags
  BY <1>1, TypeSplit, Serves, PlanType DEF Plans
<1>3. PICK o \in Questions : o = req[h].q
  BY <1>1, TypeSplit, Serves
<1>4. /\ plan'[h].enable = {} /\ plan'[h].create = plan[h].create
      /\ plan'[h].refresh = plan[h].refresh /\ plan'[h].counted = plan[h].counted
      /\ \A g \in Handlers \ {h} : plan'[g] = plan[g]
  BY <1>1, <1>2 DEF Plans
<1>5. req[h].op \in {"add", "edit", "applyEdit"}
  <2>1. Uses(req[h].op, "enableRels")
    BY <1>1, HeadUsed
  <2> QED BY <2>1 DEF Uses, TagOperations
<1>6. Busy(h)' /\ req'[h] = req[h] /\ Head(todo'[h]) = "refreshTags"
  <2>1. ~Last(req[h].op, "enableRels")
    BY <1>5 DEF Last
  <2>2. Busy(h)' /\ req'[h] = req[h] /\ Linked(req[h].op, "enableRels", Head(todo'[h]))
    BY <1>1, <2>1, StepHead
  <2> QED BY <2>2 DEF Linked
<1>7. \A g \in Handlers \ {h} : todo'[g] = todo[g] /\ req'[g] = req[g] /\ plan'[g] = plan[g]
  BY <1>1, <1>4, StepHead
<1>8. \A t \in Tags : rel'[o][t] = IF t \in plan[h].enable THEN "available" ELSE rel[o][t]
  BY <1>1, <1>2, <1>3, RowsSet DEF RelStatuses
<1>9. /\ plan[h].create = {}
      /\ \A t \in req[h].tags : t \in plan[h].enable \/ rel[o][t] = "available"
  <2>1. /\ plan[h].unread = {} /\ plan[h].create = {}
        /\ \A t \in req[h].tags : \/ t \in plan[h].unread \cup plan[h].create \cup plan[h].enable
                                  \/ rel[o][t] = "available"
    BY <1>1, <1>3, OneServes DEF Tagging
  <2> QED BY <2>1
<1>10. Tagging(h)'
  BY <1>2, <1>3, <1>5, <1>6, <1>8, <1>9 DEF Tagging, Decisions
<1>11. plan[h].enable \subseteq plan[h].refresh /\ plan[h].counted = {}
  BY <1>1, OneServes DEF TagsPlanned
<1>12. TagsPlanned(h)'
  BY <1>4, <1>6, <1>9, <1>11 DEF TagsPlanned, Planned
<1>13. /\ \A t \in Tags : t \in Off(h) => t \in Off(h)'
       /\ \A t \in plan[h].enable : t \in Off(h)'
  BY <1>1, <1>2, <1>4, <1>11 DEF Off
<1> QED
  <2> DEFINE ts == plan[h].enable
             st == "available"
  <2>1. ts \in SUBSET Tags /\ st \in RelStatuses /\ SetRel(o, ts, st)
    BY <1>1, <1>2, <1>3 DEF RelStatuses
  <2> HIDE DEF ts
  <2>2. \A t \in ts : t \in Off(h)'
    BY <1>13 DEF ts
  <2>3. SetsRows(h)
    BY <1>1, <1>5, <1>6 DEF SetsRows, Decisions
  <2> HIDE DEF st
  <2> QED
    BY <1>1, <1>3, <1>6, <1>7, <1>10, <1>12, <1>13, <2>1, <2>2, <2>3, RowsSettle

LEMMA SetRelsSettles ==
  ASSUME TypeOK, AllChained, Settling, NEW h \in Handlers, SetRels(h)
  PROVE  Settling'
<1> DEFINE ts == {t \in Tags : rel[req[h].q][t] # "none"}
           st == IF req[h].op = "hide" THEN "hide"
                 ELSE IF req[h].op = "remove" THEN "deleted" ELSE "available"
<1>1. /\ Busy(h) /\ Head(todo[h]) = "setRels" /\ Advance(h)
      /\ UNCHANGED <<status, tagCount, userCount, tally, plan>>
      /\ SetRel(req[h].q, ts, st)
      /\ revived' = revived \ {req[h].q}
  BY DEF SetRels, At, question, counters, locals, history
<1>2. PICK o \in Questions : o = req[h].q
  BY <1>1, TypeSplit, Serves
<1>3. ts \in SUBSET Tags /\ st \in RelStatuses
  BY DEF RelStatuses
<1>4. req[h].op \in {"remove", "recover", "hide", "show"}
  <2>1. Uses(req[h].op, "setRels")
    BY <1>1, HeadUsed
  <2> QED BY <2>1 DEF Uses
<1>5. /\ Busy(h)' /\ req'[h] = req[h]
      /\ Head(todo'[h]) = IF req[h].op = "remove" THEN "refreshTags" ELSE "listRels"
  <2>1. ~Last(req[h].op, "setRels")
    BY <1>4 DEF Last, ListOperations
  <2>2. Busy(h)' /\ req'[h] = req[h] /\ Linked(req[h].op, "setRels", Head(todo'[h]))
    BY <1>1, <2>1, StepHead
  <2> QED BY <2>2 DEF Linked
<1>6. \A g \in Handlers \ {h} : todo'[g] = todo[g] /\ req'[g] = req[g] /\ plan'[g] = plan[g]
  BY <1>1, StepHead
<1>7. \A t \in Tags : rel'[o][t] = IF t \in ts THEN st ELSE rel[o][t]
  BY <1>1, <1>2, <1>3, RowsSet
<1>8. \A t \in Tags : t \in ts => rel'[o][t] = st /\ rel[o][t] # "none"
  BY <1>2, <1>7
<1>9. \E t \in Tags : t \in ts
  BY <1>1, <1>2, <1>4, OneServes DEF Written, HasRow
<1>10. Tagging(h)'
  <2>1. CASE req[h].op = "remove"
    BY <1>5, <2>1 DEF Tagging, TagOperations, Decisions
  <2>2. CASE req[h].op \in {"recover", "hide", "show"}
    <3>1. st \in {"available", "hide"}
      BY <2>2
    <3> HIDE DEF st, ts
    <3>2. \E t \in Tags : rel'[o][t] \in {"available", "hide"}
      BY <1>8, <1>9, <3>1
    <3>3. \E t \in Tags : t \in Listed(req[h].q)'
      BY <1>2, <1>5, <3>2 DEF Listed
    <3> QED BY <1>5, <2>2, <3>3 DEF Tagging, TagOperations, Decisions
  <2> QED BY <1>4, <2>1, <2>2
<1>11. /\ plan[h].create = {} /\ plan[h].enable = {} /\ plan[h].counted = {}
       /\ req[h].op # "remove" => Blank(plan[h])
       /\ req[h].op = "remove" => Listed(o) \subseteq plan[h].refresh
  BY <1>1, <1>2, OneServes DEF TagsPlanned, Planned
<1>12. TagsPlanned(h)'
  BY <1>1, <1>4, <1>5, <1>11 DEF TagsPlanned, Planned, Blank
<1>13. \A t \in Tags : t \in Off(h) => t \in Off(h)'
  BY <1>1, <1>5 DEF Off
<1>14. ASSUME NEW t \in ts, rel[o][t] = "available" \/ st = "available" PROVE t \in Off(h)'
  <2>1. t \in Tags /\ rel'[o][t] = st
    BY <1>8
  <2>2. CASE req[h].op = "remove"
    <3>1. rel[o][t] = "available"
      BY <1>14, <2>2
    <3>2. t \in plan[h].refresh
      BY <1>11, <2>1, <2>2, <3>1 DEF Listed
    <3> QED BY <1>1, <2>1, <3>2 DEF Off
  <2>3. CASE req[h].op \in {"recover", "hide", "show"}
    <3>1. st \in {"available", "hide"}
      BY <2>3
    <3> HIDE DEF st, ts
    <3>2. rel'[o][t] \in {"available", "hide"}
      BY <2>1, <3>1
    <3> QED BY <1>2, <1>5, <2>1, <2>3, <3>2 DEF Off, Listed
  <2> QED BY <1>4, <2>2, <2>3
<1>15. SetsRows(h)
  BY <1>1, <1>4, <1>5 DEF SetsRows, Decisions
<1>16. SetRel(o, ts, st)
  BY <1>1, <1>2
<1> HIDE DEF ts, st
<1> QED
  BY <1>1, <1>2, <1>3, <1>5, <1>6, <1>10, <1>12, <1>13, <1>14, <1>15, <1>16, RowsSettle

\* A request is taken when no other is in flight.
LEMMA ReceiveSettles ==
  ASSUME TypeOK, Settling, NEW h \in Handlers, NEW r \in Request, Receive(h, r), clean'
  PROVE  Settling'
<1>1. /\ \A g \in Handlers : ~Busy(g)
      /\ UNCHANGED <<status, rel, revived, tagCount, userCount, plan, tally>>
      /\ req' = [req EXCEPT ![h] = r] /\ todo' = [todo EXCEPT ![h] = Program(r)]
      /\ r.op = "add" => status[r.q] = "none"
      /\ r.op # "add" => status[r.q] # "none"
  BY DEF Receive, question, counters, locals, history
<1>2. /\ r.q \in Questions /\ r.op \in Operations /\ r.op \in AllOperations
  BY QuestionAssumption DEF Request
<1>3. /\ todo'[h] = Program(r) /\ req'[h] = r
      /\ \A g \in Handlers \ {h} : todo'[g] = todo[g] /\ req'[g] = req[g]
  BY <1>1 DEF TypeOK
<1>4. Program(r) # <<>> /\ First(r.op, Head(Program(r)))
  BY ProgramType, ProgramChained
<1>5. Busy(h)' /\ \A g \in Handlers \ {h} : ~Busy(g)'
  BY <1>1, <1>3, <1>4 DEF Busy
<1>6. /\ r.op = "add" => Head(todo'[h]) = "insert"
      /\ r.op = "applyEdit" => Head(todo'[h]) = "listRels"
      /\ r.op \in Decisions => Head(todo'[h]) = "readReview"
      /\ r.op \in {"close", "reopen", "adminSet"} => Head(todo'[h]) = "setStatus"
      /\ r.op \in ListOperations \cup {"edit", "remove", "recover"} => Head(todo'[h]) = "read"
  BY <1>3, <1>4 DEF First
<1>7. \/ r.op = "add" \/ r.op = "applyEdit" \/ r.op \in Decisions
      \/ r.op \in {"close", "reopen", "adminSet"}
      \/ r.op \in ListOperations \cup {"edit", "remove", "recover"}
  BY <1>2 DEF AllOperations, TagOperations
<1>8. \A q \in Questions : HasRow(q) /\ Tagged(q)
  BY <1>1 DEF Settling
<1>9. /\ \A q \in Questions : HasRow(q)' /\ Tagged(q)'
      /\ HasRow(r.q) /\ Tagged(r.q)
  BY <1>1, <1>2, <1>8 DEF HasRow, Tagged, Readable, Listed
<1>10. Written(h)'
  <2>1. CASE r.op = "add"
    BY <1>1, <1>3, <1>6, <2>1 DEF Written, Decisions
  <2>2. CASE r.op # "add"
    BY <1>1, <1>3, <1>6, <1>9, <2>2 DEF Written, HasRow, Decisions, ListOperations
  <2> QED BY <2>1, <2>2
<1>11. Tagging(h)'
  BY <1>1, <1>3, <1>6, <1>7, <1>9
  DEF Tagging, Tagged, Readable, Listed, StatusKept, Decisions, ListOperations, TagOperations
<1>12. TagsPlanned(h)'
  <2>1. Blank(plan[h])
    BY <1>1 DEF Settling
  <2> QED
    BY <1>1, <1>3, <1>6, <1>7, <2>1 DEF TagsPlanned, Planned, Blank, Decisions, ListOperations
<1>13. \A g \in Handlers : Off(g) = {} /\ \A u : ~Owes(g, u)
  BY <1>1 DEF Settling, Off, Owes, Blank
<1>14. \A t \in Tags : tagCount[t] = CountTagRel(t)
  BY <1>13 DEF Settling
<1>15. StatusKept => \A u \in Users : userCount[u] = Cardinality(UserQuestions(u))
  BY <1>13 DEF Settling
<1>16. /\ \A t \in Tags : CountTagRel(t)' = CountTagRel(t)
       /\ \A u \in Users : UserQuestions(u)' = UserQuestions(u)
  <2>1. rel' = rel /\ status' = status
    BY <1>1
  <2> QED BY <2>1 DEF CountTagRel, UserQuestions
<1>17. Alone'
  BY <1>5 DEF Alone
<1>18. \A g \in Handlers : /\ Busy(g)' => (Written(g))' /\ (Tagging(g))' /\ (TagsPlanned(g))'
                           /\ ~Busy(g)' => Blank(plan'[g])
  BY <1>1, <1>5, <1>10, <1>11, <1>12 DEF Settling
<1>19. (\A t \in Tags : tagCount[t] = CountTagRel(t))'
  BY <1>1, <1>14, <1>16
<1>20. StatusKept => (\A u \in Users : userCount[u] = Cardinality(UserQuestions(u)))'
  BY <1>1, <1>15, <1>16
<1> QED BY <1>9, <1>17, <1>18, <1>19, <1>20 DEF Settling, StatusKept

\* All that a user asked is deleted when no request is in flight.
LEMMA RemoveAllSettles ==
  ASSUME TypeOK, Settling, NEW u \in Users, RemoveAllUserQuestion(u), clean'
  PROVE  Settling'
<1> DEFINE dropped == {q \in Questions : Owner[q] = u /\ status[q] \notin {"none", "deleted"}}
<1>1. /\ "removeAll" \in Operations /\ \A h \in Handlers : ~Busy(h)
      /\ UNCHANGED <<rel, tagCount, todo, req, plan>>
      /\ status' = [q \in Questions |-> IF q \in dropped THEN "deleted" ELSE status[q]]
      /\ revived' = revived \ dropped
  BY DEF RemoveAllUserQuestion, counters, locals
<1>2. \A h \in Handlers : ~Busy(h)' /\ Off(h)' = {} /\ Off(h) = {} /\ Blank(plan'[h])
  BY <1>1 DEF Settling, Busy, Off, Blank
<1>3. ~StatusKept
  BY <1>1 DEF StatusKept
<1>4. ASSUME NEW q \in Questions PROVE HasRow(q)' /\ Tagged(q)'
  <2>1. HasRow(q) /\ Tagged(q) /\ Listed(q)' = Listed(q)
    BY <1>1 DEF Settling, Listed
  <2> HIDE DEF dropped
  <2>2. q \in dropped => status[q] # "none"
    BY DEF dropped
  <2> QED BY <1>1, <2>1, <2>2 DEF HasRow, Tagged
<1>5. \A t \in Tags : (tagCount[t] = CountTagRel(t))'
  <2>1. \A t \in Tags : tagCount[t] = CountTagRel(t) /\ CountTagRel(t)' = CountTagRel(t)
    BY <1>1, <1>2 DEF Settling, CountTagRel
  <2> QED BY <1>1, <2>1
<1> QED BY <1>2, <1>3, <1>4, <1>5 DEF Settling, Alone, StatusKept

LEMMA NextSettles ==
  TypeOK /\ AllChained /\ SettleInv /\ [Next]_vars => SettleInv'
<1> SUFFICES ASSUME TypeOK, AllChained, SettleInv, [Next]_vars, clean' PROVE Settling'
  BY DEF SettleInv
<1>1. CASE UNCHANGED vars
  <2>1. Settling
    BY <1>1 DEF SettleInv, vars
  <2>2. \A h \in Handlers : /\ Busy(h)' <=> Busy(h)
                            /\ Off(h)' = Off(h) /\ plan'[h] = plan[h] /\ req'[h] = req[h]
                            /\ \A u \in Users : Owes(h, u)' <=> Owes(h, u)
    BY <1>1 DEF vars, Busy, Off, Owes, Listed
  <2>3. \A h \in Handlers : /\ Written(h) => Written(h)'
                            /\ Tagging(h) => Tagging(h)'
                            /\ TagsPlanned(h) => TagsPlanned(h)'
    BY <1>1
    DEF vars, Written, Tagging, TagsPlanned, HasRow, Tagged, Readable, Listed,
        CountTagRel, UserQuestions
  <2>4. \A q \in Questions : (HasRow(q)' <=> HasRow(q))
                             /\ (Tagged(q)' <=> Tagged(q))
    BY <1>1 DEF vars, HasRow, Tagged, Readable, Listed
  <2>5. /\ \A t \in Tags : CountTagRel(t)' = CountTagRel(t) /\ tagCount'[t] = tagCount[t]
        /\ \A u \in Users : UserQuestions(u)' = UserQuestions(u) /\ userCount'[u] = userCount[u]
    BY <1>1 DEF vars, CountTagRel, UserQuestions
  <2>6. Alone' /\ \A h \in Handlers :
                    /\ Busy(h)' => Written(h)' /\ Tagging(h)' /\ TagsPlanned(h)'
                    /\ ~Busy(h)' => Blank(plan'[h])
    BY <2>1, <2>2, <2>3 DEF Settling, Alone
  <2>7. \A q \in Questions : (\A h \in Handlers : Busy(h)' => req'[h].q # q) =>
          HasRow(q)' /\ Tagged(q)'
    BY <2>1, <2>2, <2>4 DEF Settling
  <2>8. /\ \A t \in Tags : (tagCount[t] = CountTagRel(t) \/ \E h \in Handlers : t \in Off(h))'
        /\ StatusKept => \A u \in Users :
             (userCount[u] = Cardinality(UserQuestions(u)) \/ \E h \in Handlers : Owes(h, u))'
    BY <2>1, <2>2, <2>5 DEF Settling
  <2> QED
    BY <2>6, <2>7, <2>8 DEF Settling, StatusKept
<1>2. ASSUME NEW h \in Handlers, NEW r \in Request, Receive(h, r) PROVE Settling'
  <2>1. clean
    BY <1>2 DEF Receive
  <2> QED BY <1>2, <2>1, ReceiveSettles DEF SettleInv
<1>3. ASSUME NEW h \in Handlers, Step(h) PROVE Settling'
  <2>1. clean
    BY <1>3
    DEF history, Step, Refuse, ReadQuestion, InsertQuestion, QueueReview, ReadReview, SetStatus,
        CloseReview, SaveOperation, ListRels, DropRels, CreateRels, EnableRels, SetRels, ReadRel,
        CountTag, SaveTagCount, EndRefresh, CountQuestions, SaveQuestionCount
  <2>2. Settling
    BY <2>1 DEF SettleInv
  <2> QED
    BY <1>3, <2>2, RefuseSettles, ReadQuestionSettles, InsertQuestionSettles,
       QueueReviewSettles, ReadReviewSettles, SetStatusSettles, CloseReviewSettles,
       SaveOperationSettles, ListRelsSettles, DropRelsSettles, CreateRelsSettles,
       EnableRelsSettles, SetRelsSettles, ReadRelSettles, CountTagSettles,
       SaveTagCountSettles, EndRefreshSettles, CountQuestionsSettles, SaveQuestionCountSettles
    DEF Step
<1>4. ASSUME NEW h \in Handlers, Fail(h) \/ FailTolerated(h) \/ FailToCount(h) PROVE FALSE
  BY <1>4 DEF Fail, FailTolerated, FailToCount
<1>5. ASSUME NEW u \in Users, RemoveAllUserQuestion(u) PROVE Settling'
  <2>1. clean
    BY <1>5 DEF RemoveAllUserQuestion
  <2> QED BY <1>5, <2>1, RemoveAllSettles DEF SettleInv
<1> QED BY <1>1, <1>2, <1>3, <1>4, <1>5 DEF Next

LEMMA InitSettles == Init => AllChained /\ SettleInv
<1> SUFFICES ASSUME Init PROVE AllChained /\ Settling
  BY DEF SettleInv
<1>1. \A h \in Handlers : ~Busy(h) /\ plan[h] = NothingPlanned
  BY DEF Init, Busy
<1>2. \A h \in Handlers : Blank(plan[h])
  BY <1>1 DEF Blank, NothingPlanned
<1>3. \A q \in Questions :
        /\ status[q] = IF InitialTags[q] = {} THEN "none" ELSE "available"
        /\ \A t \in Tags : rel[q][t] = IF t \in InitialTags[q] THEN "available" ELSE "none"
        /\ InitialTags[q] \in SUBSET Tags
  BY QuestionAssumption DEF Init
<1>4. \A q \in Questions : HasRow(q) /\ Tagged(q)
  BY <1>3 DEF HasRow, Tagged, Readable, Listed
<1>5. ASSUME NEW t \in Tags PROVE tagCount[t] = CountTagRel(t)
  <2>1. {q \in Questions : t \in InitialTags[q]} = {q \in Questions : rel[q][t] = "available"}
    BY <1>3
  <2>2. tagCount[t] = Cardinality({q \in Questions : t \in InitialTags[q]})
    BY DEF Init
  <2> QED BY <2>1, <2>2 DEF CountTagRel
<1>6. ASSUME NEW u \in Users PROVE userCount[u] = Cardinality(UserQuestions(u))
  <2>1. {q \in Questions : Owner[q] = u /\ InitialTags[q] # {}} = UserQuestions(u)
    BY <1>3 DEF UserQuestions
  <2>2. userCount[u] = Cardinality({q \in Questions : Owner[q] = u /\ InitialTags[q] # {}})
    BY DEF Init
  <2> QED BY <2>1, <2>2
<1> QED BY <1>1, <1>2, <1>4, <1>5, <1>6 DEF AllChained, Settling, Alone

LEMMA SettleInvariant == Spec => [](TypeOK /\ AllChained /\ SettleInv)
<1> QED BY TypeCorrect, InitSettles, NextChained, NextSettles, PTL DEF Spec

LEMMA IdleSettled ==
  ASSUME Settling, Idle
  PROVE  /\ \A t \in Tags : tagCount[t] = CountTagRel(t)
         /\ StatusKept => \A u \in Users : userCount[u] = Cardinality(UserQuestions(u))
         /\ \A q \in Questions : Tagged(q)
<1>1. \A h \in Handlers : ~Busy(h) /\ Off(h) = {} /\ \A u : ~Owes(h, u)
  BY DEF Idle, Settling, Off, Owes, Blank
<1> QED BY <1>1 DEF Settling

(* Whatever operations come one by one, the question count of a tag ends up *)
(* as the number of its available rows: every row an operation sets has its *)
(* tag among those the operation counts again.                              *)
THEOREM TagCountsAreSettled == Spec => []TagCountSettled
<1>1. SettleInv => TagCountSettled
  BY IdleSettled DEF SettleInv, TagCountSettled
<1> QED BY <1>1, SettleInvariant, PTL

(* The same of the question count of a user, as long as nobody closes,      *)
(* reopens or sets the status of a question, which counts nobody again.     *)
THEOREM UserCountsAreSettled == StatusKept => (Spec => []UserCountSettled)
<1> SUFFICES ASSUME StatusKept PROVE Spec => []UserCountSettled
  OBVIOUS
<1>1. SettleInv => UserCountSettled
  BY IdleSettled DEF SettleInv, UserCountSettled
<1> QED BY <1>1, SettleInvariant, PTL

(* A question that can be read has a tag, whatever operations come one by   *)
(* one: removing deletes all rows, recovering brings all that ever were     *)
(* back, an edit ends with the rows of the tags wanted, of which there is   *)
(* one, and what writes another status leaves the rows alone.  Only where   *)
(* such a status replaces "deleted" do the rows stay deleted (revived).     *)
THEOREM ReadableIsTagged == Spec => []LiveIsTagged
<1>1. SettleInv => LiveIsTagged
  BY IdleSettled DEF SettleInv, LiveIsTagged, Tagged, Readable
<1> QED BY <1>1, SettleInvariant, PTL

-----------------------------------------------------------------------------
(***************************************************************************)
(* Pending questions, whatever overlaps and fails.  A request that adds a *)
(* question has it to itself until its row is there (QuestionWaits); from *)
(* then on a decision finds the question either with its status for good  *)
(* or still being added, and then has overtaken it (WorkWaits).           *)
(***************************************************************************)
Excused == overtaken \cup unqueued
Deciding == {"countQuestions", "saveQuestions", "closeReview"}
StatusSteps == {"insert", "queueReview", "setStatus", "closeReview"}

\* Nobody will make question q pending any more.
Settled(q) == status[q] # "pending" /\ \A h \in Handlers : ~Adding(h, q)

QuestionWaits(q) ==
  /\ \A g, h \in Handlers : Serving(g, {"add"}, q) /\ Serving(h, {"add"}, q) => g = h
  /\ status[q] = "none" =>
       /\ review[q] = "none"
       /\ \A h \in Handlers : Busy(h) /\ req[h].q = q =>
            req[h].op = "add" /\ Head(todo[h]) = "insert"
  /\ review[q] \in {"approved", "rejected"} => Settled(q) \/ q \in overtaken
  /\ status[q] = "pending" /\ (\A h \in Handlers : ~Adding(h, q)) =>
       review[q] = "pending" \/ q \in Excused

WorkWaits(h) ==
  LET q == req[h].q   op == req[h].op   x == Head(todo[h]) IN
  /\ x = "insert" => status[q] = "none"
  /\ op \in Decisions /\ x \in Deciding => Settled(q) \/ q \in overtaken
  /\ op = "add" /\ x = "setStatus" /\ verdict[h] = "pending" =>
       review[q] = "pending" \/ q \in Excused

Waiting ==
  /\ \A q \in Questions : QuestionWaits(q)
  /\ \A h \in Handlers : Busy(h) => WorkWaits(h)

\* A step of h leaves other handlers where they are.
LEMMA OthersKeep ==
  ASSUME TypeOK, AllChained, NEW h \in Handlers,
         \/ Busy(h) /\ Advance(h) /\ \A g \in Handlers \ {h} : verdict'[g] = verdict[g]
         \/ Return(h)
         \/ UNCHANGED <<todo, req, verdict>>
         \/ FailToCount(h)
  PROVE  \A g \in Handlers \ {h} :
           todo'[g] = todo[g] /\ req'[g] = req[g] /\ verdict'[g] = verdict[g]
<1>1. CASE Busy(h) /\ Advance(h) /\ \A g \in Handlers \ {h} : verdict'[g] = verdict[g]
  BY <1>1, StepHead
<1>2. CASE Return(h)
  BY <1>2 DEF Return, TypeOK
<1>3. CASE UNCHANGED <<todo, req, verdict>>
  BY <1>3
<1>4. CASE FailToCount(h)
  BY <1>4 DEF FailToCount, TypeOK, locals
<1> QED BY <1>1, <1>2, <1>3, <1>4

\* A step that neither writes the status or the review of a question nor
\* begins to add one.
LEMMA QuietWaits ==
  ASSUME TypeOK, Waiting, NEW h \in Handlers, NEW o \in Questions, Busy(h), req[h].q = o,
         \A g \in Handlers \ {h} :
           todo'[g] = todo[g] /\ req'[g] = req[g] /\ verdict'[g] = verdict[g],
         UNCHANGED <<status, review, overtaken>>, unqueued \subseteq unqueued',
         Busy(h)' => /\ req'[h] = req[h] /\ WorkWaits(h)'
                     /\ Head(todo'[h]) = "insert" => Head(todo[h]) = "insert"
                     /\ Adding(h, o)' => Adding(h, o),
         status[o] = "none" /\ Busy(h)' => todo'[h] = todo[h],
         Adding(h, o) => Adding(h, o)' \/ review[o] = "pending" \/ o \in unqueued'
  PROVE  Waiting'
<1>1. \A g \in Handlers, q \in Questions :
        /\ Serving(g, {"add"}, q)' => Serving(g, {"add"}, q)
        /\ Adding(g, q)' => Adding(g, q)
        /\ g # h => (Adding(g, q)' <=> Adding(g, q))
  BY DEF Serving, Adding, Busy
<1>2. ASSUME NEW q \in Questions PROVE Settled(q) => Settled(q)'
  BY <1>1 DEF Settled
<1>3. ASSUME NEW q \in Questions PROVE QuestionWaits(q)'
  <2>1. QuestionWaits(q)
    BY DEF Waiting
  <2>2. (\A g, k \in Handlers : Serving(g, {"add"}, q) /\ Serving(k, {"add"}, q) => g = k)'
    BY <1>1, <2>1 DEF QuestionWaits
  <2>3. status'[q] = "none" =>
          /\ review'[q] = "none"
          /\ \A g \in Handlers : Busy(g)' /\ req'[g].q = q =>
               req'[g].op = "add" /\ Head(todo'[g]) = "insert"
    BY <2>1 DEF QuestionWaits, Busy
  <2>4. review'[q] \in {"approved", "rejected"} => Settled(q)' \/ q \in overtaken'
    BY <1>2, <2>1 DEF QuestionWaits
  <2>5. ASSUME status'[q] = "pending", \A g \in Handlers : ~Adding(g, q)'
        PROVE  review'[q] = "pending" \/ q \in Excused'
    <3>1. CASE \A g \in Handlers : ~Adding(g, q)
      BY <2>1, <2>5, <3>1 DEF QuestionWaits, Excused
    <3>2. CASE \E g \in Handlers : Adding(g, q)
      <4>1. Adding(h, q)
        BY <1>1, <2>5, <3>2
      <4>2. q = o
        BY <4>1 DEF Adding, Serving
      <4> QED BY <2>5, <4>1, <4>2 DEF Excused
    <3> QED BY <3>1, <3>2
  <2> QED BY <2>2, <2>3, <2>4, <2>5 DEF QuestionWaits
<1>4. ASSUME NEW g \in Handlers, Busy(g)' PROVE WorkWaits(g)'
  <2>1. CASE g = h
    BY <1>4, <2>1
  <2>2. CASE g # h
    <3>1. Busy(g) /\ WorkWaits(g)
      BY <1>4, <2>2 DEF Busy, Waiting
    <3>2. req[g].q \in Questions /\ req'[g] = req[g] /\ todo'[g] = todo[g]
      BY <2>2, <3>1, TypeSplit, Serves
    <3> QED BY <1>2, <2>2, <3>1, <3>2 DEF WorkWaits, Excused
  <2> QED BY <2>1, <2>2
<1> QED BY <1>3, <1>4 DEF Waiting

\* What writes no more than the status and the review of question o.
LEMMA FrameWaits ==
  ASSUME TypeOK, Waiting, NEW h \in Handlers, NEW o \in Questions, Busy(h), req[h].q = o,
         \A g \in Handlers \ {h} :
           todo'[g] = todo[g] /\ req'[g] = req[g] /\ verdict'[g] = verdict[g],
         Busy(h)' => req'[h] = req[h] /\ WorkWaits(h)',
         \A q \in Questions \ {o} :
           /\ status'[q] = status[q] /\ review'[q] = review[q]
           /\ q \in overtaken' <=> q \in overtaken
           /\ q \in unqueued' <=> q \in unqueued,
         QuestionWaits(o)',
         \A g \in Handlers \ {h} : Busy(g) /\ req[g].q = o => WorkWaits(g)'
  PROVE  Waiting'
<1>1. ASSUME NEW q \in Questions \ {o}, NEW g \in Handlers
      PROVE  /\ Serving(g, {"add"}, q)' <=> Serving(g, {"add"}, q)
             /\ Adding(g, q)' <=> Adding(g, q)
             /\ (Busy(g) /\ req[g].q = q)' <=> Busy(g) /\ req[g].q = q
             /\ Busy(g) /\ req[g].q = q => todo'[g] = todo[g] /\ req'[g] = req[g]
  <2>1. CASE g = h
    BY <2>1 DEF Serving, Adding, Busy
  <2>2. CASE g # h
    BY <2>2 DEF Serving, Adding, Busy
  <2> QED BY <2>1, <2>2
<1>2. ASSUME NEW q \in Questions \ {o} PROVE Settled(q)' <=> Settled(q)
  BY <1>1 DEF Settled
<1>3. ASSUME NEW q \in Questions PROVE QuestionWaits(q)'
  <2>1. CASE q = o
    BY <2>1
  <2>2. CASE q # o
    <3>1. QuestionWaits(q)
      BY DEF Waiting
    <3> QED BY <1>1, <1>2, <2>2, <3>1 DEF QuestionWaits, Excused
  <2> QED BY <2>1, <2>2
<1>4. ASSUME NEW g \in Handlers, Busy(g)' PROVE WorkWaits(g)'
  <2>1. CASE g = h
    BY <1>4, <2>1
  <2>2. CASE g # h
    <3>1. Busy(g) /\ WorkWaits(g)
      BY <1>4, <2>2 DEF Busy, Waiting
    <3>2. req[g].q \in Questions /\ req'[g] = req[g] /\ todo'[g] = todo[g]
      BY <2>2, <3>1, TypeSplit, Serves
    <3>3. CASE req[g].q = o
      BY <2>2, <3>1, <3>3
    <3>4. CASE req[g].q # o
      BY <1>2, <2>2, <3>1, <3>2, <3>4 DEF WorkWaits, Excused
    <3> QED BY <3>3, <3>4
  <2> QED BY <2>1, <2>2
<1> QED BY <1>3, <1>4 DEF Waiting

LEMMA AdvanceWaits ==
  ASSUME TypeOK, AllChained, Waiting, NEW h \in Handlers, Busy(h), Advance(h),
         Head(todo[h]) \notin StatusSteps,
         UNCHANGED <<status, review, overtaken, unqueued, verdict>>
  PROVE  Waiting'
<1>1. PICK o \in Questions : o = req[h].q
  BY TypeSplit, Serves
<1>2. \A g \in Handlers \ {h} :
        todo'[g] = todo[g] /\ req'[g] = req[g] /\ verdict'[g] = verdict[g]
  BY OthersKeep
<1>3. Uses(req[h].op, Head(todo[h]))
  BY StepHead
<1>4. ASSUME Busy(h)'
      PROVE  /\ req'[h] = req[h] /\ Head(todo'[h]) # "insert"
             /\ req[h].op \in Decisions /\ Head(todo'[h]) \in Deciding => Head(todo[h]) \in Deciding
             /\ ~(req[h].op = "add" /\ Head(todo'[h]) \in {"queueReview", "setStatus"})
  <2>1. req'[h] = req[h] /\ Linked(req[h].op, Head(todo[h]), Head(todo'[h]))
    BY <1>4, StepHead
  <2> QED BY <1>3, <2>1
    DEF Uses, Linked, StatusSteps, Statements, Deciding, Decisions, ListOperations, TagOperations
<1>5. WorkWaits(h)
  BY DEF Waiting
<1>6. Settled(o) => Settled(o)'
  <2>1. ~Adding(h, o)'
    BY <1>4 DEF Adding, Serving
  <2>2. \A g \in Handlers \ {h} : Adding(g, o)' <=> Adding(g, o)
    BY <1>2 DEF Adding, Serving, Busy
  <2> QED BY <2>1, <2>2 DEF Settled
<1>7. Busy(h)' => WorkWaits(h)'
  BY <1>1, <1>4, <1>5, <1>6 DEF WorkWaits, Decisions
<1>8. ~Adding(h, o)' /\ ~Adding(h, o)
  BY <1>4 DEF Adding, Serving, StatusSteps
<1>9. status[o] # "none"
  BY <1>1 DEF Waiting, QuestionWaits, StatusSteps
<1> QED BY <1>1, <1>2, <1>4, <1>7, <1>8, <1>9, QuietWaits

LEMMA ReturnWaits ==
  ASSUME TypeOK, AllChained, Waiting, NEW h \in Handlers, Busy(h), Return(h),
         UNCHANGED <<status, review, overtaken>>, unqueued \subseteq unqueued',
         Adding(h, req[h].q) => review[req[h].q] = "pending" \/ req[h].q \in unqueued'
  PROVE  Waiting'
<1>1. PICK o \in Questions : o = req[h].q
  BY TypeSplit, Serves
<1>2. \A g \in Handlers \ {h} :
        todo'[g] = todo[g] /\ req'[g] = req[g] /\ verdict'[g] = verdict[g]
  BY OthersKeep
<1>3. ~Busy(h)'
  BY ReturnKeeps
<1> QED BY <1>1, <1>2, <1>3, QuietWaits

LEMMA StayWaits ==
  ASSUME Waiting, UNCHANGED <<status, review, overtaken, unqueued, todo, req, verdict>>
  PROVE  Waiting'
BY DEF Waiting, QuestionWaits, WorkWaits, Settled, Adding, Serving, Busy, Excused

LEMMA FailToCountWaits ==
  ASSUME TypeOK, AllChained, Waiting, NEW h \in Handlers, FailToCount(h)
  PROVE  Waiting'
<1>1. /\ Busy(h) /\ Head(todo[h]) = "countQuestions" /\ req' = req /\ Len(todo[h]) > 2
      /\ todo' = [todo EXCEPT ![h] = Tail(Tail(@))]
      /\ UNCHANGED <<status, review, overtaken, unqueued, verdict>>
  BY DEF FailToCount, At, question, locals
<1>2. PICK o \in Questions : o = req[h].q
  BY <1>1, TypeSplit, Serves
<1>3. \A g \in Handlers \ {h} :
        todo'[g] = todo[g] /\ req'[g] = req[g] /\ verdict'[g] = verdict[g]
  BY OthersKeep
<1>4. /\ todo[h] \in Seq(Statements) /\ todo[h] # <<>> /\ Chained(req[h].op, todo[h])
      /\ todo'[h] = Tail(Tail(todo[h]))
  BY <1>1 DEF TypeOK, Busy, AllChained
<1>5. /\ Tail(todo[h]) \in Seq(Statements) /\ Tail(todo[h]) # <<>>
      /\ Tail(Tail(todo[h])) # <<>>
  BY <1>1, <1>4, HeadTailProperties, EmptySeq, TailTwice
<1>6. /\ Uses(req[h].op, "countQuestions") /\ Linked(req[h].op, "countQuestions", Head(Tail(todo[h])))
      /\ Chained(req[h].op, Tail(todo[h]))
  BY <1>1, <1>4, <1>5, ChainedTail
<1>7. Linked(req[h].op, Head(Tail(todo[h])), Head(todo'[h]))
  BY <1>4, <1>5, <1>6, ChainedTail
<1>8. Head(todo'[h]) \in {"listRels", "setRels", "closeReview"}
  BY <1>6, <1>7 DEF Linked
<1>9. WorkWaits(h)
  BY <1>1 DEF Waiting
<1>10. ~Adding(h, o) /\ ~Adding(h, o)'
  BY <1>1, <1>8 DEF Adding
<1>11. Settled(o) => Settled(o)'
  <2>1. \A g \in Handlers \ {h} : Adding(g, o)' <=> Adding(g, o)
    BY <1>3 DEF Adding, Serving, Busy
  <2> QED BY <1>1, <1>10, <2>1 DEF Settled
<1>12. WorkWaits(h)'
  BY <1>1, <1>2, <1>8, <1>9, <1>11 DEF WorkWaits, Deciding
<1>13. status[o] # "none"
  BY <1>1, <1>2 DEF Waiting, QuestionWaits
<1> QED BY <1>1, <1>2, <1>3, <1>8, <1>10, <1>12, <1>13, QuietWaits

LEMMA InsertWaits ==
  ASSUME TypeOK, AllChained, Waiting, NEW h \in Handlers, InsertQuestion(h)
  PROVE  Waiting'
<1>1. /\ Busy(h) /\ Head(todo[h]) = "insert" /\ Advance(h)
      /\ UNCHANGED <<review, verdict, overtaken, unqueued>>
      /\ status' = [status EXCEPT ![req[h].q] = "pending"]
  BY DEF InsertQuestion, At, locals, history
<1>2. PICK o \in Questions : o = req[h].q
  BY <1>1, TypeSplit, Serves
<1>3. /\ status'[o] = "pending"
      /\ \A q \in Questions \ {o} : status'[q] = status[q]
  BY <1>1, <1>2 DEF TypeOK
<1>4. \A g \in Handlers \ {h} :
        todo'[g] = todo[g] /\ req'[g] = req[g] /\ verdict'[g] = verdict[g]
  BY <1>1, OthersKeep
<1>5. req[h].op = "add" /\ Busy(h)' /\ req'[h] = req[h] /\ Head(todo'[h]) = "queueReview"
  <2>1. req[h].op = "add"
    BY <1>1, HeadUsed DEF Uses
  <2>2. ~Last(req[h].op, "insert")
    BY <2>1 DEF Last
  <2>3. Busy(h)' /\ req'[h] = req[h] /\ Linked(req[h].op, "insert", Head(todo'[h]))
    BY <1>1, <2>2, StepHead
  <2> QED BY <2>1, <2>3 DEF Linked
<1>6. status[o] = "none" /\ review[o] = "none" /\ QuestionWaits(o)
  BY <1>1, <1>2 DEF Waiting, WorkWaits, QuestionWaits
<1>7. \A g \in Handlers \ {h} : ~(Busy(g) /\ req[g].q = o)
  BY <1>1, <1>2, <1>5, <1>6 DEF QuestionWaits, Serving
<1>8. WorkWaits(h)'
  BY <1>5 DEF WorkWaits, Deciding
<1>9. Adding(h, o)'
  BY <1>2, <1>5 DEF Adding, Serving
<1>10. QuestionWaits(o)'
  BY <1>1, <1>3, <1>4, <1>6, <1>7, <1>9 DEF QuestionWaits, Serving, Busy
<1> QED BY <1>1, <1>2, <1>3, <1>4, <1>5, <1>7, <1>8, <1>10, FrameWaits

LEMMA QueueWaits ==
  ASSUME TypeOK, AllChained, Waiting, NEW h \in Handlers, NEW v \in Verdicts, QueueReview(h, v)
  PROVE  Waiting'
<1>1. /\ Busy(h) /\ Head(todo[h]) = "queueReview" /\ Advance(h)
      /\ UNCHANGED <<status, overtaken>>
      /\ verdict' = [verdict EXCEPT ![h] = StatusOf(v)]
      /\ \/ /\ review' = [review EXCEPT ![req[h].q] = "pending"] /\ unqueued' = unqueued
         \/ v # "needReview" /\ review' = review /\ unqueued' = unqueued
         \/ review' = review /\ unqueued' = unqueued \cup {req[h].q}
  BY DEF QueueReview, At, question
<1>2. PICK o \in Questions : o = req[h].q
  BY <1>1, TypeSplit, Serves
<1>3. /\ \A q \in Questions \ {o} :
           review'[q] = review[q] /\ (q \in unqueued' <=> q \in unqueued)
      /\ review'[o] = "pending" \/ review'[o] = review[o]
      /\ verdict'[h] = "pending" => review'[o] = "pending" \/ o \in unqueued'
      /\ \A g \in Handlers \ {h} : verdict'[g] = verdict[g]
  <2>1. v \in {"approved", "needReview", "deleteDirectly"} /\ verdict'[h] = StatusOf(v)
    BY <1>1, QuestionAssumption DEF TypeOK
  <2>2. v # "needReview" => verdict'[h] # "pending"
    BY <2>1 DEF StatusOf
  <2> QED BY <1>1, <1>2, <2>2 DEF TypeOK
<1>4. \A g \in Handlers \ {h} :
        todo'[g] = todo[g] /\ req'[g] = req[g] /\ verdict'[g] = verdict[g]
  BY <1>1, <1>3, OthersKeep
<1>5. req[h].op = "add" /\ Busy(h)' /\ req'[h] = req[h] /\ Head(todo'[h]) = "setStatus"
  <2>1. req[h].op = "add"
    BY <1>1, HeadUsed DEF Uses
  <2>2. ~Last(req[h].op, "queueReview")
    BY <2>1 DEF Last
  <2>3. Busy(h)' /\ req'[h] = req[h] /\ Linked(req[h].op, "queueReview", Head(todo'[h]))
    BY <1>1, <2>2, StepHead
  <2> QED BY <2>1, <2>3 DEF Linked
<1>6. Adding(h, o) /\ Adding(h, o)' /\ Serving(h, {"add"}, o) /\ Serving(h, {"add"}, o)'
  BY <1>1, <1>2, <1>5 DEF Adding, Serving
<1>7. status[o] # "none" /\ QuestionWaits(o) /\ ~Settled(o)
  BY <1>1, <1>2, <1>6 DEF Waiting, QuestionWaits, Settled
<1>8. WorkWaits(h)'
  BY <1>2, <1>3, <1>5 DEF WorkWaits, Deciding, Excused
<1>9. \A g \in Handlers : Serving(g, {"add"}, o)' => Serving(g, {"add"}, o)
  BY <1>4, <1>6 DEF Serving, Busy
<1>10. QuestionWaits(o)'
  BY <1>1, <1>3, <1>6, <1>7, <1>9 DEF QuestionWaits
<1>11. ASSUME NEW g \in Handlers \ {h}, Busy(g), req[g].q = o PROVE WorkWaits(g)'
  <2>1. req[g].op # "add" /\ WorkWaits(g)
    BY <1>6, <1>7, <1>11 DEF QuestionWaits, Serving, Waiting
  <2> QED BY <1>1, <1>4, <1>7, <1>11, <2>1 DEF WorkWaits
<1> QED BY <1>1, <1>2, <1>3, <1>4, <1>5, <1>8, <1>10, <1>11, FrameWaits

LEMMA SetStatusWaits ==
  ASSUME TypeOK, AllChained, Waiting, NEW h \in Handlers, SetStatus(h)
  PROVE  Waiting'
<1>1. /\ Busy(h) /\ Head(todo[h]) = "setStatus" /\ Advance(h)
      /\ UNCHANGED <<review, unqueued>>
      /\ verdict' = [verdict EXCEPT ![h] = "pending"]
      /\ status' = [status EXCEPT ![req[h].q] = NewStatus(h)]
      /\ overtaken' = IF req[h].op \in Decisions /\ \E g \in Handlers : Adding(g, req[h].q)
                        THEN overtaken \cup {req[h].q} ELSE overtaken
  BY DEF SetStatus, At
<1>2. PICK o \in Questions : o = req[h].q
  BY <1>1, TypeSplit, Serves
<1>3. /\ status'[o] = NewStatus(h)
      /\ \A q \in Questions \ {o} :
           status'[q] = status[q] /\ (q \in overtaken' <=> q \in overtaken)
      /\ o \in overtaken => o \in overtaken'
      /\ \A g \in Handlers \ {h} : verdict'[g] = verdict[g]
  BY <1>1, <1>2 DEF TypeOK
<1>4. \A g \in Handlers \ {h} :
        todo'[g] = todo[g] /\ req'[g] = req[g] /\ verdict'[g] = verdict[g]
  BY <1>1, <1>3, OthersKeep
<1>5. /\ Uses(req[h].op, "setStatus") /\ req[h] \in Request
      /\ Busy(h)' => /\ req'[h] = req[h]
                     /\ Linked(req[h].op, "setStatus", Head(todo'[h]))
  BY <1>1, StepHead, TypeSplit, Serves
<1>6. Busy(h)' => /\ req'[h] = req[h] /\ Head(todo'[h]) \in {"listRels", "countQuestions"}
                  /\ req[h].op = "add" => Head(todo'[h]) = "listRels"
  BY <1>5 DEF Linked
<1>7. status'[o] \in Statuses
  <2>1. verdict[h] \in Statuses /\ req[h].to \in Statuses
    BY <1>1, TypeSplit, Serves DEF LocalsOK
  <2> QED BY <1>3, <2>1 DEF NewStatus, Statuses
<1>8. status'[o] # "none"
  BY <1>7 DEF Statuses
<1>9. status[o] # "none" /\ QuestionWaits(o) /\ WorkWaits(h)
  BY <1>1, <1>2 DEF Waiting, QuestionWaits
<1>10. ASSUME NEW g \in Handlers \ {h}, Busy(g), req[g].q = o
       PROVE  WorkWaits(g) /\ Head(todo[g]) # "insert"
  <2>1. WorkWaits(g)
    BY <1>10 DEF Waiting
  <2> QED BY <1>9, <1>10, <2>1 DEF WorkWaits
<1>11. \A g \in Handlers : Serving(g, {"add"}, o)' => Serving(g, {"add"}, o)
  BY <1>1, <1>2, <1>4, <1>6 DEF Serving, Busy
<1>12. ~Adding(h, o)'
  BY <1>6 DEF Adding, Serving
<1>13. CASE req[h].op = "add"
  <2>1. Adding(h, o) /\ Serving(h, {"add"}, o) /\ ~Settled(o)
    BY <1>1, <1>2, <1>13 DEF Adding, Serving, Settled
  <2>2. status'[o] = verdict[h]
    BY <1>3, <1>13 DEF NewStatus
  <2>3. overtaken' = overtaken
    BY <1>1, <1>13 DEF Decisions
  <2>4. QuestionWaits(o)'
    <3>1. (review[o] \in {"approved", "rejected"} => o \in overtaken)
      BY <1>9, <2>1 DEF QuestionWaits
    <3>2. status'[o] = "pending" => review[o] = "pending" \/ o \in Excused
      BY <1>1, <1>2, <1>9, <1>13, <2>2 DEF WorkWaits
    <3> QED BY <1>1, <1>8, <1>9, <1>11, <2>3, <3>1, <3>2 DEF QuestionWaits, Excused
  <2>5. Busy(h)' => WorkWaits(h)'
    BY <1>6, <1>13 DEF WorkWaits, Deciding
  <2>6. ASSUME NEW g \in Handlers \ {h}, Busy(g), req[g].q = o PROVE WorkWaits(g)'
    <3>1. req[g].op # "add"
      BY <1>9, <2>1, <2>6 DEF QuestionWaits, Serving
    <3> QED BY <1>4, <1>10, <2>1, <2>3, <2>6, <3>1 DEF WorkWaits
  <2> QED BY <1>1, <1>2, <1>3, <1>4, <1>6, <2>4, <2>5, <2>6, FrameWaits
<1>14. CASE req[h].op # "add"
  <2>1. status'[o] # "pending"
    <3>1. req[h].op = "adminSet" => req[h].to # "pending"
      BY <1>5 DEF Request
    <3> QED BY <1>3, <1>14, <3>1 DEF NewStatus
  <2>2. \A g \in Handlers : Adding(g, o)' <=> Adding(g, o)
    BY <1>1, <1>4, <1>12, <1>14 DEF Adding, Serving, Busy
  <2>3. Settled(o) => Settled(o)'
    BY <2>1, <2>2 DEF Settled
  <2>4. QuestionWaits(o)'
    BY <1>1, <1>3, <1>8, <1>9, <1>11, <2>1, <2>3 DEF QuestionWaits
  <2>5. req[h].op \in Decisions => Settled(o)' \/ o \in overtaken'
    BY <1>1, <1>2, <2>1, <2>2 DEF Settled
  <2>6. Busy(h)' => WorkWaits(h)'
    BY <1>2, <1>6, <1>14, <2>5 DEF WorkWaits
  <2>7. ASSUME NEW g \in Handlers \ {h}, Busy(g), req[g].q = o PROVE WorkWaits(g)'
    BY <1>1, <1>3, <1>4, <1>10, <2>3, <2>7 DEF WorkWaits, Excused
  <2> QED BY <1>1, <1>2, <1>3, <1>4, <1>6, <2>4, <2>6, <2>7, FrameWaits
<1> QED BY <1>13, <1>14

LEMMA CloseWaits ==
  ASSUME TypeOK, AllChained, Waiting, NEW h \in Handlers, CloseReview(h)
  PROVE  Waiting'
<1>1. /\ Busy(h) /\ Head(todo[h]) = "closeReview" /\ Advance(h)
      /\ UNCHANGED <<status, verdict, overtaken, unqueued>>
      /\ review' = [review EXCEPT ![req[h].q] =
                      IF req[h].op = "approve" THEN "approved" ELSE "rejected"]
  BY DEF CloseReview, At, question, locals, history
<1>2. PICK o \in Questions : o = req[h].q
  BY <1>1, TypeSplit, Serves
<1>3. \A q \in Questions \ {o} : review'[q] = review[q]
  BY <1>1, <1>2 DEF TypeOK
<1>4. \A g \in Handlers \ {h} :
        todo'[g] = todo[g] /\ req'[g] = req[g] /\ verdict'[g] = verdict[g]
  BY <1>1, OthersKeep
<1>5. req[h].op \in Decisions /\ req[h].op # "add"
  BY <1>1, HeadUsed DEF Uses, Decisions
<1>6. ~Busy(h)'
  <2>1. Busy(h)' => Linked(req[h].op, "closeReview", Head(todo'[h]))
    BY <1>1, StepHead
  <2> QED BY <2>1 DEF Linked
<1>7. Settled(o) \/ o \in overtaken
  BY <1>1, <1>2, <1>5 DEF Waiting, WorkWaits, Deciding
<1>8. status[o] # "none" /\ QuestionWaits(o)
  BY <1>1, <1>2 DEF Waiting, QuestionWaits
<1>9. \A g \in Handlers : /\ Adding(g, o)' <=> Adding(g, o)
                          /\ Serving(g, {"add"}, o)' => Serving(g, {"add"}, o)
  BY <1>4, <1>5, <1>6 DEF Adding, Serving, Busy
<1>10. Settled(o)' <=> Settled(o)
  BY <1>1, <1>9 DEF Settled
<1>11. QuestionWaits(o)'
  <2>1. status'[o] = "pending" => o \in overtaken
    BY <1>1, <1>7 DEF Settled
  <2> QED BY <1>1, <1>7, <1>8, <1>9, <1>10, <2>1 DEF QuestionWaits, Excused
<1>12. ASSUME NEW g \in Handlers \ {h}, Busy(g), req[g].q = o PROVE WorkWaits(g)'
  <2>1. WorkWaits(g)
    BY <1>12 DEF Waiting
  <2>2. req[g].op = "add" /\ Head(todo[g]) = "setStatus" => o \in Excused
    <3>1. req[g].op = "add" /\ Head(todo[g]) = "setStatus" => Adding(g, o)
      BY <1>12 DEF Adding, Serving
    <3> QED BY <1>7, <3>1 DEF Settled, Excused
  <2> QED BY <1>1, <1>4, <1>10, <1>12, <2>1, <2>2 DEF WorkWaits, Excused
<1> QED BY <1>1, <1>2, <1>3, <1>4, <1>6, <1>11, <1>12, FrameWaits

LEMMA ReceiveWaits ==
  ASSUME TypeOK, AllChained, Waiting, NEW h \in Handlers, NEW r \in Request, Receive(h, r)
  PROVE  Waiting'
<1>1. /\ ~Busy(h)
      /\ UNCHANGED <<status, review, verdict, overtaken, unqueued>>
      /\ req' = [req EXCEPT ![h] = r] /\ todo' = [todo EXCEPT ![h] = Program(r)]
      /\ r.op = "add" =>
           status[r.q] = "none" /\ \A g \in Handlers : ~Serving(g, {"add"}, r.q)
      /\ r.op # "add" => status[r.q] # "none"
  BY DEF Receive, question, locals
<1>2. /\ todo'[h] = Program(r) /\ req'[h] = r
      /\ \A g \in Handlers \ {h} : todo'[g] = todo[g] /\ req'[g] = req[g]
  BY <1>1 DEF TypeOK
<1>3. r.q \in Questions /\ r.op \in AllOperations
  BY DEF Request
<1>4. Program(r) # <<>> /\ First(r.op, Head(Program(r)))
  BY ProgramType, ProgramChained
<1>5. /\ r.op = "add" => Head(todo'[h]) = "insert"
      /\ r.op # "add" => Head(todo'[h]) \notin {"insert"} \cup Deciding
  BY <1>2, <1>3, <1>4
  DEF First, AllOperations, TagOperations, ListOperations, Decisions, Deciding
<1>6. ASSUME NEW g \in Handlers, NEW q \in Questions PROVE Adding(g, q)' <=> Adding(g, q)
  BY <1>1, <1>2, <1>5 DEF Adding, Serving, Busy
<1>7. ASSUME NEW q \in Questions PROVE Settled(q)' <=> Settled(q)
  BY <1>1, <1>6 DEF Settled
<1>8. ASSUME NEW q \in Questions PROVE QuestionWaits(q)'
  <2>1. QuestionWaits(q)
    BY DEF Waiting
  <2>2. (\A g, k \in Handlers : Serving(g, {"add"}, q) /\ Serving(k, {"add"}, q) => g = k)'
    BY <1>1, <1>2, <2>1 DEF QuestionWaits, Serving, Busy
  <2>3. ASSUME status'[q] = "none", NEW g \in Handlers, Busy(g)', req'[g].q = q
        PROVE  req'[g].op = "add" /\ Head(todo'[g]) = "insert"
    <3>1. CASE g = h
      BY <1>1, <1>2, <1>5, <2>3, <3>1
    <3>2. CASE g # h
      BY <1>1, <1>2, <2>1, <2>3, <3>2 DEF QuestionWaits, Busy
    <3> QED BY <3>1, <3>2
  <2> QED BY <1>1, <1>6, <1>7, <2>1, <2>2, <2>3 DEF QuestionWaits, Excused
<1>9. ASSUME NEW g \in Handlers, Busy(g)' PROVE WorkWaits(g)'
  <2>1. CASE g = h /\ r.op = "add"
    BY <1>1, <1>2, <1>5, <2>1 DEF WorkWaits, Decisions
  <2>2. CASE g = h /\ r.op # "add"
    BY <1>1, <1>2, <1>5, <2>2 DEF WorkWaits
  <2>3. CASE g # h
    <3>1. Busy(g) /\ WorkWaits(g)
      BY <1>2, <1>9, <2>3 DEF Busy, Waiting
    <3>2. req[g].q \in Questions
      BY <3>1, TypeSplit, Serves
    <3> QED BY <1>1, <1>2, <1>7, <2>3, <3>1, <3>2 DEF WorkWaits, Excused
  <2> QED BY <2>1, <2>2, <2>3
<1> QED BY <1>8, <1>9 DEF Waiting

LEMMA RemoveAllWaits ==
  ASSUME TypeOK, Waiting, NEW u \in Users, RemoveAllUserQuestion(u)
  PROVE  Waiting'
<1>1. /\ UNCHANGED <<review, verdict, overtaken, unqueued, todo, req>>
      /\ \A q \in Questions :
           status'[q] = status[q] \/ (status'[q] = "deleted" /\ status[q] # "none")
  BY DEF RemoveAllUserQuestion, locals
<1>2. \A g \in Handlers, q \in Questions :
        /\ Adding(g, q)' <=> Adding(g, q)
        /\ Serving(g, {"add"}, q)' <=> Serving(g, {"add"}, q)
        /\ Busy(g)' <=> Busy(g)
  BY <1>1 DEF Adding, Serving, Busy
<1>3. \A q \in Questions : Settled(q) => Settled(q)'
  BY <1>1, <1>2 DEF Settled
<1>4. ASSUME NEW q \in Questions PROVE QuestionWaits(q)'
  <2>1. QuestionWaits(q)
    BY DEF Waiting
  <2> QED BY <1>1, <1>2, <1>3, <2>1 DEF QuestionWaits, Excused
<1>5. ASSUME NEW g \in Handlers, Busy(g)' PROVE WorkWaits(g)'
  <2>1. Busy(g) /\ WorkWaits(g)
    BY <1>1, <1>5 DEF Busy, Waiting
  <2>2. req[g].q \in Questions
    BY <2>1, TypeSplit, Serves
  <2>3. status[req[g].q] = "none" => status'[req[g].q] = "none"
    BY <1>1, <2>2
  <2> QED BY <1>1, <1>3, <2>1, <2>2, <2>3 DEF WorkWaits, Excused
<1> QED BY <1>4, <1>5 DEF Waiting

LEMMA NextWaits == TypeOK /\ AllChained /\ Waiting /\ [Next]_vars => Waiting'
<1> SUFFICES ASSUME TypeOK, AllChained, Waiting, [Next]_vars PROVE Waiting'
  OBVIOUS
<1>1. ASSUME NEW h \in Handlers,
             \/ ReadQuestion(h) \/ SaveOperation(h) \/ ListRels(h) \/ DropRels(h)
             \/ EnableRels(h) \/ SetRels(h) \/ EndRefresh(h)
             \/ CountQuestions(h) \/ SaveQuestionCount(h) \/ FailTolerated(h)
      PROVE  Waiting'
  <2>1. /\ Busy(h) /\ Advance(h) /\ Head(todo[h]) \notin StatusSteps
        /\ UNCHANGED <<status, review, overtaken, unqueued, verdict>>
    BY <1>1
    DEF ReadQuestion, SaveOperation, ListRels, DropRels, EnableRels, SetRels, EndRefresh,
        CountQuestions, SaveQuestionCount, FailTolerated, Tolerated, At, StatusSteps,
        question, locals, history
  <2> QED BY <2>1, AdvanceWaits
<1>2. ASSUME NEW h \in Handlers, Refuse(h) \/ ReadReview(h) \/ CreateRels(h) PROVE Waiting'
  <2>1. /\ Busy(h) /\ Head(todo[h]) \notin StatusSteps
        /\ UNCHANGED <<status, review, overtaken, unqueued>>
        /\ (Advance(h) /\ UNCHANGED verdict) \/ Return(h)
    BY <1>2 DEF Refuse, ReadReview, CreateRels, At, StatusSteps, question, locals, history
  <2>2. ~Adding(h, req[h].q)
    BY <2>1 DEF Adding, StatusSteps
  <2> QED BY <2>1, <2>2, AdvanceWaits, ReturnWaits
<1>3. ASSUME NEW h \in Handlers, Fail(h) PROVE Waiting'
  <2>1. /\ Busy(h) /\ Return(h) /\ UNCHANGED <<status, review, overtaken>>
        /\ unqueued' = unqueued \cup {q \in Questions : Adding(h, q) /\ review[q] # "pending"}
    BY <1>3 DEF Fail, question
  <2>2. req[h].q \in Questions
    BY <2>1, TypeSplit, Serves
  <2> QED BY <2>1, <2>2, ReturnWaits
<1>4. ASSUME NEW h \in Handlers,
             SaveTagCount(h) \/ \E t \in Tags : ReadRel(h, t) \/ CountTag(h, t)
      PROVE  Waiting'
  <2>1. CASE SaveTagCount(h) \/ \E t \in Tags : CountTag(h, t)
    BY <2>1, StayWaits DEF SaveTagCount, CountTag, question, history
  <2>2. ASSUME NEW t \in Tags, ReadRel(h, t) PROVE Waiting'
    <3>1. /\ Busy(h) /\ Head(todo[h]) \notin StatusSteps
          /\ UNCHANGED <<status, review, overtaken, unqueued, verdict>>
          /\ Advance(h) \/ UNCHANGED <<todo, req>>
      BY <2>2 DEF ReadRel, At, StatusSteps, question, history
    <3> QED BY <3>1, AdvanceWaits, StayWaits
  <2> QED BY <1>4, <2>1, <2>2
<1>5. CASE UNCHANGED vars
  BY <1>5, StayWaits DEF vars
<1> QED
  BY <1>1, <1>2, <1>3, <1>4, <1>5, InsertWaits, QueueWaits, SetStatusWaits, CloseWaits,
     ReceiveWaits, RemoveAllWaits, FailToCountWaits
  DEF Next, Step

LEMMA InitWaits == Init => Waiting
<1> SUFFICES ASSUME Init PROVE Waiting
  OBVIOUS
<1>1. \A h \in Handlers : ~Busy(h)
  BY DEF Init, Busy
<1>2. \A q \in Questions : status[q] \in {"none", "available"} /\ review[q] = "none"
  BY DEF Init
<1> QED BY <1>1, <1>2 DEF Waiting, QuestionWaits, Serving

(* A pending question has a review that is pending, for any handlers, any  *)
(* overlap of requests and any failures, but for the questions whose      *)
(* review or status was not saved (unqueued) and for those decided before *)
(* the request that adds them ended (overtaken).                          *)
THEOREM PendingHasReview == Spec => []PendingIsQueued
<1>1. Waiting => PendingIsQueued
  BY DEF Waiting, QuestionWaits, PendingIsQueued, Excused
<1> QED BY <1>1, TypeCorrect, InitSettles, NextChained, InitWaits, NextWaits, PTL DEF Spec
=============================================================================
