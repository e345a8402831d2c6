--------------------------- MODULE AcceptProofs ---------------------------
(***************************************************************************)
(* Theorems about AcceptAnswer, for every set of questions, answers,      *)
(* users and handlers, and every choice of who may accept.                *)
(***************************************************************************)
EXTENDS AcceptAnswer, FiniteSetTheorems, TLAPS

LEMMA RowsTyped ==
  ASSUME NEW row \in ActivityRow, NEW points \in Int
  PROVE  CancelRow(row) \in ActivityRow /\ LiveRow(points) \in ActivityRow
BY DEF ActivityRow, CancelRow, LiveRow, RowStates

LEMMA NoActivityTyped == NoActivity \in ActivityRow
BY DEF NoActivity, ActivityRow, RowStates

LEMMA AwardPointsTyped ==
  ASSUME NEW a \in Answers, NEW r \in Roles
  PROVE  AwardPoints(a, r) \in Int
BY AcceptAssumption DEF AwardPoints

(* What the three ways to move on leave of a handler.                      *)
HandlersOK ==
  /\ pc \in [Handlers -> Steps]
  /\ req \in [Handlers -> Request \cup {NoRequest}]
  /\ previous \in [Handlers -> Answers \cup {NoAnswer}]
  /\ seen \in [Handlers -> [Key -> ActivityRow]]
  /\ \A h \in Handlers :
       /\ Busy(h) => req[h] \in Request
       /\ pc[h] \in {"adopt", "award"} => req[h].answer \in Answers

TablesOK ==
  /\ activity \in [Key -> ActivityRow]
  /\ adopted \in [Answers -> BOOLEAN]
  /\ accepted \in [Questions -> Answers \cup {NoAnswer}]

LEMMA FinishTyped ==
  ASSUME HandlersOK, NEW h \in Handlers, Finish(h)
  PROVE  HandlersOK'
BY NoActivityTyped DEF HandlersOK, Finish, NothingSeen, Busy, Steps

LEMMA AdvanceTyped ==
  ASSUME HandlersOK, NEW h \in Handlers, Busy(h),
         NEW s \in Steps, s \in {"adopt", "award"} => req[h].answer # NoAnswer,
         pc' = [pc EXCEPT ![h] = s], req' = req,
         previous' \in [Handlers -> Answers \cup {NoAnswer}],
         seen' \in [Handlers -> [Key -> ActivityRow]]
  PROVE  HandlersOK'
BY DEF HandlersOK, Busy, Request

LEMMA GoOnToAwardTyped ==
  ASSUME HandlersOK, NEW h \in Handlers, Busy(h), GoOnToAward(h)
  PROVE  HandlersOK'
<1>1. CASE req[h].answer = NoAnswer
  BY <1>1, FinishTyped DEF GoOnToAward
<1>2. CASE req[h].answer # NoAnswer
  BY <1>2, AdvanceTyped DEF GoOnToAward, HandlersOK, Steps
<1> QED
  BY <1>1, <1>2

LEMMA GoOnToCancelTyped ==
  ASSUME HandlersOK, NEW h \in Handlers, Busy(h), GoOnToCancel(h)
  PROVE  HandlersOK'
<1>1. CASE previous[h] = NoAnswer
  BY <1>1, GoOnToAwardTyped DEF GoOnToCancel
<1>2. CASE previous[h] # NoAnswer
  BY <1>2, AdvanceTyped DEF GoOnToCancel, HandlersOK, Steps
<1> QED
  BY <1>1, <1>2

LEMMA FindRowsTyped ==
  ASSUME RowsOK, NEW h \in Handlers, NEW r \in Roles, FindRows(h, r)
  PROVE  seen' \in [Handlers -> [Key -> ActivityRow]]
BY DEF RowsOK, FindRows

HistoryOK == serial \subseteq Questions /\ whole \subseteq Questions

LEMMA RowsOKSplit ==
  RowsOK <=> TablesOK /\ HandlersOK /\ received \in 0..MaxRequests /\ HistoryOK
BY DEF RowsOK, TablesOK, HandlersOK, HistoryOK

LEMMA RowsOKSplitPrime ==
  RowsOK' <=> TablesOK' /\ HandlersOK' /\ received' \in 0..MaxRequests /\ HistoryOK'
BY DEF RowsOK, TablesOK, HandlersOK, HistoryOK, Busy

LEMMA HistoryTyped == HistoryOK /\ [Next]_vars => HistoryOK'
<1> SUFFICES ASSUME HistoryOK, [Next]_vars PROVE HistoryOK'
  OBVIOUS
<1>1. serial' \subseteq serial /\ whole' \subseteq whole
  BY DEF Next, Step, Receive, SkipAccepted, ReadQuestion, ClearAdopted, Adopt,
         UpdateAccepted, ReadAcceptRows, ReadAcceptedRows, SkipCancel,
         CancelAccept, Award, Tolerate, Fail, Penalise, vars
<1> QED
  BY <1>1 DEF HistoryOK

LEMMA InitRowsOK == Init => RowsOK
BY AcceptAssumption, NoActivityTyped
DEF Init, RowsOK, NothingSeen, Busy, Steps

LEMMA StepRowsOK == RowsOK /\ [Next]_vars => RowsOK'
<1> SUFFICES ASSUME RowsOK, [Next]_vars PROVE RowsOK'
  OBVIOUS
<1>0. TablesOK /\ HandlersOK /\ received \in 0..MaxRequests /\ HistoryOK'
  BY RowsOKSplit, HistoryTyped
<1>1. ASSUME NEW h \in Handlers, NEW r \in Request, Receive(h, r)
      PROVE  RowsOK'
  <2>1. HandlersOK'
    BY <1>0, <1>1 DEF Receive, HandlersOK, Busy, Steps
  <2>2. received' \in 0..MaxRequests
    BY <1>0, <1>1, AcceptAssumption DEF Receive
  <2>3. TablesOK'
    BY <1>0, <1>1 DEF Receive, tables, TablesOK
  <2> QED
    BY <1>0, <2>1, <2>2, <2>3, RowsOKSplitPrime
<1>2. ASSUME NEW h \in Handlers, SkipAccepted(h) \/ Fail(h)
      PROVE  RowsOK'
  <2>1. HandlersOK'
    BY <1>0, <1>2, FinishTyped DEF SkipAccepted, Fail
  <2>2. TablesOK' /\ received' = received
    BY <1>0, <1>2 DEF SkipAccepted, Fail, tables, TablesOK
  <2> QED
    BY <1>0, <2>1, <2>2, RowsOKSplitPrime
<1>3. ASSUME NEW h \in Handlers, ReadQuestion(h)
      PROVE  RowsOK'
  <2>1. Busy(h) /\ req[h].question \in Questions
    BY <1>0, <1>3 DEF ReadQuestion, Busy, HandlersOK, Request
  <2>2. previous' \in [Handlers -> Answers \cup {NoAnswer}]
    BY <1>0, <1>3, <2>1 DEF ReadQuestion, HandlersOK, TablesOK
  <2>3. HandlersOK'
    BY <1>0, <1>3, <2>1, <2>2, AdvanceTyped
    DEF ReadQuestion, HandlersOK, Steps
  <2>4. TablesOK' /\ received' = received
    BY <1>0, <1>3 DEF ReadQuestion, tables, TablesOK
  <2> QED
    BY <1>0, <2>3, <2>4, RowsOKSplitPrime
<1>4. ASSUME NEW h \in Handlers, ClearAdopted(h)
      PROVE  RowsOK'
  <2>1. Busy(h)
    BY <1>4 DEF ClearAdopted, Busy
  <2>2. HandlersOK'
    BY <1>0, <1>4, <2>1, AdvanceTyped DEF ClearAdopted, HandlersOK, Steps
  <2>3. TablesOK' /\ received' = received
    BY <1>0, <1>4 DEF ClearAdopted, TablesOK
  <2> QED
    BY <1>0, <2>2, <2>3, RowsOKSplitPrime
<1>5. ASSUME NEW h \in Handlers, Adopt(h)
      PROVE  RowsOK'
  <2>1. Busy(h)
    BY <1>5 DEF Adopt, Busy
  <2>2. HandlersOK'
    BY <1>0, <1>5, <2>1, AdvanceTyped DEF Adopt, HandlersOK, Steps
  <2>3. TablesOK' /\ received' = received
    BY <1>0, <1>5 DEF Adopt, TablesOK
  <2> QED
    BY <1>0, <2>2, <2>3, RowsOKSplitPrime
<1>6. ASSUME NEW h \in Handlers, UpdateAccepted(h)
      PROVE  RowsOK'
  <2>1. Busy(h) /\ req[h].answer \in Answers \cup {NoAnswer}
    BY <1>0, <1>6 DEF UpdateAccepted, Busy, HandlersOK, Request
  <2>2. HandlersOK'
    BY <1>0, <1>6, <2>1, GoOnToCancelTyped DEF UpdateAccepted
  <2>3. TablesOK' /\ received' = received
    BY <1>0, <1>6, <2>1 DEF UpdateAccepted, TablesOK
  <2> QED
    BY <1>0, <2>2, <2>3, RowsOKSplitPrime
<1>7. ASSUME NEW h \in Handlers, ReadAcceptRows(h) \/ ReadAcceptedRows(h)
      PROVE  RowsOK'
  <2>1. Busy(h)
    BY <1>7 DEF ReadAcceptRows, ReadAcceptedRows, Busy
  <2>2. seen' \in [Handlers -> [Key -> ActivityRow]]
    BY <1>7, FindRowsTyped DEF ReadAcceptRows, ReadAcceptedRows, Roles
  <2>3. HandlersOK'
    BY <1>0, <1>7, <2>1, <2>2, AdvanceTyped
    DEF ReadAcceptRows, ReadAcceptedRows, HandlersOK, Steps
  <2>4. TablesOK' /\ received' = received
    BY <1>0, <1>7 DEF ReadAcceptRows, ReadAcceptedRows, tables, TablesOK
  <2> QED
    BY <1>0, <2>3, <2>4, RowsOKSplitPrime
<1>8. ASSUME NEW h \in Handlers, SkipCancel(h)
      PROVE  RowsOK'
  <2>1. HandlersOK'
    BY <1>0, <1>8, GoOnToAwardTyped DEF SkipCancel, Busy
  <2>2. TablesOK' /\ received' = received
    BY <1>0, <1>8 DEF SkipCancel, tables, TablesOK
  <2> QED
    BY <1>0, <2>1, <2>2, RowsOKSplitPrime
<1>9. ASSUME NEW h \in Handlers, CancelAccept(h)
      PROVE  RowsOK'
  <2>1. HandlersOK'
    BY <1>0, <1>9, GoOnToAwardTyped DEF CancelAccept, Busy
  <2>2. activity' \in [Key -> ActivityRow]
    BY <1>0, <1>9, RowsTyped DEF CancelAccept, TablesOK
  <2>3. TablesOK' /\ received' = received
    BY <1>0, <1>9, <2>2 DEF CancelAccept, TablesOK
  <2> QED
    BY <1>0, <2>1, <2>3, RowsOKSplitPrime
<1>10. ASSUME NEW h \in Handlers, Award(h)
       PROVE  RowsOK'
  <2>1. HandlersOK'
    BY <1>0, <1>10, FinishTyped DEF Award
  <2>2. \A k \in Key : LiveRow(AwardPoints(k.answer, k.role)) \in ActivityRow
    BY AwardPointsTyped DEF Key, LiveRow, ActivityRow, RowStates
  <2>3. activity' \in [Key -> ActivityRow]
    BY <1>0, <1>10, <2>2 DEF Award, TablesOK
  <2>4. TablesOK' /\ received' = received
    BY <1>0, <1>10, <2>3 DEF Award, TablesOK
  <2> QED
    BY <1>0, <2>1, <2>4, RowsOKSplitPrime
<1>11. ASSUME NEW h \in Handlers, Tolerate(h)
       PROVE  RowsOK'
  <2>1. HandlersOK'
    BY <1>0, <1>11, GoOnToAwardTyped, GoOnToCancelTyped DEF Tolerate, Busy
  <2>2. TablesOK' /\ received' = received
    BY <1>0, <1>11 DEF Tolerate, tables, TablesOK
  <2> QED
    BY <1>0, <2>1, <2>2, RowsOKSplitPrime
<1>12. ASSUME NEW u \in Users, Penalise(u)
       PROVE  RowsOK'
  BY <1>12 DEF Penalise, RowsOK, Busy
<1>13. CASE UNCHANGED vars
  BY <1>13 DEF vars, RowsOK, Busy
<1> QED
  BY <1>1, <1>2, <1>3, <1>4, <1>5, <1>6, <1>7, <1>8, <1>9, <1>10, <1>11,
     <1>12, <1>13 DEF Next, Step

(* The rows, flags and pointers keep their types, and a handler serves a   *)
(* request exactly while it has steps left to make.                        *)
THEOREM RowsTypeCorrect == Spec => []RowsOK
BY InitRowsOK, StepRowsOK, PTL DEF Spec

-----------------------------------------------------------------------------
(***************************************************************************)
(* Where requests have not overlapped, one handler at most is at work; a   *)
(* request is about an answer of its question.                             *)
(***************************************************************************)
Exclusive ==
  \A g, h \in Handlers :
    /\ Busy(g) /\ Busy(h)
    /\ req[g].question = req[h].question
    /\ req[h].question \in serial
    => g = h

OwnAnswer ==
  \A h \in Handlers : Busy(h) /\ req[h].answer # NoAnswer =>
    QuestionOf[req[h].answer] = req[h].question

RequestInv == Exclusive /\ OwnAnswer

(* A step of handler h other than taking a request leaves the others alone *)
(* and h idle or with the request it has.                                  *)
Keeps(h) ==
  /\ Busy(h)
  /\ \A g \in Handlers : g # h => /\ pc'[g] = pc[g] /\ req'[g] = req[g]
                                   /\ previous'[g] = previous[g]
                                   /\ seen'[g] = seen[g]
  /\ Busy(h)' => req'[h] = req[h]
  /\ serial' = serial
  /\ whole' \subseteq whole
  /\ \A p \in whole : p # req[h].question => p \in whole'

Moves(h) == Step(h) \/ Tolerate(h) \/ Fail(h)

LEMMA MoveKeeps ==
  ASSUME RowsOK, NEW h \in Handlers, Moves(h)
  PROVE  Keeps(h)
<1>1. Busy(h)
  BY DEF Moves, Step, Tolerate, Fail, SkipAccepted, ReadQuestion, ClearAdopted,
         Adopt, UpdateAccepted, ReadAcceptRows, ReadAcceptedRows, SkipCancel,
         CancelAccept, Award, Busy
<1>0. /\ serial' = serial /\ whole' \subseteq whole
      /\ \A p \in whole : p # req[h].question => p \in whole'
  BY DEF Moves, Step, Tolerate, Fail, SkipAccepted, ReadQuestion, ClearAdopted,
         Adopt, UpdateAccepted, ReadAcceptRows, ReadAcceptedRows, SkipCancel,
         CancelAccept, Award
<1>2. ASSUME Finish(h) PROVE Keeps(h)
  BY <1>0, <1>1, <1>2 DEF Finish, Keeps, RowsOK, Busy
<1>3. ASSUME GoOnToAward(h) PROVE Keeps(h)
  BY <1>0, <1>1, <1>2, <1>3 DEF GoOnToAward, Keeps, RowsOK, Busy
<1>4. ASSUME GoOnToCancel(h) PROVE Keeps(h)
  BY <1>0, <1>1, <1>3, <1>4 DEF GoOnToCancel, Keeps, RowsOK, Busy
<1>5. CASE ReadQuestion(h)
  BY <1>0, <1>1, <1>5 DEF ReadQuestion, Keeps, RowsOK, Busy
<1>6. CASE ClearAdopted(h) \/ Adopt(h)
  BY <1>0, <1>1, <1>6 DEF ClearAdopted, Adopt, Keeps, RowsOK, Busy
<1>7. CASE ReadAcceptRows(h) \/ ReadAcceptedRows(h)
  BY <1>0, <1>1, <1>7 DEF ReadAcceptRows, ReadAcceptedRows, FindRows, Keeps, RowsOK, Busy
<1> QED
  BY <1>2, <1>3, <1>4, <1>5, <1>6, <1>7
  DEF Moves, Step, Tolerate, Fail, SkipAccepted, UpdateAccepted, SkipCancel,
      CancelAccept, Award

(* Taking a request: unless requests overlap from now on, h starts on a     *)
(* question nobody is working on.                                          *)
LEMMA ReceiveStarts ==
  ASSUME RowsOK, NEW h \in Handlers, NEW r \in Request, Receive(h, r)
  PROVE  /\ ~Busy(h) /\ pc'[h] = "readQuestion" /\ req'[h] = r
         /\ serial' \subseteq serial /\ whole' = whole
         /\ r.question \in serial' => Quiet(r.question)
         /\ \A g \in Handlers : g # h => pc'[g] = pc[g] /\ req'[g] = req[g]
BY DEF Receive, RowsOK, Quiet, Busy

LEMMA StepRequestInv ==
  ASSUME RowsOK, RequestInv, [Next]_vars
  PROVE  RequestInv'
<1>1. ASSUME NEW h \in Handlers, NEW r \in Request, Receive(h, r)
      PROVE  RequestInv'
  <2>1. r.answer # NoAnswer => QuestionOf[r.answer] = r.question
    BY <1>1 DEF Receive
  <2> QED
    BY <1>1, <2>1, ReceiveStarts DEF RequestInv, Exclusive, OwnAnswer, Busy, Quiet
<1>2. ASSUME NEW h \in Handlers, Moves(h)
      PROVE  RequestInv'
  BY <1>2, MoveKeeps DEF Keeps, RequestInv, Exclusive, OwnAnswer, Busy
<1>3. CASE pc' = pc /\ req' = req /\ serial' = serial
  BY <1>3 DEF RequestInv, Exclusive, OwnAnswer, Busy
<1> QED
  BY <1>1, <1>2, <1>3 DEF Next, Moves, Penalise, vars

(***************************************************************************)
(* One adopted answer: between the two statements of UpdateAcceptedStatus *)
(* no answer of the question is adopted.                                   *)
(***************************************************************************)
NoneAdopted(q) == \A a \in Answers : QuestionOf[a] = q => ~adopted[a]

AdoptInv ==
  /\ OneAdopted
  /\ \A h \in Handlers :
       pc[h] = "adopt" /\ req[h].question \in serial => NoneAdopted(req[h].question)

LEMMA StepAdoptInv ==
  ASSUME RowsOK, RequestInv, AdoptInv, [Next]_vars
  PROVE  AdoptInv'
<1>1. ASSUME NEW h \in Handlers, ClearAdopted(h)
      PROVE  AdoptInv'
  <2>1. \A a \in Answers : adopted'[a] <=> adopted[a] /\ QuestionOf[a] # req[h].question
    BY <1>1 DEF ClearAdopted
  <2>2. Keeps(h) /\ req' = req
    BY <1>1, MoveKeeps DEF Moves, Step, ClearAdopted
  <2>3. OneAdopted'
    BY <2>1, <2>2 DEF AdoptInv, OneAdopted, Keeps
  <2> QED
    BY <2>1, <2>2, <2>3 DEF AdoptInv, NoneAdopted, Keeps
<1>2. ASSUME NEW h \in Handlers, Adopt(h)
      PROVE  AdoptInv'
  <2>1. /\ Busy(h) /\ req[h].answer \in Answers
        /\ QuestionOf[req[h].answer] = req[h].question
    BY <1>2, AcceptAssumption DEF Adopt, Busy, RowsOK, RequestInv, OwnAnswer
  <2>2. \A a \in Answers : adopted'[a] <=> adopted[a] \/ a = req[h].answer
    BY <1>2 DEF Adopt, RowsOK
  <2>3. Keeps(h) /\ req' = req /\ pc'[h] = "point"
    BY <1>2, MoveKeeps DEF Moves, Step, Adopt, RowsOK
  <2>4. req[h].question \in serial => NoneAdopted(req[h].question)
    BY <1>2 DEF AdoptInv, Adopt
  <2>5. OneAdopted'
    BY <2>1, <2>2, <2>3, <2>4 DEF AdoptInv, OneAdopted, NoneAdopted, Keeps
  <2>6. ASSUME NEW g \in Handlers, pc'[g] = "adopt", req'[g].question \in serial'
        PROVE  NoneAdopted(req[g].question)'
    <3>1. g # h /\ pc[g] = "adopt" /\ req'[g] = req[g] /\ req[g].question \in serial
      BY <2>3, <2>6 DEF Keeps
    <3>2. req[g].question # req[h].question
      BY <2>1, <3>1 DEF RequestInv, Exclusive, Busy
    <3> QED
      BY <2>1, <2>2, <3>1, <3>2 DEF AdoptInv, NoneAdopted
  <2> QED
    BY <2>5, <2>6 DEF AdoptInv
<1>3. ASSUME adopted' = adopted, serial' \subseteq serial,
             \A h \in Handlers : pc'[h] = "adopt" => pc[h] = "adopt" /\ req'[h] = req[h]
      PROVE  AdoptInv'
  BY <1>3 DEF AdoptInv, OneAdopted, NoneAdopted
<1>4. ASSUME NEW h \in Handlers, NEW r \in Request, Receive(h, r)
      PROVE  AdoptInv'
  BY <1>3, <1>4, ReceiveStarts DEF Receive, tables
<1>5. ASSUME NEW h \in Handlers, Moves(h), ~ClearAdopted(h), ~Adopt(h)
      PROVE  AdoptInv'
  <2>1. adopted' = adopted
    BY <1>5 DEF Moves, Step, Tolerate, Fail, SkipAccepted, ReadQuestion,
         UpdateAccepted, ReadAcceptRows, ReadAcceptedRows, SkipCancel,
         CancelAccept, Award, tables
  <2>2. pc'[h] # "adopt"
    BY <1>5 DEF Moves, Step, Tolerate, Fail, SkipAccepted, ReadQuestion,
         UpdateAccepted, ReadAcceptRows, ReadAcceptedRows, SkipCancel,
         CancelAccept, Award, GoOnToCancel, GoOnToAward, Finish, RowsOK
  <2> QED
    BY <1>3, <1>5, <2>1, <2>2, MoveKeeps DEF Keeps
<1>6. CASE pc' = pc /\ req' = req /\ adopted' = adopted /\ serial' = serial
  BY <1>3, <1>6
<1> QED
  BY <1>1, <1>2, <1>4, <1>5, <1>6 DEF Next, Moves, Penalise, vars

LEMMA InitAdoptInv == Init => RequestInv /\ AdoptInv
BY DEF Init, RequestInv, Exclusive, OwnAnswer, AdoptInv, OneAdopted, Busy

(* A question whose requests never overlapped shows at most one adopted    *)
(* answer, whatever has failed between the statements of                   *)
(* UpdateAcceptedStatus and whatever overlapped on other questions.        *)
THEOREM OneAnswerAdopted == Spec => []OneAdopted
<1>1. RowsOK /\ RequestInv /\ AdoptInv /\ [Next]_vars => (RequestInv /\ AdoptInv)'
  BY StepRequestInv, StepAdoptInv
<1>2. AdoptInv => OneAdopted
  BY DEF AdoptInv
<1> QED
  BY RowsTypeCorrect, InitAdoptInv, <1>1, <1>2, PTL DEF Spec

-----------------------------------------------------------------------------
(***************************************************************************)
(* While the requests of a question neither overlap nor fail, its flags,   *)
(* its pointer and its awards agree whenever it is quiet.                  *)
(* The invariant says how far each handler has taken its question.         *)
(***************************************************************************)
Agree(q) ==
  \A a \in Answers : QuestionOf[a] = q => (adopted[a] <=> accepted[q] = a)

(* Of the answers of q, b and no other has its two awards, each once.      *)
LiveOnly(q, b) ==
  \A a \in Answers, r \in Roles : QuestionOf[a] = q =>
    IF b = a THEN \E u \in Users : \A v \in Users : Live(a, r, v) <=> v = u
             ELSE \A u \in Users : ~Live(a, r, u)

Sees(h, R) ==
  \A k \in Key : k.answer = previous[h] /\ k.role \in R =>
    seen[h][k].st = activity[k].st

SeenInv(h) ==
  /\ pc[h] \notin {"readAccepted", "cancel", "award"} =>
       \A k \in Key : seen[h][k].st = "none"
  /\ \A k \in Key : seen[h][k].st # "none" => k.answer = previous[h]
  /\ pc[h] \notin {"idle", "readQuestion"} /\ previous[h] # NoAnswer =>
       QuestionOf[previous[h]] = req[h].question

Phase(h) ==
  /\ pc[h] = "readQuestion" =>
       /\ Agree(req[h].question)
       /\ LiveOnly(req[h].question, accepted[req[h].question])
  /\ pc[h] \in {"clear", "adopt", "point", "readAccept", "readAccepted", "cancel"} =>
       /\ LiveOnly(req[h].question, previous[h])
       /\ previous[h] # NoAnswer => QuestionOf[previous[h]] = req[h].question
  /\ pc[h] = "adopt" => NoneAdopted(req[h].question)
  /\ pc[h] = "point" =>
       \A a \in Answers : QuestionOf[a] = req[h].question =>
         (adopted[a] <=> req[h].answer = a)
  /\ pc[h] \in {"readAccept", "readAccepted", "cancel"} => previous[h] \in Answers
  /\ pc[h] \in {"readAccept", "readAccepted", "cancel", "award"} =>
       /\ Agree(req[h].question)
       /\ accepted[req[h].question] = req[h].answer
  /\ pc[h] = "readAccepted" =>
       /\ Sees(h, {"accept"})
       /\ \A k \in Key : k.role = "accepted" => seen[h][k].st = "none"
  /\ pc[h] = "cancel" => Sees(h, Roles)
  /\ pc[h] = "award" => LiveOnly(req[h].question, NoAnswer)

AcceptedOwn ==
  \A q \in Questions : accepted[q] # NoAnswer => QuestionOf[accepted[q]] = q

(* Of every other question only where its accepted answer belongs and what *)
(* its handlers have seen is known.                                        *)
Clean(q) == q \in serial /\ q \in whole

CleanPhase(h) == Busy(h) /\ Clean(req[h].question) => Phase(h)

SettledInv ==
  /\ AcceptedOwn
  /\ \A q \in Questions :
       Quiet(q) /\ Clean(q) => Agree(q) /\ LiveOnly(q, accepted[q])
  /\ \A h \in Handlers : SeenInv(h) /\ CleanPhase(h)

(* A step that does not touch the rows of question q.                      *)
SameTables(q) ==
  /\ accepted'[q] = accepted[q]
  /\ \A a \in Answers : QuestionOf[a] = q => adopted'[a] = adopted[a]
  /\ \A k \in Key : QuestionOf[k.answer] = q => activity'[k].st = activity[k].st

LEMMA SameLive ==
  ASSUME NEW q \in Questions, SameTables(q),
         NEW a \in Answers, QuestionOf[a] = q, NEW r \in Roles, NEW u \in Users
  PROVE  Live(a, r, u)' <=> Live(a, r, u)
<1>1. AwardKey(a, r, u) \in Key /\ AwardKey(a, r, u).answer = a
  BY DEF AwardKey, Key
<1> QED
  BY <1>1 DEF SameTables, Live, AwardKey

LEMMA SameQuestion ==
  ASSUME NEW q \in Questions, SameTables(q)
  PROVE  /\ Agree(q)' <=> Agree(q)
         /\ NoneAdopted(q)' <=> NoneAdopted(q)
         /\ \A b : LiveOnly(q, b)' <=> LiveOnly(q, b)
<1>1. Agree(q)' <=> Agree(q)
  BY DEF SameTables, Agree
<1>2. NoneAdopted(q)' <=> NoneAdopted(q)
  BY DEF SameTables, NoneAdopted
<1>3. \A b : LiveOnly(q, b)' <=> LiveOnly(q, b)
  <2>1. \A a \in Answers, r \in Roles, u \in Users :
          QuestionOf[a] = q => (Live(a, r, u)' <=> Live(a, r, u))
    BY SameLive
  <2> HIDE DEF Live
  <2> QED
    BY <2>1 DEF LiveOnly
<1> QED
  BY <1>1, <1>2, <1>3

(* A handler at work on a question nobody touches keeps its phase.         *)
LEMMA OtherPhase ==
  ASSUME RowsOK, NEW g \in Handlers, SeenInv(g), CleanPhase(g),
         pc'[g] = pc[g], req'[g] = req[g], previous'[g] = previous[g],
         seen'[g] = seen[g],
         Busy(g) /\ Clean(req[g].question)' =>
           Clean(req[g].question) /\ SameTables(req[g].question)
  PROVE  SeenInv(g)' /\ CleanPhase(g)'
<1>1. SeenInv(g)'
  BY DEF SeenInv
<1>2. ASSUME Busy(g)', Clean(req[g].question)' PROVE Phase(g)'
  <2>1. Busy(g) /\ req[g] \in Request
    BY <1>2 DEF Busy, RowsOK
  <2>2. PICK q \in Questions, b \in Answers \cup {NoAnswer} :
          q = req[g].question /\ b = previous[g]
    BY <2>1 DEF Request, RowsOK
  <2>3. SameTables(q) /\ Phase(g)
    BY <1>2, <2>1, <2>2 DEF CleanPhase
  <2>4. /\ Agree(q)' <=> Agree(q)
        /\ NoneAdopted(q)' <=> NoneAdopted(q)
        /\ \A c : LiveOnly(q, c)' <=> LiveOnly(q, c)
    BY <2>3, SameQuestion
  <2>5. q = req'[g].question /\ b = previous'[g] /\ accepted'[q] = accepted[q]
    BY <2>2, <2>3 DEF SameTables
  <2>6. ASSUME NEW R, b # NoAnswer, QuestionOf[b] = q, Sees(g, R)
        PROVE  Sees(g, R)'
    BY <2>2, <2>3, <2>5, <2>6 DEF Sees, SameTables
  <2>7. pc[g] \in {"readAccepted", "cancel"} =>
          b # NoAnswer /\ QuestionOf[b] = q
    BY <2>2, <2>3, AcceptAssumption DEF Phase
  <2>8. /\ pc[g] = "readAccepted" =>
             /\ Sees(g, {"accept"})'
             /\ \A k \in Key : k.role = "accepted" => seen[g][k].st = "none"
        /\ pc[g] = "cancel" => Sees(g, Roles)'
    BY <2>3, <2>6, <2>7 DEF Phase
  <2>9. pc[g] = "readQuestion" => Agree(q)' /\ LiveOnly(q, accepted[q])'
    <3>1. PICK c : c = accepted[q]
      OBVIOUS
    <3>2. pc[g] = "readQuestion" => Agree(q) /\ LiveOnly(q, c)
      BY <2>2, <2>3, <3>1 DEF Phase
    <3>3. pc[g] = "readQuestion" => Agree(q)' /\ LiveOnly(q, c)'
      BY <2>4, <3>2
    <3> QED
      BY <2>5, <3>1, <3>3 DEF LiveOnly
  <2>10. pc[g] \in {"clear", "adopt", "point", "readAccept", "readAccepted", "cancel"} =>
           LiveOnly(q, b)' /\ (b # NoAnswer => QuestionOf[b] = q)
    BY <2>2, <2>3, <2>4 DEF Phase
  <2>11. pc[g] = "adopt" => NoneAdopted(q)'
    BY <2>2, <2>3, <2>4 DEF Phase
  <2>12. pc[g] = "point" =>
           \A a \in Answers : QuestionOf[a] = q => (adopted'[a] <=> req[g].answer = a)
    BY <2>2, <2>3 DEF Phase, SameTables
  <2>13. pc[g] \in {"readAccept", "readAccepted", "cancel", "award"} =>
           Agree(q)' /\ accepted'[q] = req[g].answer
    BY <2>2, <2>3, <2>4, <2>5 DEF Phase
  <2>14. pc[g] = "award" => LiveOnly(q, NoAnswer)'
    BY <2>2, <2>3, <2>4 DEF Phase
  <2>15. pc[g] \in {"readAccept", "readAccepted", "cancel"} => b \in Answers
    BY <2>2, <2>3 DEF Phase
  <2> HIDE DEF Agree, NoneAdopted, LiveOnly, Sees
  <2> QED
    BY <2>5, <2>8, <2>9, <2>10, <2>11, <2>12, <2>13, <2>14, <2>15
    DEF Phase, LiveOnly, Agree, NoneAdopted
<1> QED
  BY <1>1, <1>2 DEF CleanPhase

(* A step of h on question q keeps the invariant when it leaves the other  *)
(* questions alone and q either in h's next phase or settled.              *)
LEMMA StepOnQuestion ==
  ASSUME RowsOK, RequestInv, SettledInv, NEW h \in Handlers, Keeps(h),
         NEW q \in Questions, q = req[h].question,
         \A p \in Questions : p # q => SameTables(p),
         accepted'[q] # NoAnswer => QuestionOf[accepted'[q]] = q,
         SeenInv(h)',
         CleanPhase(h)',
         ~Busy(h)' /\ Clean(q)' => Agree(q)' /\ LiveOnly(q, accepted[q])'
  PROVE  SettledInv'
<1>1. AcceptedOwn'
  BY DEF SettledInv, AcceptedOwn, SameTables
<1>2. ASSUME NEW g \in Handlers PROVE SeenInv(g)' /\ CleanPhase(g)'
  <2>1. CASE g = h
    BY <2>1
  <2>2. CASE g # h
    <3>1. Busy(g) /\ Clean(req[g].question)' =>
            Clean(req[g].question) /\ SameTables(req[g].question)
      BY <2>2 DEF RequestInv, Exclusive, Keeps, RowsOK, Request, Clean
    <3>2. SeenInv(g) /\ CleanPhase(g)
      BY DEF SettledInv
    <3>3. /\ pc'[g] = pc[g] /\ req'[g] = req[g]
          /\ previous'[g] = previous[g] /\ seen'[g] = seen[g]
      BY <2>2 DEF Keeps
    <3> QED
      BY <3>1, <3>2, <3>3, OtherPhase
  <2> QED
    BY <2>1, <2>2
<1>3. ASSUME NEW p \in Questions, Quiet(p)', Clean(p)'
      PROVE  Agree(p)' /\ LiveOnly(p, accepted[p])'
  <2>1. CASE p = q
    <3>1. ~Busy(h)'
      BY <1>3, <2>1 DEF Quiet, Keeps
    <3> QED
      BY <1>3, <2>1, <3>1
  <2>2. CASE p # q
    <3>1. Quiet(p) /\ Clean(p)
      BY <1>3, <2>2 DEF Quiet, Keeps, Busy, Clean
    <3>2. PICK c : c = accepted[p]
      OBVIOUS
    <3>3. Agree(p) /\ LiveOnly(p, c)
      BY <3>1, <3>2 DEF SettledInv
    <3>4. Agree(p)' /\ LiveOnly(p, c)' /\ accepted'[p] = accepted[p]
      BY <2>2, <3>3, SameQuestion DEF SameTables
    <3> QED
      BY <3>2, <3>4 DEF LiveOnly
  <2> QED
    BY <2>1, <2>2
<1> QED
  BY <1>1, <1>2, <1>3 DEF SettledInv

(* Idle handlers have seen nothing.                                        *)
LEMMA FinishSeesNothing ==
  ASSUME RowsOK, NEW h \in Handlers, Finish(h)
  PROVE  SeenInv(h)' /\ ~Busy(h)'
BY DEF Finish, RowsOK, SeenInv, Busy, NothingSeen, NoActivity

LEMMA NothingTouched ==
  ASSUME accepted' = accepted, adopted' = adopted, activity' = activity
  PROVE  \A p \in Questions : SameTables(p)
BY DEF SameTables

LEMMA AskedQuestion ==
  ASSUME RowsOK, RequestInv, NEW h \in Handlers, Busy(h)
  PROVE  /\ req[h].question \in Questions
         /\ req[h].answer \in Answers \cup {NoAnswer}
         /\ req[h].answer # NoAnswer => QuestionOf[req[h].answer] = req[h].question
BY DEF RowsOK, RequestInv, OwnAnswer, Request

LEMMA SettledReceive ==
  ASSUME RowsOK, SettledInv,
         NEW h \in Handlers, NEW r \in Request, Receive(h, r)
  PROVE  SettledInv'
<1>1. /\ ~Busy(h) /\ pc'[h] = "readQuestion" /\ req'[h] = r
      /\ serial' \subseteq serial /\ whole' = whole
      /\ r.question \in serial' => Quiet(r.question)
      /\ \A g \in Handlers : g # h => pc'[g] = pc[g] /\ req'[g] = req[g]
  BY ReceiveStarts
<1>2. /\ accepted' = accepted /\ adopted' = adopted /\ activity' = activity
      /\ previous' = previous /\ seen' = seen
  BY DEF Receive, tables
<1>3. \A p \in Questions : SameTables(p)
  BY <1>2, NothingTouched
<1>4. PICK q \in Questions : q = r.question
  BY DEF Request
<1>5. \A p \in Questions : \A b : (Agree(p)' <=> Agree(p)) /\ (LiveOnly(p, b)' <=> LiveOnly(p, b))
  BY <1>3, SameQuestion
<1>6. ASSUME NEW p \in Questions, Quiet(p), Clean(p)
      PROVE  Agree(p)' /\ LiveOnly(p, accepted[p])'
  <2>1. PICK c : c = accepted[p]
    OBVIOUS
  <2>2. Agree(p)' /\ LiveOnly(p, c)'
    BY <1>5, <1>6, <2>1 DEF SettledInv
  <2> QED
    BY <1>2, <2>1, <2>2 DEF LiveOnly
<1>7. \A p : (Quiet(p)' => Quiet(p)) /\ (Clean(p)' => Clean(p))
  BY <1>1 DEF Quiet, Busy, Clean
<1>8. AcceptedOwn'
  BY <1>2 DEF SettledInv, AcceptedOwn
<1>9. ASSUME NEW g \in Handlers PROVE SeenInv(g)' /\ CleanPhase(g)'
  <2>1. CASE g = h
    <3>1. SeenInv(h)'
      BY <1>1, <1>2 DEF SettledInv, SeenInv, Busy
    <3>2. Clean(q)' => Agree(q)' /\ LiveOnly(q, accepted[q])'
      BY <1>1, <1>4, <1>6, <1>7 DEF Clean
    <3>3. q = req'[h].question
      BY <1>1, <1>4
    <3>4. CleanPhase(h)'
      BY <1>1, <3>2, <3>3 DEF Phase, CleanPhase, LiveOnly, Agree
    <3> QED
      BY <2>1, <3>1, <3>4
  <2>2. CASE g # h
    <3>1. SeenInv(g) /\ CleanPhase(g)
      BY DEF SettledInv
    <3>2. Busy(g) /\ Clean(req[g].question)' =>
            Clean(req[g].question) /\ SameTables(req[g].question)
      BY <1>1, <1>3, <2>2 DEF RowsOK, Request, Clean
    <3> QED
      BY <1>1, <1>2, <2>2, <3>1, <3>2, OtherPhase
  <2> QED
    BY <2>1, <2>2
<1> QED
  BY <1>6, <1>7, <1>8, <1>9 DEF SettledInv

LEMMA SettledRead ==
  ASSUME RowsOK, RequestInv, SettledInv, NEW h \in Handlers,
         Clean(req[h].question),
         SkipAccepted(h) \/ ReadQuestion(h)
  PROVE  SettledInv'
<1>1. /\ Keeps(h) /\ Busy(h) /\ pc[h] = "readQuestion"
      /\ accepted' = accepted /\ adopted' = adopted /\ activity' = activity
  BY MoveKeeps DEF Moves, Step, SkipAccepted, ReadQuestion, Busy, tables
<1>2. PICK q \in Questions : q = req[h].question
  BY <1>1, AskedQuestion
<1>3. PICK c \in Answers \cup {NoAnswer} : c = accepted[q]
  BY DEF RowsOK
<1>4. \A p \in Questions : SameTables(p)
  BY <1>1, NothingTouched
<1>5. /\ Agree(q) /\ LiveOnly(q, c) /\ SeenInv(h)
      /\ c # NoAnswer => QuestionOf[c] = q
  BY <1>1, <1>2, <1>3 DEF SettledInv, CleanPhase, Phase, AcceptedOwn
<1>6. Agree(q)' /\ LiveOnly(q, c)' /\ c = accepted'[q]
  BY <1>1, <1>3, <1>4, <1>5, SameQuestion
<1>7. LiveOnly(q, accepted[q])'
  BY <1>6 DEF LiveOnly
<1>8. CASE SkipAccepted(h)
  <2>1. SeenInv(h)' /\ ~Busy(h)'
    BY <1>8, FinishSeesNothing DEF SkipAccepted
  <2> QED
    BY <1>1, <1>2, <1>3, <1>4, <1>5, <1>6, <1>7, <2>1, StepOnQuestion DEF CleanPhase
<1>9. CASE ReadQuestion(h)
  <2>1. /\ pc'[h] = "clear" /\ previous'[h] = c /\ req' = req /\ seen' = seen
    BY <1>2, <1>3, <1>9 DEF ReadQuestion, RowsOK
  <2>2. SeenInv(h)'
    BY <1>1, <1>2, <1>5, <2>1 DEF SeenInv
  <2>3. Phase(h)'
    <3> HIDE DEF LiveOnly
    <3>1. LiveOnly(req[h].question, previous[h])'
      BY <1>2, <1>6, <2>1 DEF LiveOnly
    <3> QED
      BY <1>2, <1>5, <2>1, <3>1 DEF Phase
  <2>4. Busy(h)'
    BY <2>1 DEF Busy
  <2> QED
    BY <1>1, <1>2, <1>3, <1>4, <1>5, <1>6, <2>2, <2>3, <2>4, StepOnQuestion DEF CleanPhase
<1> QED
  BY <1>8, <1>9

LEMMA SettledClear ==
  ASSUME RowsOK, RequestInv, SettledInv, NEW h \in Handlers,
         Clean(req[h].question), ClearAdopted(h)
  PROVE  SettledInv'
<1>1. /\ Keeps(h) /\ Busy(h) /\ pc[h] = "clear"
      /\ accepted' = accepted /\ activity' = activity
      /\ previous' = previous /\ seen' = seen /\ req' = req
  BY MoveKeeps DEF Moves, Step, ClearAdopted, Busy
<1>2. PICK q \in Questions, b \in Answers \cup {NoAnswer} :
        q = req[h].question /\ b = previous[h]
  BY <1>1, AskedQuestion DEF RowsOK
<1>3. \A a \in Answers : adopted'[a] <=> adopted[a] /\ QuestionOf[a] # q
  BY <1>2 DEF ClearAdopted
<1>4. \A p \in Questions : p # q => SameTables(p)
  <2>1. \A a \in Answers : QuestionOf[a] # q => adopted'[a] = adopted[a]
    BY <1>2 DEF ClearAdopted, RowsOK
  <2> QED
    BY <1>1, <2>1 DEF SameTables
<1>5. SeenInv(h) /\ Phase(h) /\ AcceptedOwn
  BY <1>1 DEF SettledInv, CleanPhase
<1>6. LiveOnly(q, b) /\ (b # NoAnswer => QuestionOf[b] = q)
  BY <1>1, <1>2, <1>5 DEF Phase
<1>7. LiveOnly(q, b)'
  BY <1>1, <1>6 DEF LiveOnly, Live
<1>8. pc'[h] = IF req[h].answer = NoAnswer THEN "point" ELSE "adopt"
  BY DEF ClearAdopted, RowsOK
<1>9. SeenInv(h)'
  BY <1>1, <1>5, <1>8 DEF SeenInv
<1>10. NoneAdopted(q)'
  BY <1>3 DEF NoneAdopted
<1>11. LiveOnly(req[h].question, previous[h])'
  BY <1>1, <1>2, <1>7 DEF LiveOnly
<1>12. NoneAdopted(req[h].question)'
  BY <1>1, <1>2, <1>10 DEF NoneAdopted
<1>13. Phase(h)'
  <2>1. req[h].answer = NoAnswer =>
          \A a \in Answers : QuestionOf[a] = q => (adopted'[a] <=> req[h].answer = a)
    BY <1>3, AcceptAssumption
  <2> HIDE DEF LiveOnly, NoneAdopted
  <2> QED
    BY <1>1, <1>2, <1>6, <1>8, <1>11, <1>12, <2>1 DEF Phase
<1>14. Busy(h)'
  BY <1>8 DEF Busy
<1>15. accepted'[q] # NoAnswer => QuestionOf[accepted'[q]] = q
  BY <1>1, <1>5 DEF AcceptedOwn
<1> QED
  BY <1>1, <1>2, <1>4, <1>9, <1>13, <1>14, <1>15, StepOnQuestion DEF CleanPhase

LEMMA SettledAdopt ==
  ASSUME RowsOK, RequestInv, SettledInv, NEW h \in Handlers,
         Clean(req[h].question), Adopt(h)
  PROVE  SettledInv'
<1>1. /\ Keeps(h) /\ Busy(h) /\ pc[h] = "adopt" /\ pc'[h] = "point"
      /\ accepted' = accepted /\ activity' = activity
      /\ previous' = previous /\ seen' = seen /\ req' = req
  BY MoveKeeps DEF Moves, Step, Adopt, Busy, RowsOK
<1>2. PICK q \in Questions, b \in Answers \cup {NoAnswer}, n \in Answers :
        /\ q = req[h].question /\ b = previous[h] /\ n = req[h].answer
        /\ QuestionOf[n] = q
  BY <1>1, AskedQuestion, AcceptAssumption DEF RowsOK
<1>3. \A a \in Answers : adopted'[a] = IF a = n THEN TRUE ELSE adopted[a]
  BY <1>2 DEF Adopt, RowsOK
<1>4. \A p \in Questions : p # q => SameTables(p)
  BY <1>1, <1>2, <1>3 DEF SameTables
<1>5. SeenInv(h) /\ Phase(h) /\ AcceptedOwn
  BY <1>1 DEF SettledInv, CleanPhase
<1>6. /\ LiveOnly(q, b) /\ (b # NoAnswer => QuestionOf[b] = q)
      /\ NoneAdopted(q)
  BY <1>1, <1>2, <1>5 DEF Phase
<1>7. LiveOnly(q, b)'
  BY <1>1, <1>6 DEF LiveOnly, Live
<1>8. SeenInv(h)'
  BY <1>1, <1>5 DEF SeenInv
<1>9. LiveOnly(req[h].question, previous[h])'
  BY <1>1, <1>2, <1>7 DEF LiveOnly
<1>10. Phase(h)'
  <2>1. \A a \in Answers : QuestionOf[a] = q => (adopted'[a] <=> n = a)
    BY <1>3, <1>6 DEF NoneAdopted
  <2> HIDE DEF LiveOnly
  <2> QED
    BY <1>1, <1>2, <1>6, <1>9, <2>1 DEF Phase
<1>11. Busy(h)'
  BY <1>1 DEF Busy
<1>12. accepted'[q] # NoAnswer => QuestionOf[accepted'[q]] = q
  BY <1>1, <1>5 DEF AcceptedOwn
<1> QED
  BY <1>1, <1>2, <1>4, <1>8, <1>10, <1>11, <1>12, StepOnQuestion DEF CleanPhase

(* After the pointer: cancel the awards of the previous answer, if any,    *)
(* then award the new one, if any.                                         *)
LEMMA GoOnToAwardPhase ==
  ASSUME RowsOK, RequestInv, NEW h \in Handlers, Busy(h), SeenInv(h),
         pc[h] # "readQuestion", GoOnToAward(h), NEW q \in Questions, q = req[h].question,
         Agree(q)', accepted'[q] = req[h].answer, LiveOnly(q, NoAnswer)',
         pc[h] \notin {"readAccepted", "cancel"} =>
           \A k \in Key : seen[h][k].st = "none"
  PROVE  /\ SeenInv(h)'
         /\ Busy(h)' => Phase(h)'
         /\ ~Busy(h)' => Agree(q)' /\ LiveOnly(q, accepted[q])'
<1>1. CASE req[h].answer = NoAnswer
  <2>1. SeenInv(h)' /\ ~Busy(h)'
    BY <1>1, FinishSeesNothing DEF GoOnToAward
  <2>2. LiveOnly(q, accepted[q])'
    BY <1>1 DEF LiveOnly
  <2> QED
    BY <2>1, <2>2
<1>2. CASE req[h].answer # NoAnswer
  <2>1. pc'[h] = "award" /\ req' = req /\ previous' = previous /\ seen' = seen
    BY <1>2 DEF GoOnToAward, RowsOK
  <2>2. SeenInv(h)'
    BY <2>1 DEF SeenInv, Busy
  <2>3. Agree(req[h].question)' /\ LiveOnly(req[h].question, NoAnswer)'
    BY <2>1 DEF Agree, LiveOnly
  <2>4. Phase(h)' /\ Busy(h)'
    <3> HIDE DEF Agree, LiveOnly
    <3> QED
      BY <2>1, <2>3 DEF Phase, Busy
  <2> QED
    BY <2>2, <2>4
<1> QED
  BY <1>1, <1>2

LEMMA SettledPoint ==
  ASSUME RowsOK, RequestInv, SettledInv, NEW h \in Handlers,
         Clean(req[h].question), UpdateAccepted(h)
  PROVE  SettledInv'
<1>1. /\ Keeps(h) /\ Busy(h) /\ pc[h] = "point" /\ GoOnToCancel(h)
      /\ adopted' = adopted /\ activity' = activity
  BY MoveKeeps DEF Moves, Step, UpdateAccepted, Busy
<1>2. PICK q \in Questions, b \in Answers \cup {NoAnswer}, n \in Answers \cup {NoAnswer} :
        /\ q = req[h].question /\ b = previous[h] /\ n = req[h].answer
        /\ n # NoAnswer => QuestionOf[n] = q
  BY <1>1, AskedQuestion DEF RowsOK
<1>3. accepted'[q] = n /\ \A p \in Questions : p # q => accepted'[p] = accepted[p]
  BY <1>2 DEF UpdateAccepted, RowsOK
<1>4. \A p \in Questions : p # q => SameTables(p)
  BY <1>1, <1>3 DEF SameTables
<1>5. SeenInv(h) /\ Phase(h)
  BY <1>1 DEF SettledInv, CleanPhase
<1>6. /\ LiveOnly(q, b) /\ (b # NoAnswer => QuestionOf[b] = q)
      /\ \A a \in Answers : QuestionOf[a] = q => (adopted[a] <=> n = a)
  BY <1>1, <1>2, <1>5 DEF Phase
<1>7. LiveOnly(q, b)' /\ Agree(q)'
  BY <1>1, <1>3, <1>6 DEF LiveOnly, Live, Agree
<1>8. CASE b = NoAnswer
  <2>1. GoOnToAward(h)
    BY <1>1, <1>2, <1>8 DEF GoOnToCancel
  <2>2. \A k \in Key : seen[h][k].st = "none"
    BY <1>1, <1>5 DEF SeenInv
  <2>3. LiveOnly(q, NoAnswer)'
    BY <1>7, <1>8
  <2> QED
    BY <1>1, <1>2, <1>3, <1>4, <1>5, <1>7, <2>1, <2>2, <2>3,
       GoOnToAwardPhase, StepOnQuestion DEF CleanPhase
<1>9. CASE b # NoAnswer
  <2>1. pc'[h] = "readAccept" /\ req' = req /\ previous' = previous /\ seen' = seen
    BY <1>1, <1>2, <1>9 DEF GoOnToCancel, RowsOK
  <2>2. SeenInv(h)'
    BY <1>1, <1>5, <2>1 DEF SeenInv
  <2>3. Agree(req[h].question)' /\ LiveOnly(req[h].question, previous[h])'
    BY <1>2, <1>7, <2>1 DEF Agree, LiveOnly
  <2>4. Phase(h)' /\ Busy(h)'
    <3> HIDE DEF Agree, LiveOnly
    <3> QED
      BY <1>2, <1>3, <1>6, <1>9, <2>1, <2>3 DEF Phase, Busy
  <2> QED
    BY <1>1, <1>2, <1>3, <1>4, <2>2, <2>4, StepOnQuestion DEF CleanPhase
<1> QED
  BY <1>8, <1>9

(* Reading the rows of an award sees all of them, and only of the previous *)
(* answer.                                                                  *)
LEMMA FindRowsSees ==
  ASSUME RowsOK, NEW h \in Handlers, SeenInv(h), NEW r \in Roles, FindRows(h, r),
         previous' = previous, activity' = activity
  PROVE  /\ \A k \in Key : seen'[h][k].st # "none" => k.answer = previous[h]
         /\ \A k \in Key : k.answer = previous[h] /\ k.role # r =>
              seen'[h][k] = seen[h][k]
         /\ (\A k \in Key : k.answer = previous[h] /\ k.role = r =>
               seen[h][k].st = "none") =>
              \A k \in Key : k.answer = previous[h] /\ k.role = r =>
                seen'[h][k].st = activity[k].st
<1>1. seen'[h] = [k \in Key |-> IF k \in RowsOf(h, r) THEN activity[k] ELSE seen[h][k]]
  BY DEF FindRows, RowsOK
<1> QED
  BY <1>1 DEF RowsOf, SeenInv

LEMMA SettledReadRows ==
  ASSUME RowsOK, RequestInv, SettledInv, NEW h \in Handlers,
         Clean(req[h].question),
         ReadAcceptRows(h) \/ ReadAcceptedRows(h)
  PROVE  SettledInv'
<1>1. /\ Keeps(h) /\ Busy(h)
      /\ accepted' = accepted /\ adopted' = adopted /\ activity' = activity
      /\ previous' = previous /\ req' = req
  BY MoveKeeps DEF Moves, Step, ReadAcceptRows, ReadAcceptedRows, Busy, tables
<1>2. PICK q \in Questions, b \in Answers \cup {NoAnswer}, n \in Answers \cup {NoAnswer} :
        /\ q = req[h].question /\ b = previous[h] /\ n = req[h].answer
        /\ n # NoAnswer => QuestionOf[n] = q
  BY <1>1, AskedQuestion DEF RowsOK
<1>3. \A p \in Questions : SameTables(p)
  BY <1>1, NothingTouched
<1>4. SeenInv(h) /\ Phase(h)
  BY <1>1 DEF SettledInv, CleanPhase
<1>5. /\ LiveOnly(q, b) /\ QuestionOf[b] = q /\ b \in Answers
      /\ Agree(q) /\ accepted[q] = n
  BY <1>1, <1>2, <1>4, AcceptAssumption DEF Phase, ReadAcceptRows, ReadAcceptedRows
<1>6. LiveOnly(q, b)' /\ Agree(q)' /\ accepted'[q] = n
  BY <1>1, <1>3, <1>5, SameQuestion
<1>7. LiveOnly(req[h].question, previous[h])' /\ Agree(req[h].question)'
  BY <1>1, <1>2, <1>6 DEF LiveOnly, Agree
<1>8. CASE ReadAcceptRows(h)
  <2>1. pc[h] = "readAccept" /\ pc'[h] = "readAccepted" /\ FindRows(h, "accept")
    BY <1>8 DEF ReadAcceptRows, RowsOK
  <2>2. \A k \in Key : seen[h][k].st = "none"
    BY <1>4, <2>1 DEF SeenInv
  <2>3. /\ \A k \in Key : seen'[h][k].st # "none" => k.answer = previous[h]
        /\ \A k \in Key : k.answer = previous[h] /\ k.role = "accept" =>
             seen'[h][k].st = activity[k].st
        /\ \A k \in Key : k.role = "accepted" => seen'[h][k].st = "none"
    <3>1. \A k \in Key : k.role = "accepted" => k \notin RowsOf(h, "accept")
      BY DEF RowsOf
    <3>2. seen'[h] = [k \in Key |-> IF k \in RowsOf(h, "accept") THEN activity[k]
                                                                  ELSE seen[h][k]]
      BY <2>1 DEF FindRows, RowsOK
    <3> QED
      BY <1>1, <1>4, <2>1, <2>2, <3>1, <3>2, FindRowsSees DEF Roles
  <2>4. SeenInv(h)' /\ Sees(h, {"accept"})'
    BY <1>1, <1>4, <2>1, <2>3 DEF SeenInv, Sees
  <2>5. Phase(h)' /\ Busy(h)'
    <3> HIDE DEF LiveOnly, Agree, Sees
    <3> QED
      BY <1>1, <1>2, <1>5, <1>6, <1>7, <2>1, <2>3, <2>4 DEF Phase, Busy
  <2> QED
    BY <1>1, <1>2, <1>3, <1>6, <2>4, <2>5, StepOnQuestion DEF CleanPhase
<1>9. CASE ReadAcceptedRows(h)
  <2>1. pc[h] = "readAccepted" /\ pc'[h] = "cancel" /\ FindRows(h, "accepted")
    BY <1>9 DEF ReadAcceptedRows, RowsOK
  <2>2. /\ \A k \in Key : seen'[h][k].st # "none" => k.answer = previous[h]
        /\ \A k \in Key : k.answer = previous[h] /\ k.role # "accepted" =>
             seen'[h][k] = seen[h][k]
    BY <1>1, <1>4, <2>1, FindRowsSees DEF Roles
  <2>3. seen'[h] = [k \in Key |-> IF k \in RowsOf(h, "accepted") THEN activity[k]
                                                                  ELSE seen[h][k]]
    BY <2>1 DEF FindRows, RowsOK
  <2>4. \A k \in Key : k.answer = previous[h] /\ k.role = "accept" =>
          seen'[h][k].st = activity[k].st
    BY <1>4, <2>1, <2>2 DEF Phase, Sees
  <2>5. SeenInv(h)'
    BY <1>1, <1>4, <2>1, <2>2 DEF SeenInv
  <2>6. ASSUME NEW k \in Key, k.answer = previous[h], k.role = "accepted"
        PROVE  seen'[h][k].st = activity[k].st
    <3>1. seen[h][k].st = "none"
      BY <1>4, <2>1, <2>6 DEF Phase
    <3> QED
      BY <2>3, <2>6, <3>1 DEF RowsOf
  <2>7. Sees(h, Roles)'
    BY <1>1, <2>4, <2>6 DEF Sees, Roles
  <2>8. Phase(h)' /\ Busy(h)'
    <3> HIDE DEF LiveOnly, Agree, Sees
    <3> QED
      BY <1>1, <1>2, <1>5, <1>6, <1>7, <2>1, <2>7 DEF Phase, Busy
  <2> QED
    BY <1>1, <1>2, <1>3, <1>6, <2>5, <2>8, StepOnQuestion DEF CleanPhase
<1> QED
  BY <1>8, <1>9

(* Nothing of q counts once the rows of its only awarded answer, all of    *)
(* them seen, are cancelled.                                                *)
LEMMA SettledCancel ==
  ASSUME RowsOK, RequestInv, SettledInv, NEW h \in Handlers,
         Clean(req[h].question),
         SkipCancel(h) \/ CancelAccept(h)
  PROVE  SettledInv'
<1>1. /\ Keeps(h) /\ Busy(h) /\ pc[h] = "cancel" /\ GoOnToAward(h)
      /\ accepted' = accepted /\ adopted' = adopted
  BY MoveKeeps DEF Moves, Step, SkipCancel, CancelAccept, Busy, tables
<1>2. PICK q \in Questions, b \in Answers \cup {NoAnswer}, n \in Answers \cup {NoAnswer} :
        /\ q = req[h].question /\ b = previous[h] /\ n = req[h].answer
        /\ n # NoAnswer => QuestionOf[n] = q
  BY <1>1, AskedQuestion DEF RowsOK
<1>3. SeenInv(h) /\ Phase(h)
  BY <1>1 DEF SettledInv, CleanPhase
<1>4. /\ LiveOnly(q, b) /\ QuestionOf[b] = q /\ b \in Answers
      /\ Agree(q) /\ accepted[q] = n /\ Sees(h, Roles)
  BY <1>1, <1>2, <1>3, AcceptAssumption DEF Phase
<1>5. \A k \in Key : k.answer = b => seen[h][k].st = activity[k].st
  BY <1>2, <1>4 DEF Sees, Key
<1>6. \A k \in Key : k \in Found(h) => k.answer = b
  BY <1>2, <1>3 DEF SeenInv, Found
<1>7. \A k \in Key : activity'[k] = IF CancelAccept(h) /\ k \in Found(h)
                                      THEN CancelRow(activity[k]) ELSE activity[k]
  <2>1. CASE CancelAccept(h)
    BY <2>1 DEF CancelAccept
  <2>2. CASE ~CancelAccept(h)
    BY <2>2 DEF SkipCancel, tables
  <2> QED
    BY <2>1, <2>2
<1>8. \A k \in Key : activity[k] \in ActivityRow /\ CancelRow(activity[k]).st = "cancelled"
  BY DEF RowsOK, ActivityRow, CancelRow
<1>9. \A k \in Key : k.answer = b => activity'[k].st # "live"
  <2> SUFFICES ASSUME NEW k \in Key, k.answer = b PROVE activity'[k].st # "live"
    OBVIOUS
  <2>1. CASE CancelAccept(h)
    <3>1. activity[k].st = "live" => k \in Found(h)
      BY <1>5 DEF Found
    <3> QED
      BY <1>7, <1>8, <2>1, <3>1
  <2>2. CASE ~CancelAccept(h)
    <3>1. SkipCancel(h)
      BY <2>2
    <3>2. seen[h][k].st # "live"
      BY <3>1 DEF SkipCancel, Locked
    <3> QED
      BY <1>5, <1>7, <2>2, <3>2
  <2> QED
    BY <2>1, <2>2
<1>10. \A k \in Key : k.answer # b => activity'[k] = activity[k]
  BY <1>6, <1>7
<1>11. \A p \in Questions : p # q => SameTables(p)
  BY <1>1, <1>4, <1>10 DEF SameTables
<1>12. LiveOnly(q, NoAnswer)'
  <2> SUFFICES ASSUME NEW a \in Answers, NEW r \in Roles, QuestionOf[a] = q,
                      NEW u \in Users
               PROVE  ~Live(a, r, u)'
    BY AcceptAssumption DEF LiveOnly
  <2>1. AwardKey(a, r, u) \in Key /\ AwardKey(a, r, u).answer = a
    BY DEF AwardKey, Key
  <2>2. CASE a = b
    BY <1>9, <2>1, <2>2 DEF Live, AwardKey
  <2>3. CASE a # b
    <3>1. ~Live(a, r, u)
      BY <1>4, <2>3 DEF LiveOnly
    <3> QED
      BY <1>10, <2>1, <2>3, <3>1 DEF Live, AwardKey
  <2> QED
    BY <2>2, <2>3
<1>13. Agree(q)' /\ accepted'[q] = n
  BY <1>1, <1>4 DEF Agree
<1> QED
  BY <1>1, <1>2, <1>3, <1>11, <1>12, <1>13, GoOnToAwardPhase, StepOnQuestion DEF CleanPhase

(* The award gives the new answer its two rows, of the acceptor alone.      *)
LEMMA SettledAward ==
  ASSUME RowsOK, RequestInv, SettledInv, NEW h \in Handlers,
         Clean(req[h].question), Award(h)
  PROVE  SettledInv'
<1>1. /\ Keeps(h) /\ Busy(h) /\ pc[h] = "award" /\ Finish(h)
      /\ accepted' = accepted /\ adopted' = adopted
  BY MoveKeeps DEF Moves, Step, Award, Busy
<1>2. PICK q \in Questions, n \in Answers, w \in Users :
        /\ q = req[h].question /\ n = req[h].answer /\ w = req[h].user
        /\ QuestionOf[n] = q
  BY <1>1, AskedQuestion, AcceptAssumption DEF RowsOK, Request
<1>3. Phase(h)
  BY <1>1 DEF SettledInv, CleanPhase
<1>4. LiveOnly(q, NoAnswer) /\ Agree(q) /\ accepted[q] = n
  BY <1>1, <1>2, <1>3 DEF Phase
<1>5. \A k \in Key : activity'[k].st =
        IF k.answer = n /\ k.trigger = w THEN "live" ELSE activity[k].st
  BY <1>2 DEF Award, Awarded, LiveRow
<1>6. \A p \in Questions : p # q => SameTables(p)
  BY <1>1, <1>2, <1>5 DEF SameTables
<1>7. LiveOnly(q, n)'
  <2> SUFFICES ASSUME NEW a \in Answers, NEW r \in Roles, QuestionOf[a] = q,
                      NEW u \in Users
               PROVE  Live(a, r, u)' <=> n = a /\ u = w
    BY DEF LiveOnly
  <2>1. /\ AwardKey(a, r, u) \in Key
        /\ AwardKey(a, r, u).answer = a /\ AwardKey(a, r, u).trigger = u
    BY DEF AwardKey, Key
  <2>2. ~Live(a, r, u)
    BY <1>4, AcceptAssumption DEF LiveOnly
  <2> QED
    BY <1>5, <2>1, <2>2 DEF Live, AwardKey
<1>8. Agree(q)' /\ LiveOnly(q, accepted[q])'
  BY <1>1, <1>4, <1>7 DEF Agree, LiveOnly
<1>9. SeenInv(h)' /\ ~Busy(h)'
  BY <1>1, FinishSeesNothing
<1>10. accepted'[q] # NoAnswer => QuestionOf[accepted'[q]] = q
  BY <1>1, <1>2, <1>4
<1> QED
  BY <1>1, <1>2, <1>6, <1>8, <1>9, <1>10, StepOnQuestion DEF CleanPhase

(* Clean or not, a step of h leaves every other question alone.            *)
LEMMA MoveElsewhere ==
  ASSUME RowsOK, RequestInv, NEW h \in Handlers, SeenInv(h), Moves(h),
         NEW p \in Questions, p # req[h].question
  PROVE  SameTables(p)
<1>1. Busy(h)
  BY MoveKeeps DEF Keeps
<1>2. CASE ClearAdopted(h)
  BY <1>2 DEF ClearAdopted, SameTables, RowsOK
<1>3. CASE Adopt(h)
  <2>1. req[h].answer \in Answers /\ QuestionOf[req[h].answer] # p
    BY <1>1, <1>3, AskedQuestion, AcceptAssumption DEF Adopt, RowsOK
  <2> QED
    BY <1>3, <2>1 DEF Adopt, SameTables, RowsOK
<1>4. CASE UpdateAccepted(h)
  BY <1>4 DEF UpdateAccepted, SameTables, RowsOK
<1>5. CASE CancelAccept(h)
  <2>1. \A k \in Found(h) : QuestionOf[k.answer] # p
    BY <1>5, AcceptAssumption DEF CancelAccept, SeenInv, Found, Key
  <2>2. \A k \in Key : QuestionOf[k.answer] = p => activity'[k] = activity[k]
    BY <1>5, <2>1 DEF CancelAccept
  <2> QED
    BY <1>5, <2>2 DEF CancelAccept, SameTables
<1>6. CASE Award(h)
  <2>1. req[h].answer \in Answers /\ QuestionOf[req[h].answer] # p
    BY <1>1, <1>6, AskedQuestion, AcceptAssumption DEF Award, RowsOK
  <2>2. \A k \in Key : QuestionOf[k.answer] = p => activity'[k] = activity[k]
    BY <1>6, <2>1 DEF Award, Awarded
  <2> QED
    BY <1>6, <2>2 DEF Award, SameTables
<1> QED
  BY <1>2, <1>3, <1>4, <1>5, <1>6, NothingTouched
  DEF Moves, Step, Tolerate, Fail, SkipAccepted, ReadQuestion, ReadAcceptRows,
      ReadAcceptedRows, SkipCancel, tables

(* Clean or not, h has seen rows of the previous answer only, and that was *)
(* an answer of its question.                                              *)
LEMMA MoveSees ==
  ASSUME RowsOK, RequestInv, NEW h \in Handlers, SeenInv(h), AcceptedOwn, Moves(h)
  PROVE  SeenInv(h)'
<1>1. Busy(h) /\ req[h].question \in Questions
  BY MoveKeeps, AskedQuestion DEF Keeps
<1>2. ASSUME Finish(h) PROVE SeenInv(h)'
  BY <1>2, FinishSeesNothing
<1>3. ASSUME GoOnToAward(h), pc[h] # "readQuestion" PROVE SeenInv(h)'
  <2>1. CASE req[h].answer = NoAnswer
    BY <1>2, <1>3, <2>1 DEF GoOnToAward
  <2>2. CASE req[h].answer # NoAnswer
    <3>1. pc'[h] = "award" /\ req' = req /\ previous' = previous /\ seen' = seen
      BY <1>3, <2>2 DEF GoOnToAward, RowsOK
    <3> QED
      BY <1>1, <1>3, <3>1 DEF SeenInv, Busy
  <2> QED
    BY <2>1, <2>2
<1>4. CASE ReadQuestion(h)
  BY <1>1, <1>4 DEF ReadQuestion, SeenInv, AcceptedOwn, RowsOK
<1>5. CASE ClearAdopted(h) \/ Adopt(h)
  <2>1. /\ req' = req /\ previous' = previous /\ seen' = seen
        /\ pc[h] \in {"clear", "adopt"} /\ pc'[h] \in {"adopt", "point"}
    BY <1>5 DEF ClearAdopted, Adopt, RowsOK
  <2> QED
    BY <2>1 DEF SeenInv
<1>6. CASE ReadAcceptRows(h) \/ ReadAcceptedRows(h)
  <2>1. PICK r \in Roles : FindRows(h, r)
    BY <1>6 DEF ReadAcceptRows, ReadAcceptedRows, Roles
  <2>2. /\ req' = req /\ previous' = previous /\ activity' = activity
        /\ pc[h] \in {"readAccept", "readAccepted"}
        /\ pc'[h] \in {"readAccepted", "cancel"}
    BY <1>6 DEF ReadAcceptRows, ReadAcceptedRows, RowsOK, tables
  <2>3. \A k \in Key : seen'[h][k].st # "none" => k.answer = previous[h]
    BY <2>1, <2>2, FindRowsSees
  <2> QED
    BY <2>2, <2>3 DEF SeenInv
<1>7. CASE UpdateAccepted(h) \/ (Tolerate(h) /\ pc[h] = "point")
  <2>1. GoOnToCancel(h) /\ pc[h] = "point"
    BY <1>7 DEF UpdateAccepted, Tolerate
  <2>2. CASE previous[h] = NoAnswer
    BY <1>3, <2>1, <2>2 DEF GoOnToCancel
  <2>3. CASE previous[h] # NoAnswer
    <3>1. pc'[h] = "readAccept" /\ req' = req /\ previous' = previous /\ seen' = seen
      BY <2>1, <2>3 DEF GoOnToCancel, RowsOK
    <3> QED
      BY <2>1, <3>1 DEF SeenInv
  <2> QED
    BY <2>2, <2>3
<1> QED
  BY <1>2, <1>3, <1>4, <1>5, <1>6, <1>7
  DEF Moves, Step, Tolerate, Fail, SkipAccepted, SkipCancel, CancelAccept, Award

LEMMA MoveOwn ==
  ASSUME RowsOK, RequestInv, AcceptedOwn, NEW h \in Handlers, Moves(h),
         NEW q \in Questions, q = req[h].question
  PROVE  accepted'[q] # NoAnswer => QuestionOf[accepted'[q]] = q
<1>1. CASE UpdateAccepted(h)
  <2>1. accepted'[q] = req[h].answer /\ Busy(h)
    BY <1>1 DEF UpdateAccepted, RowsOK, Busy
  <2> QED
    BY <2>1, AskedQuestion
<1>2. CASE ~UpdateAccepted(h)
  <2>1. accepted' = accepted
    BY <1>2 DEF Moves, Step, Tolerate, Fail, SkipAccepted, ReadQuestion, ClearAdopted,
         Adopt, ReadAcceptRows, ReadAcceptedRows, SkipCancel, CancelAccept, Award, tables
  <2> QED
    BY <2>1 DEF AcceptedOwn
<1> QED
  BY <1>1, <1>2

(* On a question whose requests have overlapped or failed, as they do in   *)
(* Tolerate and Fail, that is all there is to keep.                        *)
LEMMA SettledUnclean ==
  ASSUME RowsOK, RequestInv, SettledInv, NEW h \in Handlers, Moves(h),
         NEW q \in Questions, q = req[h].question, ~Clean(q)'
  PROVE  SettledInv'
<1>1. Keeps(h) /\ Busy(h)
  BY MoveKeeps DEF Keeps
<1>3. \A p \in Questions : p # q => SameTables(p)
  BY MoveElsewhere DEF SettledInv
<1>4. SeenInv(h)' /\ (accepted'[q] # NoAnswer => QuestionOf[accepted'[q]] = q)
  BY MoveSees, MoveOwn DEF SettledInv
<1>5. CASE Busy(h)'
  <2>1. CleanPhase(h)'
    BY <1>1, <1>5 DEF CleanPhase, Keeps
  <2> QED
    BY <1>1, <1>3, <1>4, <1>5, <2>1, StepOnQuestion
<1>6. CASE ~Busy(h)'
  <2>1. CleanPhase(h)'
    BY <1>6 DEF CleanPhase
  <2> QED
    BY <1>1, <1>3, <1>4, <2>1, <1>6, StepOnQuestion
<1> QED
  BY <1>5, <1>6

LEMMA StepSettledInv ==
  ASSUME RowsOK, RequestInv, SettledInv, [Next]_vars
  PROVE  SettledInv'
<1>1. ASSUME accepted' = accepted, adopted' = adopted, activity' = activity,
             pc' = pc, req' = req, previous' = previous, seen' = seen,
             serial' = serial, whole' = whole
      PROVE  SettledInv'
  BY <1>1 DEF SettledInv, AcceptedOwn, Quiet, Agree, LiveOnly, Live, NoneAdopted,
              Sees, SeenInv, Phase, CleanPhase, Clean, Busy
<1>2. ASSUME NEW h \in Handlers, Step(h)
      PROVE  SettledInv'
  <2>1. CASE Clean(req[h].question)
    BY <1>2, <2>1, SettledRead, SettledClear, SettledAdopt, SettledPoint,
       SettledReadRows, SettledCancel, SettledAward DEF Step
  <2>2. CASE ~Clean(req[h].question)
    <3>1. PICK q \in Questions : q = req[h].question /\ ~Clean(q)'
      BY <1>2, <2>2, MoveKeeps, AskedQuestion DEF Moves, Keeps, Clean
    <3> QED
      BY <1>2, <3>1, SettledUnclean DEF Moves
  <2> QED
    BY <2>1, <2>2
<1>3. ASSUME NEW h \in Handlers, Tolerate(h) \/ Fail(h)
      PROVE  SettledInv'
  <2>1. PICK q \in Questions : q = req[h].question
    BY <1>3, MoveKeeps, AskedQuestion DEF Moves, Keeps
  <2>2. ~Clean(q)'
    BY <1>3, <2>1 DEF Tolerate, Fail, Clean
  <2> QED
    BY <1>3, <2>1, <2>2, SettledUnclean DEF Moves
<1> QED
  BY <1>1, <1>2, <1>3, SettledReceive DEF Next, Penalise, vars

LEMMA InitSettledInv == Init => SettledInv
<1> SUFFICES ASSUME Init PROVE SettledInv
  OBVIOUS
<1>1. \A a \in Answers, r \in Roles, u \in Users : ~Live(a, r, u)
  BY DEF Init, Live, AwardKey, Key, NoActivity
<1>2. \A q \in Questions : Agree(q) /\ LiveOnly(q, NoAnswer)
  BY <1>1, AcceptAssumption DEF Init, Agree, LiveOnly
<1>3. \A h \in Handlers : SeenInv(h) /\ ~Busy(h)
  BY DEF Init, SeenInv, NothingSeen, NoActivity, Busy
<1> QED
  BY <1>2, <1>3 DEF Init, SettledInv, AcceptedOwn, CleanPhase

LEMMA SettledInvariant == Spec => []SettledInv
<1>1. RowsOK /\ RequestInv /\ SettledInv /\ [Next]_vars => (RequestInv /\ SettledInv)'
  BY StepRequestInv, StepSettledInv
<1> QED
  BY RowsTypeCorrect, InitAdoptInv, InitSettledInv, <1>1, PTL DEF Spec

(* A question that is quiet, and whose requests neither overlapped nor     *)
(* failed, points at its adopted answer.                                   *)
THEOREM PointerMatchesFlag == Spec => []AcceptedIsAdopted
<1>1. SettledInv => AcceptedIsAdopted
  BY AcceptAssumption
  DEF SettledInv, AcceptedIsAdopted, Settled, Clean, Agree
<1> QED
  BY SettledInvariant, <1>1, PTL

(* On such a question the awards that count are those of its accepted      *)
(* answer, each once, whatever its asker and answerers gain and lose       *)
(* elsewhere.                                                              *)
THEOREM AwardsMatchPointer == Spec => []AwardsFollowAccepted
<1>1. SettledInv => AwardsFollowAccepted
  <2> HIDE DEF Live
  <2> QED
    BY AcceptAssumption
    DEF SettledInv, AwardsFollowAccepted, Settled, Clean, LiveOnly
<1> QED
  BY SettledInvariant, <1>1, PTL
-----------------------------------------------------------------------------
(***************************************************************************)
(* Sums over finite sets: the integers f[x] of the elements x of a set, as *)
(* MapThenSumSet adds them up.  Up to SumRemove these are the lemmas that  *)
(* VoteRankProofs has of them.                                             *)
(***************************************************************************)
SumOver(f, S) == MapThenSumSet(LAMBDA k : f[k], S)

First(S) == CHOOSE x \in S : TRUE

Adds(f, S, g) ==
  g = [T \in SUBSET S |-> IF T = {} THEN 0 ELSE f[First(T)] + g[T \ {First(T)}]]

LEMMA SumUnfold ==
  ASSUME NEW f, NEW S
  PROVE  SumOver(f, S) = (CHOOSE g : Adds(f, S, g))[S]
BY DEF SumOver, MapThenSumSet, MapThenFoldSet, Adds, First

(* Induction over the natural numbers in a set of them: the successor would *)
(* be an injection of a finite set into itself that misses 0.               *)
LEMMA InductiveSet ==
  ASSUME NEW N, 0 \in N, \A n \in Nat : n \in N => n + 1 \in N
  PROVE  \A n \in Nat : n \in N
<1> SUFFICES ASSUME NEW m \in Nat, m \notin N PROVE FALSE
  OBVIOUS
<1> DEFINE S == {n \in 0..m : n \in N}
           f == [n \in S |-> n + 1]
<1>1. IsFiniteSet(S)
  <2>1. IsFiniteSet(0..m)
    BY FS_Interval
  <2>2. S \in SUBSET (0..m)
    OBVIOUS
  <2> HIDE DEF S
  <2> QED BY <2>1, <2>2, FS_Subset
<1>2. f \in [S -> S]
  OBVIOUS
<1>3. f \in Injection(S, S)
  <2>1. \A a, b \in S : f[a] = f[b] => a = b
    OBVIOUS
  <2>2. DOMAIN f = S
    OBVIOUS
  <2> HIDE DEF S, f
  <2> QED BY <1>2, <2>1, <2>2 DEF Injection, IsInjective
<1>4. f \in Surjection(S, S)
  <2> HIDE DEF S, f
  <2> QED BY <1>1, <1>3, FS_Injection
<1>5. 0 \in S
  OBVIOUS
<1>6. PICK n \in S : f[n] = 0
  <2> HIDE DEF S, f
  <2> QED BY <1>4, <1>5 DEF Surjection
<1> QED BY <1>6

(* The recursive function that MapThenSumSet chooses exists...             *)
AddsUpTo(f, S, n, g) ==
  \A T \in SUBSET S : Cardinality(T) <= n =>
    g[T] = IF T = {} THEN 0 ELSE f[First(T)] + g[T \ {First(T)}]

LEMMA FirstOf ==
  ASSUME NEW S, IsFiniteSet(S), NEW T \in SUBSET S, T # {}
  PROVE  /\ First(T) \in T
         /\ T \ {First(T)} \in SUBSET S
         /\ IsFiniteSet(T)
         /\ Cardinality(T) \in Nat /\ Cardinality(T \ {First(T)}) \in Nat
         /\ Cardinality(T \ {First(T)}) = Cardinality(T) - 1
<1>1. IsFiniteSet(T) /\ First(T) \in T
  BY FS_Subset DEF First
<1>2. IsFiniteSet(T \ {First(T)}) /\ Cardinality(T \ {First(T)}) = Cardinality(T) - 1
  BY <1>1, FS_RemoveElement
<1> QED BY <1>1, <1>2, FS_CardinalityType

LEMMA AddsExists ==
  ASSUME NEW S, IsFiniteSet(S), NEW D, S \subseteq D, NEW f \in [D -> Int]
  PROVE  \E g \in [SUBSET S -> Int] : Adds(f, S, g)
<1> DEFINE G == [SUBSET S -> Int]
           N == {n \in Nat : \E g \in G : AddsUpTo(f, S, n, g)}
<1>1. \A T \in SUBSET S : IsFiniteSet(T) /\ Cardinality(T) \in Nat
  BY FS_Subset, FS_CardinalityType
<1>2. \A T \in SUBSET S : Cardinality(T) = 0 <=> T = {}
  BY <1>1, FS_EmptySet
<1>3. 0 \in N
  <2> DEFINE g == [T \in SUBSET S |-> 0]
  <2>1. g \in G
    OBVIOUS
  <2>2. AddsUpTo(f, S, 0, g)
    BY <1>1, <1>2 DEF AddsUpTo
  <2> QED BY <2>1, <2>2
<1>4. ASSUME NEW n \in Nat, n \in N PROVE n + 1 \in N
  <2>1. PICK g \in G : AddsUpTo(f, S, n, g)
    BY <1>4
  <2> DEFINE e == [T \in SUBSET S |->
                     IF Cardinality(T) = n + 1 THEN f[First(T)] + g[T \ {First(T)}]
                                               ELSE g[T]]
  <2>2. e \in G
    <3> SUFFICES ASSUME NEW T \in SUBSET S, Cardinality(T) = n + 1
                 PROVE  f[First(T)] + g[T \ {First(T)}] \in Int
      OBVIOUS
    <3>1. T # {}
      BY <1>1, <1>2
    <3> QED BY <3>1, FirstOf
  <2>3. AddsUpTo(f, S, n + 1, e)
    <3> SUFFICES ASSUME NEW T \in SUBSET S, Cardinality(T) <= n + 1
                 PROVE  e[T] = IF T = {} THEN 0 ELSE f[First(T)] + e[T \ {First(T)}]
      BY DEF AddsUpTo
    <3>1. CASE T = {}
      <4>1. Cardinality(T) = 0 /\ Cardinality(T) <= n
        BY <3>1, FS_EmptySet
      <4>2. e[T] = g[T] /\ g[T] = 0
        BY <2>1, <3>1, <4>1 DEF AddsUpTo
      <4> QED BY <3>1, <4>2
    <3>2. CASE T # {}
      <4> DEFINE R == T \ {First(T)}
      <4>1. R \in SUBSET S /\ Cardinality(R) = Cardinality(T) - 1
            /\ Cardinality(T) \in Nat
        BY <3>2, FirstOf
      <4> HIDE DEF R
      <4>2. e[R] = g[R]
        BY <4>1
      <4>3. e[T] = f[First(T)] + g[R]
        <5>1. CASE Cardinality(T) = n + 1
          BY <5>1 DEF R
        <5>2. CASE Cardinality(T) # n + 1
          <6>1. Cardinality(T) <= n
            BY <4>1, <5>2
          <6>2. g[T] = f[First(T)] + g[R]
            BY <2>1, <3>2, <6>1 DEF AddsUpTo, R
          <6> QED BY <5>2, <6>2
        <5> QED BY <5>1, <5>2
      <4> QED BY <3>2, <4>2, <4>3 DEF R
    <3> QED BY <3>1, <3>2
  <2> HIDE DEF e
  <2> QED BY <2>2, <2>3
<1>5. Cardinality(S) \in N
  <2> HIDE DEF N
  <2>1. \A n \in Nat : n \in N
    BY <1>3, <1>4, InductiveSet
  <2>2. Cardinality(S) \in Nat
    BY <1>1
  <2> QED BY <2>1, <2>2
<1>6. PICK g \in G : AddsUpTo(f, S, Cardinality(S), g)
  BY <1>5
<1>7. Adds(f, S, g)
  <2>1. \A T \in SUBSET S : Cardinality(T) <= Cardinality(S)
    BY FS_Subset
  <2>2. \A T \in SUBSET S :
          g[T] = IF T = {} THEN 0 ELSE f[First(T)] + g[T \ {First(T)}]
    BY <1>6, <2>1 DEF AddsUpTo
  <2> QED BY <2>2 DEF Adds
<1> QED BY <1>7

(* ... and there is one only: it depends on the terms and not on the set    *)
(* it is defined over.                                                     *)
LEMMA AddsUnique ==
  ASSUME NEW S, IsFiniteSet(S), NEW f, NEW g, NEW T \in SUBSET S, NEW e, NEW d,
         \A x \in T : f[x] = e[x], Adds(f, S, g), Adds(e, T, d)
  PROVE  g[T] = d[T]
<1> DEFINE N == {n \in Nat : \A R \in SUBSET T : Cardinality(R) = n => g[R] = d[R]}
<1>1. IsFiniteSet(T) /\ \A R \in SUBSET T : IsFiniteSet(R) /\ Cardinality(R) \in Nat
  BY FS_Subset, FS_CardinalityType
<1>2. \A R \in SUBSET T : Cardinality(R) = 0 <=> R = {}
  BY <1>1, FS_EmptySet
<1>3. \A R \in SUBSET T :
        /\ g[R] = IF R = {} THEN 0 ELSE f[First(R)] + g[R \ {First(R)}]
        /\ d[R] = IF R = {} THEN 0 ELSE e[First(R)] + d[R \ {First(R)}]
  BY DEF Adds
<1>4. 0 \in N
  BY <1>2, <1>3
<1>5. ASSUME NEW n \in Nat, n \in N PROVE n + 1 \in N
  <2> SUFFICES ASSUME NEW R \in SUBSET T, Cardinality(R) = n + 1 PROVE g[R] = d[R]
    OBVIOUS
  <2>1. R # {}
    BY <1>2
  <2>2. /\ First(R) \in R /\ R \ {First(R)} \in SUBSET T
        /\ Cardinality(R \ {First(R)}) = n
    BY <1>1, <2>1, FirstOf
  <2>3. g[R \ {First(R)}] = d[R \ {First(R)}]
    BY <1>5, <2>2
  <2> QED BY <1>3, <2>1, <2>2, <2>3
<1>6. Cardinality(T) \in N
  <2> HIDE DEF N
  <2>1. \A n \in Nat : n \in N
    BY <1>4, <1>5, InductiveSet
  <2> QED BY <1>1, <2>1
<1> QED BY <1>6

(* So the sum over a part of S can be read off the function of S.           *)
LEMMA SumOfPart ==
  ASSUME NEW S, IsFiniteSet(S), NEW D, S \subseteq D, NEW f \in [D -> Int],
         NEW g, Adds(f, S, g), NEW T \in SUBSET S
  PROVE  SumOver(f, T) = g[T]
<1>1. IsFiniteSet(T) /\ T \subseteq D
  BY FS_Subset
<1>2. \E d : Adds(f, T, d)
  BY <1>1, AddsExists
<1> DEFINE d == CHOOSE d : Adds(f, T, d)
<1>3. Adds(f, T, d)
  BY <1>2
<1>4. SumOver(f, T) = d[T]
  BY SumUnfold
<1> HIDE DEF d
<1>5. \A x \in T : f[x] = f[x]
  OBVIOUS
<1> QED BY <1>3, <1>4, <1>5, AddsUnique

(* A sum of integers is an integer; it depends on the terms it sums.        *)
LEMMA SumTyped ==
  ASSUME NEW D, NEW f \in [D -> Int], NEW S \in SUBSET D, IsFiniteSet(S)
  PROVE  SumOver(f, S) \in Int
<1>1. PICK g \in [SUBSET S -> Int] : Adds(f, S, g)
  BY AddsExists
<1>2. SumOver(f, S) = g[S]
  BY <1>1, SumOfPart
<1> QED BY <1>2

LEMMA SumSame ==
  ASSUME NEW D, NEW f \in [D -> Int], NEW C, NEW e \in [C -> Int],
         NEW S \in SUBSET (D \cap C), IsFiniteSet(S), \A x \in S : f[x] = e[x]
  PROVE  SumOver(f, S) = SumOver(e, S)
<1>1. PICK g \in [SUBSET S -> Int] : Adds(f, S, g)
  BY AddsExists
<1>2. PICK d \in [SUBSET S -> Int] : Adds(e, S, d)
  BY AddsExists
<1>3. g[S] = d[S]
  BY <1>1, <1>2, AddsUnique
<1>4. SumOver(f, S) = g[S]
  BY <1>1, SumOfPart
<1>5. SumOver(e, S) = d[S]
  BY <1>2, SumOfPart
<1> QED BY <1>3, <1>4, <1>5

LEMMA SumEmpty ==
  ASSUME NEW D, NEW f \in [D -> Int]
  PROVE  SumOver(f, {}) = 0
<1>1. IsFiniteSet({})
  BY FS_EmptySet
<1>2. PICK g \in [SUBSET {} -> Int] : Adds(f, {}, g)
  BY <1>1, AddsExists
<1>3. SumOver(f, {}) = g[{}]
  BY <1>1, <1>2, SumOfPart
<1> QED BY <1>2, <1>3 DEF Adds

(* Any term can be taken out of a sum.                                     *)
LEMMA SumRemove ==
  ASSUME NEW D, NEW f \in [D -> Int], NEW S \in SUBSET D, IsFiniteSet(S), NEW x \in S
  PROVE  SumOver(f, S) = f[x] + SumOver(f, S \ {x})
<1>1. PICK g \in [SUBSET S -> Int] : Adds(f, S, g)
  BY AddsExists
<1> DEFINE N == {n \in Nat : \A T \in SUBSET S : \A y \in T :
                               Cardinality(T) = n => g[T] = f[y] + g[T \ {y}]}
<1>2. \A T \in SUBSET S : IsFiniteSet(T) /\ Cardinality(T) \in Nat
  BY FS_Subset, FS_CardinalityType
<1>3. \A T \in SUBSET S : Cardinality(T) = 0 <=> T = {}
  BY <1>2, FS_EmptySet
<1>4. \A T \in SUBSET S :
        g[T] = IF T = {} THEN 0 ELSE f[First(T)] + g[T \ {First(T)}]
  BY <1>1 DEF Adds
<1>5. 0 \in N
  BY <1>3
<1>6. ASSUME NEW n \in Nat, n \in N PROVE n + 1 \in N
  <2> SUFFICES ASSUME NEW T \in SUBSET S, NEW y \in T, Cardinality(T) = n + 1
               PROVE  g[T] = f[y] + g[T \ {y}]
    OBVIOUS
  <2> DEFINE z == First(T)
  <2>1. z \in T /\ g[T] = f[z] + g[T \ {z}]
    BY <1>4, FirstOf
  <2>2. CASE y = z
    BY <2>1, <2>2
  <2>3. CASE y # z
    <3>1. /\ T \ {z} \in SUBSET S /\ y \in T \ {z} /\ Cardinality(T \ {z}) = n
          /\ T \ {y} \in SUBSET S /\ z \in T \ {y} /\ Cardinality(T \ {y}) = n
      <4> HIDE DEF z
      <4>1. IsFiniteSet(T) /\ Cardinality(T) - 1 = n
        BY <1>2
      <4>2. Cardinality(T \ {z}) = n /\ Cardinality(T \ {y}) = n
        BY <2>1, <4>1, FS_RemoveElement
      <4> QED BY <2>1, <2>3, <4>2
    <3> HIDE DEF z
    <3>2. g[T \ {z}] = f[y] + g[(T \ {z}) \ {y}]
      BY <1>6, <3>1
    <3>3. g[T \ {y}] = f[z] + g[(T \ {y}) \ {z}]
      BY <1>6, <3>1
    <3>4. (T \ {z}) \ {y} = (T \ {y}) \ {z}
      OBVIOUS
    <3>5. (T \ {z}) \ {y} \in SUBSET S
      BY <3>1
    <3> DEFINE c == g[(T \ {z}) \ {y}]
    <3>6. f[y] \in Int /\ f[z] \in Int /\ c \in Int
      BY <1>1, <2>1, <3>5
    <3>7. g[T] = f[z] + (f[y] + c) /\ g[T \ {y}] = f[z] + c
      BY <2>1, <3>2, <3>3, <3>4
    <3> HIDE DEF c
    <3> QED BY <3>6, <3>7
  <2> QED BY <2>2, <2>3
<1>7. Cardinality(S) \in N
  <2> HIDE DEF N
  <2>1. \A n \in Nat : n \in N
    BY <1>5, <1>6, InductiveSet
  <2> QED BY <1>2, <2>1
<1>8. g[S] = f[x] + g[S \ {x}]
  BY <1>7
<1>9. S \in SUBSET S /\ S \ {x} \in SUBSET S
  OBVIOUS
<1>10. SumOver(f, S) = g[S] /\ SumOver(f, S \ {x}) = g[S \ {x}]
  BY <1>1, <1>9, SumOfPart
<1> QED BY <1>8, <1>10

(* A family of finite sets that holds {} and with a set every larger one.   *)
LEMMA SubsetInduction ==
  ASSUME NEW S, IsFiniteSet(S), NEW F, {} \in F,
         \A T \in SUBSET S : \A x \in S \ T : T \in F => T \cup {x} \in F
  PROVE  S \in F
<1> DEFINE N == {n \in Nat : \A T \in SUBSET S : Cardinality(T) = n => T \in F}
<1>1. \A T \in SUBSET S : IsFiniteSet(T) /\ Cardinality(T) \in Nat
  BY FS_Subset, FS_CardinalityType
<1>2. 0 \in N
  BY <1>1, FS_EmptySet
<1>3. ASSUME NEW n \in Nat, n \in N PROVE n + 1 \in N
  <2> SUFFICES ASSUME NEW T \in SUBSET S, Cardinality(T) = n + 1 PROVE T \in F
    OBVIOUS
  <2>1. PICK x : x \in T
    <3> HIDE DEF N
    <3>1. Cardinality({}) = 0
      BY FS_EmptySet
    <3>2. T # {}
      BY <3>1
    <3> QED BY <3>2
  <2>2. T \ {x} \in SUBSET S /\ Cardinality(T \ {x}) = n
    <3> HIDE DEF N
    <3>1. IsFiniteSet(T)
      BY <1>1
    <3>2. Cardinality(T \ {x}) = Cardinality(T) - 1
      BY <2>1, <3>1, FS_RemoveElement
    <3> QED BY <3>2
  <2>3. T \ {x} \in F
    BY <1>3, <2>2
  <2>4. (T \ {x}) \cup {x} = T /\ x \in S \ (T \ {x})
    BY <2>1
  <2>5. (T \ {x}) \cup {x} \in F
    BY <2>2, <2>3, <2>4
  <2> QED BY <2>4, <2>5
<1>4. Cardinality(S) \in N
  <2> HIDE DEF N
  <2>1. \A n \in Nat : n \in N
    BY <1>2, <1>3, InductiveSet
  <2> QED BY <1>1, <2>1
<1> QED BY <1>4

LEMMA SumAdd ==
  ASSUME NEW D, NEW f \in [D -> Int], NEW S \in SUBSET D, IsFiniteSet(S),
         NEW x \in D \ S
  PROVE  SumOver(f, S \cup {x}) = f[x] + SumOver(f, S)
<1>1. (S \cup {x}) \ {x} = S
  OBVIOUS
<1>2. IsFiniteSet(S \cup {x}) /\ S \cup {x} \in SUBSET D /\ x \in S \cup {x}
  BY FS_AddElement
<1>3. SumOver(f, S \cup {x}) = f[x] + SumOver(f, (S \cup {x}) \ {x})
  BY <1>2, SumRemove
<1> QED BY <1>1, <1>3

(* A sum over two sets apart is the sum of the sums.                       *)
LEMMA SumSplit ==
  ASSUME NEW D, NEW f \in [D -> Int], NEW A \in SUBSET D, NEW B \in SUBSET D,
         IsFiniteSet(A), IsFiniteSet(B), A \cap B = {}
  PROVE  SumOver(f, A \cup B) = SumOver(f, A) + SumOver(f, B)
<1> DEFINE F == {T \in SUBSET B : SumOver(f, A \cup T) = SumOver(f, A) + SumOver(f, T)}
<1>1. {} \in F
  <2>1. SumOver(f, {}) = 0 /\ SumOver(f, A) \in Int
    BY SumEmpty, SumTyped
  <2>2. A \cup {} = A
    OBVIOUS
  <2> QED BY <2>1, <2>2
<1>2. ASSUME NEW T \in SUBSET B, NEW x \in B \ T, T \in F PROVE T \cup {x} \in F
  <2>1. IsFiniteSet(T) /\ IsFiniteSet(A \cup T)
    BY FS_Subset, FS_Union
  <2>2. SumOver(f, T \cup {x}) = f[x] + SumOver(f, T)
    BY <2>1, SumAdd
  <2>3. x \in D \ (A \cup T) /\ A \cup T \in SUBSET D
    OBVIOUS
  <2>4. SumOver(f, (A \cup T) \cup {x}) = f[x] + SumOver(f, A \cup T)
    BY <2>1, <2>3, SumAdd
  <2>5. (A \cup T) \cup {x} = A \cup (T \cup {x})
    OBVIOUS
  <2>6. f[x] \in Int /\ SumOver(f, A) \in Int /\ SumOver(f, T) \in Int
    BY <2>1, SumTyped
  <2>7. SumOver(f, A \cup T) = SumOver(f, A) + SumOver(f, T)
    BY <1>2
  <2>8. SumOver(f, A \cup (T \cup {x})) = f[x] + SumOver(f, A \cup T)
    BY <2>4, <2>5
  <2>9. SumOver(f, A \cup (T \cup {x})) = SumOver(f, A) + SumOver(f, T \cup {x})
    BY <2>2, <2>6, <2>7, <2>8
  <2> QED BY <2>9
<1>3. B \in F
  <2> HIDE DEF F
  <2> QED BY <1>1, <1>2, SubsetInduction
<1> QED BY <1>3

(* Larger terms, larger sum.                                               *)
LEMMA SumAtMost ==
  ASSUME NEW D, NEW f \in [D -> Int], NEW e \in [D -> Int], NEW S \in SUBSET D,
         IsFiniteSet(S), \A x \in S : f[x] <= e[x]
  PROVE  SumOver(f, S) <= SumOver(e, S)
<1> DEFINE F == {T \in SUBSET S : SumOver(f, T) <= SumOver(e, T)}
<1>1. {} \in F
  <2>1. SumOver(f, {}) = 0 /\ SumOver(e, {}) = 0
    BY SumEmpty
  <2> QED BY <2>1
<1>2. ASSUME NEW T \in SUBSET S, NEW x \in S \ T, T \in F PROVE T \cup {x} \in F
  <2>1. IsFiniteSet(T) /\ T \in SUBSET D /\ x \in D \ T
    BY FS_Subset
  <2>2. SumOver(f, T \cup {x}) = f[x] + SumOver(f, T)
    BY <2>1, SumAdd
  <2>3. SumOver(e, T \cup {x}) = e[x] + SumOver(e, T)
    BY <2>1, SumAdd
  <2>4. /\ f[x] \in Int /\ e[x] \in Int /\ f[x] <= e[x]
        /\ SumOver(f, T) \in Int /\ SumOver(e, T) \in Int
    BY <2>1, SumTyped
  <2>5. SumOver(f, T) <= SumOver(e, T)
    BY <1>2
  <2>6. SumOver(f, T \cup {x}) <= SumOver(e, T \cup {x})
    BY <2>2, <2>3, <2>4, <2>5
  <2> QED BY <2>6
<1>3. S \in F
  <2> HIDE DEF F
  <2> QED BY <1>1, <1>2, SubsetInduction
<1> QED BY <1>3

-----------------------------------------------------------------------------
(***************************************************************************)
(* The rank and the awards that count, under any overlap and failure.      *)
(* Every row of an award holds the points that award is worth, whoever     *)
(* reads it and however late, so what is taken back is never more than     *)
(* what stops counting.                                                    *)
(***************************************************************************)
Worth == [k \in Key |-> AwardPoints(k.answer, k.role)]

Counting(table) == {k \in Key : table[k].st = "live"}

CountingFor(table, u) == {k \in Key : KeyUser(k) = u /\ table[k].st = "live"}

PointsOf(table, u) == MapThenSumSet(LAMBDA k : table[k].rank, CountingFor(table, u))

RowsWorth(table) == \A k \in Key : table[k].st # "none" => table[k].rank = Worth[k]

Covers(u) == rank[u] >= InitialRank + PointsOf(activity, u) - lost[u]

AwardInv ==
  /\ rank \in [Users -> Int] /\ lost \in [Users -> Int]
  /\ RowsWorth(activity)
  /\ \A h \in Handlers, k \in Key : seen[h][k].st # "none" =>
       activity[k].st # "none" /\ seen[h][k].rank = Worth[k]
  /\ IsFiniteSet(Counting(activity))
  /\ ~RankAgentEnabled => \A u \in Users : Covers(u)

LEMMA WorthTyped == Worth \in [Key -> Int] /\ \A k \in Key : KeyUser(k) \in Users
<1>1. ASSUME NEW k \in Key PROVE AwardPoints(k.answer, k.role) \in Int /\ KeyUser(k) \in Users
  <2>1. k.answer \in Answers /\ k.role \in Roles
    BY DEF Key
  <2>2. KeyUser(k) \in Users
    BY <2>1, AcceptAssumption DEF KeyUser
  <2> QED BY <2>1, <2>2, AwardPointsTyped
<1> QED BY <1>1 DEF Worth

(* The three sums of the model, as sums of what the awards are worth.       *)
LEMMA PointsAreWorth ==
  ASSUME NEW table, RowsWorth(table), NEW u, IsFiniteSet(Counting(table))
  PROVE  /\ PointsOf(table, u) = SumOver(Worth, CountingFor(table, u))
         /\ PointsOf(table, u) \in Int
<1> DEFINE C == CountingFor(table, u)
           AddsRows(g) ==
             g = [T \in SUBSET C |->
                    IF T = {} THEN 0 ELSE table[First(T)].rank + g[T \ {First(T)}]]
           d == CHOOSE g : AddsRows(g)
<1>1. PointsOf(table, u) = d[C]
  BY DEF PointsOf, MapThenSumSet, MapThenFoldSet, First
<1>2. C \in SUBSET Counting(table) /\ C \in SUBSET Key
  BY DEF Counting, CountingFor
<1>3. IsFiniteSet(C)
  BY <1>2, FS_Subset
<1>4. \A T \in SUBSET C : T # {} => Worth[First(T)] = table[First(T)].rank
  BY <1>2 DEF First, RowsWorth, CountingFor
<1>5. \A g : Adds(Worth, C, g) <=> AddsRows(g)
  BY <1>4 DEF Adds
<1>6. \E g : Adds(Worth, C, g)
  BY <1>2, <1>3, WorthTyped, AddsExists
<1> HIDE DEF AddsRows
<1>7. AddsRows(d)
  BY <1>5, <1>6
<1> HIDE DEF d
<1>8. Adds(Worth, C, d) /\ C \in SUBSET C
  BY <1>5, <1>7
<1>9. SumOver(Worth, C) = d[C]
  BY <1>2, <1>3, <1>8, WorthTyped, SumOfPart
<1>10. SumOver(Worth, C) \in Int
  BY <1>2, <1>3, WorthTyped, SumTyped
<1> QED BY <1>1, <1>9, <1>10

LEMMA GainIsWorth ==
  ASSUME NEW h \in Handlers, NEW u, IsFiniteSet(Awarded(h))
  PROVE  /\ Gain(h, u) = SumOver(Worth, {k \in Awarded(h) : KeyUser(k) = u})
         /\ Gain(h, u) \in Int
<1> DEFINE C == {k \in Awarded(h) : KeyUser(k) = u}
           AddsRows(g) ==
             g = [T \in SUBSET C |->
                    IF T = {} THEN 0 ELSE AwardPoints(First(T).answer, First(T).role)
                                            + g[T \ {First(T)}]]
           d == CHOOSE g : AddsRows(g)
<1>1. Gain(h, u) = d[C]
  BY DEF Gain, MapThenSumSet, MapThenFoldSet, First
<1>2. C \in SUBSET Awarded(h) /\ C \in SUBSET Key
  BY DEF Awarded
<1>3. IsFiniteSet(C)
  BY <1>2, FS_Subset
<1>4. \A T \in SUBSET C : T # {} =>
        Worth[First(T)] = AwardPoints(First(T).answer, First(T).role)
  BY <1>2 DEF First, Worth
<1>5. \A g : Adds(Worth, C, g) <=> AddsRows(g)
  BY <1>4 DEF Adds
<1>6. \E g : Adds(Worth, C, g)
  BY <1>2, <1>3, WorthTyped, AddsExists
<1> HIDE DEF AddsRows
<1>7. AddsRows(d)
  BY <1>5, <1>6
<1> HIDE DEF d
<1>8. Adds(Worth, C, d) /\ C \in SUBSET C
  BY <1>5, <1>7
<1>9. SumOver(Worth, C) = d[C]
  BY <1>2, <1>3, <1>8, WorthTyped, SumOfPart
<1>10. SumOver(Worth, C) \in Int
  BY <1>2, <1>3, WorthTyped, SumTyped
<1> QED BY <1>1, <1>9, <1>10

(* The floor is tested for every row against the same rank: it never makes  *)
(* a loss larger than the rows.                                            *)
LEMMA LossAtMostWorth ==
  ASSUME RowsOK, AwardInv, NEW h \in Handlers, NEW u \in Users,
         IsFiniteSet(RolledBack(h, u))
  PROVE  /\ Loss(h, u) \in Int
         /\ ~RankAgentEnabled => Loss(h, u) <= SumOver(Worth, RolledBack(h, u))
<1> DEFINE C == RolledBack(h, u)
           term(k) == rank[u] - ChangeUserRank(rank[u], -seen[h][k].rank)
           f == [k \in Key |-> term(k)]
           AddsRows(g) ==
             g = [T \in SUBSET C |->
                    IF T = {} THEN 0 ELSE term(First(T)) + g[T \ {First(T)}]]
           d == CHOOSE g : AddsRows(g)
<1>1. Loss(h, u) = d[C]
  BY DEF Loss, MapThenSumSet, MapThenFoldSet, First
<1>2. C \in SUBSET Key /\ C \in SUBSET Found(h)
  BY DEF RolledBack, Found
<1>3. \A k \in Key : term(k) \in Int
  BY DEF RowsOK, AwardInv, ActivityRow, ChangeUserRank
<1>4. f \in [Key -> Int] /\ \A T \in SUBSET C : T # {} => f[First(T)] = term(First(T))
  BY <1>2, <1>3 DEF First
<1>5. \A k \in C : ~RankAgentEnabled => f[k] <= Worth[k]
  <2> SUFFICES ASSUME NEW k \in C, ~RankAgentEnabled PROVE f[k] <= Worth[k]
    OBVIOUS
  <2>1. f[k] = term(k) /\ seen[h][k].rank = Worth[k]
    BY <1>2 DEF Found, AwardInv
  <2>2. rank[u] \in Int /\ Worth[k] \in Int
    BY <1>2, WorthTyped DEF AwardInv
  <2> QED BY <2>1, <2>2 DEF ChangeUserRank
<1> HIDE DEF term, f
<1>6. \A g : Adds(f, C, g) <=> AddsRows(g)
  BY <1>4 DEF Adds
<1>7. \E g : Adds(f, C, g)
  BY <1>2, <1>4, AddsExists
<1> HIDE DEF AddsRows
<1>8. AddsRows(d)
  BY <1>6, <1>7
<1> HIDE DEF d
<1>9. Adds(f, C, d) /\ C \in SUBSET C
  BY <1>6, <1>8
<1>10. SumOver(f, C) = d[C]
  BY <1>2, <1>4, <1>9, SumOfPart
<1>11. SumOver(f, C) \in Int
  BY <1>2, <1>4, SumTyped
<1>12. ~RankAgentEnabled => SumOver(f, C) <= SumOver(Worth, C)
  BY <1>2, <1>4, <1>5, WorthTyped, SumAtMost
<1> QED BY <1>1, <1>10, <1>11, <1>12

LEMMA AwardedFinite ==
  ASSUME NEW h \in Handlers
  PROVE  IsFiniteSet(Awarded(h))
<1> DEFINE Both == {AwardKey(req[h].answer, "accept", req[h].user),
                    AwardKey(req[h].answer, "accepted", req[h].user)}
<1>1. IsFiniteSet({AwardKey(req[h].answer, "accept", req[h].user)})
  BY FS_Singleton
<1>2. IsFiniteSet({AwardKey(req[h].answer, "accept", req[h].user)}
                    \cup {AwardKey(req[h].answer, "accepted", req[h].user)})
  BY <1>1, FS_AddElement
<1>3. Both = {AwardKey(req[h].answer, "accept", req[h].user)}
               \cup {AwardKey(req[h].answer, "accepted", req[h].user)}
  OBVIOUS
<1>4. Awarded(h) \in SUBSET Both
  BY DEF Awarded, AwardKey, Key, Roles
<1> QED BY <1>2, <1>3, <1>4, FS_Subset

(* What a step may leave a handler with: the rows it had found, rows that   *)
(* are there now, or none.                                                 *)
SeenFrom == \A h \in Handlers, k \in Key :
              seen'[h][k] \in {seen[h][k], activity[k], NoActivity}

LEMMA FinishSees ==
  ASSUME RowsOK, NEW h \in Handlers, Finish(h)
  PROVE  \A g \in Handlers, k \in Key : seen'[g][k] \in {seen[g][k], NoActivity}
BY DEF RowsOK, Finish, NothingSeen

LEMMA GoOnSees ==
  ASSUME RowsOK, NEW h \in Handlers, GoOnToAward(h) \/ GoOnToCancel(h)
  PROVE  \A g \in Handlers, k \in Key : seen'[g][k] \in {seen[g][k], NoActivity}
BY FinishSees DEF GoOnToAward, GoOnToCancel

(* The steps that move no rank and no row.                                 *)
LEMMA CoverKept ==
  ASSUME AwardInv, activity' = activity, rank' = rank, lost' = lost, SeenFrom
  PROVE  AwardInv'
<1>1. \A h \in Handlers, k \in Key : seen'[h][k].st # "none" =>
        activity'[k].st # "none" /\ seen'[h][k].rank = Worth[k]
  <2> SUFFICES ASSUME NEW h \in Handlers, NEW k \in Key, seen'[h][k].st # "none"
               PROVE  activity[k].st # "none" /\ seen'[h][k].rank = Worth[k]
    OBVIOUS
  <2>1. seen'[h][k] = seen[h][k] \/ seen'[h][k] = activity[k]
    BY DEF SeenFrom, NoActivity
  <2> QED BY <2>1 DEF AwardInv, RowsWorth
<1> QED BY <1>1 DEF AwardInv, RowsWorth, Covers

LEMMA AwardCovered ==
  ASSUME RowsOK, AwardInv, NEW h \in Handlers, Award(h)
  PROVE  AwardInv'
<1> DEFINE A == Awarded(h)
<1>1. /\ \A k \in Key : activity'[k] = IF k \in A THEN LiveRow(AwardPoints(k.answer, k.role))
                                                  ELSE activity[k]
      /\ rank' = [u \in Users |-> ChangeUserRank(rank[u], Gain(h, u))]
      /\ lost' = lost /\ Finish(h)
  BY DEF Award
<1>2. A \in SUBSET Key /\ IsFiniteSet(A) /\ \A k \in A : activity[k].st # "live"
  BY AwardedFinite DEF Awarded
<1>3. /\ \A k \in A : activity'[k].st = "live" /\ activity'[k].rank = Worth[k]
      /\ \A k \in Key \ A : activity'[k] = activity[k]
  <2>1. ASSUME NEW k \in A
        PROVE  activity'[k].st = "live" /\ activity'[k].rank = Worth[k]
    <3> DEFINE w == AwardPoints(k.answer, k.role)
    <3>1. k \in Key
      BY <1>2
    <3>2. activity'[k] = LiveRow(w)
      BY <1>1, <3>1
    <3>3. Worth[k] = w
      BY <3>1 DEF Worth
    <3> HIDE DEF w
    <3>4. LiveRow(w).st = "live" /\ LiveRow(w).rank = w
      BY DEF LiveRow
    <3> QED BY <3>2, <3>3, <3>4
  <2>2. \A k \in Key \ A : activity'[k] = activity[k]
    BY <1>1
  <2> QED BY <2>1, <2>2
<1> HIDE DEF A
<1>4. RowsWorth(activity')
  BY <1>3 DEF RowsWorth, AwardInv
<1>5. \A g \in Handlers, k \in Key : seen'[g][k].st # "none" =>
        activity'[k].st # "none" /\ seen'[g][k].rank = Worth[k]
  <2> SUFFICES ASSUME NEW g \in Handlers, NEW k \in Key, seen'[g][k].st # "none"
               PROVE  activity'[k].st # "none" /\ seen'[g][k].rank = Worth[k]
    OBVIOUS
  <2>1. seen'[g][k] = seen[g][k]
    BY <1>1, FinishSees DEF NoActivity
  <2> QED BY <1>3, <2>1 DEF AwardInv
<1>6. IsFiniteSet(Counting(activity')) /\ Counting(activity') = Counting(activity) \cup A
  <2>1. Counting(activity') = Counting(activity) \cup A
    BY <1>2, <1>3 DEF Counting
  <2>2. IsFiniteSet(Counting(activity) \cup A)
    BY <1>2, FS_Union DEF AwardInv
  <2> QED BY <2>1, <2>2
<1>7. ASSUME NEW u \in Users
      PROVE  /\ PointsOf(activity', u) = PointsOf(activity, u) + Gain(h, u)
             /\ PointsOf(activity, u) \in Int /\ Gain(h, u) \in Int
  <2> DEFINE C == CountingFor(activity, u)
             B == {k \in A : KeyUser(k) = u}
  <2>1. CountingFor(activity', u) = C \cup B /\ C \cap B = {}
    BY <1>2, <1>3 DEF CountingFor
  <2>2. C \in SUBSET Counting(activity) /\ B \in SUBSET A /\ C \in SUBSET Key /\ B \in SUBSET Key
    BY <1>2 DEF CountingFor, Counting
  <2>3. IsFiniteSet(C) /\ IsFiniteSet(B)
    BY <1>2, <2>2, FS_Subset DEF AwardInv
  <2>4. Gain(h, u) = SumOver(Worth, B) /\ Gain(h, u) \in Int
    BY <1>2, GainIsWorth DEF A
  <2>5. PointsOf(activity, u) = SumOver(Worth, C) /\ PointsOf(activity, u) \in Int
    BY PointsAreWorth DEF AwardInv
  <2>6. PointsOf(activity', u) = SumOver(Worth, CountingFor(activity', u))
    BY <1>4, <1>6, PointsAreWorth
  <2> HIDE DEF B, C
  <2>7. SumOver(Worth, C \cup B) = SumOver(Worth, C) + SumOver(Worth, B)
    BY <2>1, <2>2, <2>3, WorthTyped, SumSplit
  <2>8. PointsOf(activity', u) = SumOver(Worth, C \cup B)
    BY <2>1, <2>6
  <2> QED BY <2>4, <2>5, <2>7, <2>8
<1>8. rank' \in [Users -> Int]
  BY <1>1, <1>7 DEF AwardInv, ChangeUserRank
<1>9. ASSUME NEW u \in Users, ~RankAgentEnabled PROVE Covers(u)'
  <2> DEFINE p == PointsOf(activity, u)
             q == PointsOf(activity', u)
             g == Gain(h, u)
  <2>1. q = p + g /\ p \in Int /\ g \in Int
    BY <1>7
  <2>2. rank[u] \in Int /\ lost[u] \in Int /\ InitialRank \in Int
    BY AcceptAssumption DEF AwardInv
  <2>3. rank[u] >= InitialRank + p - lost[u]
    BY <1>9 DEF AwardInv, Covers
  <2>4. rank'[u] = ChangeUserRank(rank[u], g)
    BY <1>1
  <2> HIDE DEF p, q, g
  <2>5. rank'[u] >= rank[u] + g /\ rank'[u] \in Int
    BY <1>9, <2>1, <2>2, <2>4 DEF ChangeUserRank
  <2>6. rank'[u] >= InitialRank + q - lost[u]
    BY <2>1, <2>2, <2>3, <2>5
  <2> QED BY <1>1, <2>6 DEF Covers, q
<1>10. lost' \in [Users -> Int]
  BY <1>1 DEF AwardInv
<1> QED BY <1>4, <1>5, <1>6, <1>8, <1>9, <1>10 DEF AwardInv

AwardsNotNegative == \A r \in Roles : Points[r] >= 0

LEMMA CancelCovered ==
  ASSUME AwardsNotNegative, RowsOK, AwardInv, NEW h \in Handlers, CancelAccept(h)
  PROVE  AwardInv'
<1> DEFINE F == Found(h)
<1>1. /\ \A k \in Key : activity'[k] = IF k \in F THEN CancelRow(activity[k]) ELSE activity[k]
      /\ rank' = [u \in Users |-> rank[u] - Loss(h, u)]
      /\ lost' = lost /\ GoOnToAward(h)
  BY DEF CancelAccept
<1>2. F \in SUBSET Key /\ \A k \in F : activity[k].st # "none"
  BY DEF Found, AwardInv
<1>3. \A k \in Key : /\ k \in F => activity'[k].st = "cancelled"
                     /\ k \notin F => activity'[k] = activity[k]
                     /\ activity'[k].rank = activity[k].rank
  BY <1>1 DEF CancelRow, RowsOK, ActivityRow
<1> HIDE DEF F
<1>4. RowsWorth(activity')
  BY <1>2, <1>3 DEF RowsWorth, AwardInv
<1>5. \A g \in Handlers, k \in Key : seen'[g][k].st # "none" =>
        activity'[k].st # "none" /\ seen'[g][k].rank = Worth[k]
  <2> SUFFICES ASSUME NEW g \in Handlers, NEW k \in Key, seen'[g][k].st # "none"
               PROVE  activity'[k].st # "none" /\ seen'[g][k].rank = Worth[k]
    OBVIOUS
  <2>1. seen'[g][k] = seen[g][k]
    BY <1>1, GoOnSees DEF NoActivity
  <2> QED BY <1>3, <2>1 DEF AwardInv
<1>6. IsFiniteSet(Counting(activity'))
  <2>1. Counting(activity') \in SUBSET Counting(activity)
    BY <1>3 DEF Counting
  <2> QED BY <2>1, FS_Subset DEF AwardInv
<1>7. ASSUME NEW u \in Users
      PROVE  /\ Loss(h, u) \in Int
             /\ PointsOf(activity', u) \in Int /\ PointsOf(activity, u) \in Int
             /\ ~RankAgentEnabled =>
                  Loss(h, u) <= PointsOf(activity, u) - PointsOf(activity', u)
  <2> DEFINE C == CountingFor(activity', u)
             G == {k \in CountingFor(activity, u) : k \in F}
  <2>1. CountingFor(activity, u) = C \cup G /\ C \cap G = {}
    BY <1>3 DEF CountingFor
  <2>2. /\ C \in SUBSET Counting(activity') /\ G \in SUBSET Counting(activity)
        /\ C \in SUBSET Key /\ G \in SUBSET Key
    BY DEF CountingFor, Counting
  <2>3. IsFiniteSet(C) /\ IsFiniteSet(G)
    BY <1>6, <2>2, FS_Subset DEF AwardInv
  <2>4. RolledBack(h, u) = IF u \in Locked(h) THEN G ELSE {}
    <3>1. \A k \in F : activity[k].st # "cancelled" <=> activity[k].st = "live"
      BY <1>2 DEF RowsOK, ActivityRow, RowStates
    <3>2. {k \in F : KeyUser(k) = u /\ activity[k].st # "cancelled"} = G
      BY <1>2, <3>1 DEF CountingFor
    <3> QED BY <3>2 DEF RolledBack, F
  <2>5. IsFiniteSet(RolledBack(h, u))
    <3>1. RolledBack(h, u) \in SUBSET G
      BY <2>4
    <3> QED BY <2>3, <3>1, FS_Subset
  <2>6. Loss(h, u) \in Int /\ (~RankAgentEnabled => Loss(h, u) <= SumOver(Worth, RolledBack(h, u)))
    BY <2>5, LossAtMostWorth
  <2>7. PointsOf(activity, u) = SumOver(Worth, CountingFor(activity, u))
        /\ PointsOf(activity, u) \in Int
    BY PointsAreWorth DEF AwardInv
  <2>8. PointsOf(activity', u) = SumOver(Worth, C) /\ PointsOf(activity', u) \in Int
    BY <1>4, <1>6, PointsAreWorth
  <2>9. SumOver(Worth, G) \in Int /\ SumOver(Worth, G) >= 0
    <3> DEFINE zero == [k \in Key |-> 0]
    <3>1. zero \in [Key -> Int] /\ \A k \in G : zero[k] <= Worth[k]
      <4> SUFFICES ASSUME NEW k \in G PROVE 0 <= Worth[k]
        BY <2>2
      <4>1. k \in Key /\ k.role \in Roles
        BY <2>2 DEF Key
      <4> QED BY <4>1 DEF Worth, AwardPoints, AwardsNotNegative
    <3>2. SumOver(zero, G) = 0
      <4> DEFINE S == {T \in SUBSET G : SumOver(zero, T) = 0}
      <4>1. {} \in S
        BY <3>1, SumEmpty
      <4>2. ASSUME NEW T \in SUBSET G, NEW x \in G \ T, T \in S PROVE T \cup {x} \in S
        <5>1. IsFiniteSet(T) /\ T \in SUBSET Key /\ x \in Key \ T
          BY <2>2, <2>3, FS_Subset
        <5>2. SumOver(zero, T \cup {x}) = zero[x] + SumOver(zero, T)
          BY <3>1, <5>1, SumAdd
        <5>3. zero[x] = 0 /\ SumOver(zero, T) = 0
          BY <4>2, <5>1
        <5>4. SumOver(zero, T \cup {x}) = 0
          BY <5>2, <5>3
        <5> QED BY <5>4
      <4> HIDE DEF S
      <4>3. G \in S
        BY <2>3, <4>1, <4>2, SubsetInduction
      <4> QED BY <4>3 DEF S
    <3>3. SumOver(zero, G) <= SumOver(Worth, G)
      BY <2>2, <2>3, <3>1, WorthTyped, SumAtMost
    <3>4. SumOver(Worth, G) \in Int
      BY <2>2, <2>3, WorthTyped, SumTyped
    <3> QED BY <3>2, <3>3, <3>4
  <2> HIDE DEF C, G
  <2>10. SumOver(Worth, C \cup G) = SumOver(Worth, C) + SumOver(Worth, G)
    BY <2>1, <2>2, <2>3, WorthTyped, SumSplit
  <2>11. PointsOf(activity, u) = SumOver(Worth, C \cup G)
    BY <2>1, <2>7
  <2>12. ~RankAgentEnabled => Loss(h, u) <= SumOver(Worth, G)
    <3>1. SumOver(Worth, RolledBack(h, u)) = IF u \in Locked(h) THEN SumOver(Worth, G) ELSE 0
      BY <2>4, WorthTyped, SumEmpty
    <3> QED BY <2>6, <2>9, <3>1
  <2> QED BY <2>6, <2>7, <2>8, <2>9, <2>10, <2>11, <2>12
<1>8. rank' \in [Users -> Int]
  BY <1>1, <1>7 DEF AwardInv
<1>9. ASSUME NEW u \in Users, ~RankAgentEnabled PROVE Covers(u)'
  <2> DEFINE p == PointsOf(activity, u)
             q == PointsOf(activity', u)
             l == Loss(h, u)
  <2>1. l <= p - q /\ p \in Int /\ q \in Int /\ l \in Int
    BY <1>7, <1>9
  <2>2. rank[u] \in Int /\ lost[u] \in Int /\ InitialRank \in Int
    BY AcceptAssumption DEF AwardInv
  <2>3. rank[u] >= InitialRank + p - lost[u]
    BY <1>9 DEF AwardInv, Covers
  <2>4. rank'[u] = rank[u] - l
    BY <1>1
  <2> HIDE DEF p, q, l
  <2>5. rank'[u] >= InitialRank + q - lost[u]
    BY <2>1, <2>2, <2>3, <2>4
  <2> QED BY <1>1, <2>5 DEF Covers, q
<1>10. lost' \in [Users -> Int]
  BY <1>1 DEF AwardInv
<1> QED BY <1>4, <1>5, <1>6, <1>8, <1>9, <1>10 DEF AwardInv

LEMMA PenaliseCovered ==
  ASSUME AwardInv, NEW v \in Users, Penalise(v)
  PROVE  AwardInv'
<1>1. /\ activity' = activity /\ seen' = seen
      /\ lost' = [lost EXCEPT ![v] = @ + 1]
      /\ rank' = [rank EXCEPT ![v] = ChangeUserRank(@, -1)]
  BY DEF Penalise
<1>2. /\ rank \in [Users -> Int] /\ lost \in [Users -> Int]
      /\ RowsWorth(activity) /\ IsFiniteSet(Counting(activity))
  BY DEF AwardInv
<1>3. lost' \in [Users -> Int] /\ rank' \in [Users -> Int]
  BY <1>1, <1>2 DEF ChangeUserRank
<1>4. ASSUME NEW u \in Users, ~RankAgentEnabled PROVE Covers(u)'
  <2> DEFINE p == PointsOf(activity, u)
  <2>1. p \in Int
    BY <1>2, PointsAreWorth
  <2>2. rank[u] \in Int /\ lost[u] \in Int /\ InitialRank \in Int
    BY <1>2, AcceptAssumption
  <2>3. rank[u] >= InitialRank + p - lost[u]
    BY <1>4 DEF AwardInv, Covers
  <2> HIDE DEF p
  <2>4. rank'[u] >= InitialRank + p - lost'[u]
    <3>1. CASE u = v
      <4>1. rank'[u] = ChangeUserRank(rank[u], -1) /\ lost'[u] = lost[u] + 1
        BY <1>1, <1>2, <3>1
      <4> QED BY <1>4, <2>1, <2>2, <2>3, <4>1 DEF ChangeUserRank
    <3>2. CASE u # v
      BY <1>1, <1>2, <2>3, <3>2
    <3> QED BY <3>1, <3>2
  <2> QED BY <1>1, <2>4 DEF Covers, p
<1> QED BY <1>1, <1>2, <1>3, <1>4 DEF AwardInv

LEMMA StepAwardInv ==
  AwardsNotNegative /\ RowsOK /\ RowsOK' /\ AwardInv /\ [Next]_vars => AwardInv'
<1> SUFFICES ASSUME AwardsNotNegative, RowsOK, AwardInv, [Next]_vars PROVE AwardInv'
  OBVIOUS
<1>1. ASSUME NEW h \in Handlers,
             \/ SkipAccepted(h) \/ Fail(h)
             \/ UpdateAccepted(h) \/ SkipCancel(h) \/ Tolerate(h)
      PROVE  AwardInv'
  <2>1. /\ Finish(h) \/ GoOnToAward(h) \/ GoOnToCancel(h)
        /\ activity' = activity /\ rank' = rank /\ lost' = lost
    BY <1>1 DEF SkipAccepted, Fail, UpdateAccepted, SkipCancel, Tolerate, tables
  <2>2. SeenFrom
    BY <2>1, FinishSees, GoOnSees DEF SeenFrom
  <2> QED BY <2>1, <2>2, CoverKept
<1>2. ASSUME NEW h \in Handlers, ReadAcceptRows(h) \/ ReadAcceptedRows(h) PROVE AwardInv'
  <2>1. /\ FindRows(h, "accept") \/ FindRows(h, "accepted")
        /\ activity' = activity /\ rank' = rank /\ lost' = lost
    BY <1>2 DEF ReadAcceptRows, ReadAcceptedRows, tables
  <2>2. SeenFrom
    BY <2>1 DEF SeenFrom, FindRows, RowsOK
  <2> QED BY <2>1, <2>2, CoverKept
<1>3. ASSUME NEW h \in Handlers,
             \/ \E r \in Request : Receive(h, r)
             \/ ReadQuestion(h) \/ ClearAdopted(h) \/ Adopt(h)
      PROVE  AwardInv'
  <2>1. activity' = activity /\ rank' = rank /\ lost' = lost /\ seen' = seen
    BY <1>3 DEF Receive, ReadQuestion, ClearAdopted, Adopt, tables
  <2>2. SeenFrom
    BY <2>1 DEF SeenFrom
  <2> QED BY <2>1, <2>2, CoverKept
<1>4. CASE UNCHANGED vars
  <2>1. activity' = activity /\ rank' = rank /\ lost' = lost /\ seen' = seen
    BY <1>4 DEF vars
  <2>2. SeenFrom
    BY <2>1 DEF SeenFrom
  <2> QED BY <2>1, <2>2, CoverKept
<1> QED
  BY <1>1, <1>2, <1>3, <1>4, AwardCovered, CancelCovered, PenaliseCovered DEF Next, Step

LEMMA InitAwardInv == Init => AwardInv
<1> SUFFICES ASSUME Init PROVE AwardInv
  OBVIOUS
<1>1. rank = [u \in Users |-> InitialRank] /\ lost = [u \in Users |-> 0]
      /\ (\A k \in Key : activity[k] = NoActivity)
      /\ \A h \in Handlers, k \in Key : seen[h][k] = NoActivity
  BY DEF Init, NothingSeen
<1>2. Counting(activity) = {} /\ \A u : CountingFor(activity, u) = {}
  BY <1>1 DEF Counting, CountingFor, NoActivity
<1>3. IsFiniteSet(Counting(activity))
  BY <1>2, FS_EmptySet, Zenon
<1>4. RowsWorth(activity)
  BY <1>1 DEF RowsWorth, NoActivity
<1>5. ASSUME NEW u \in Users PROVE Covers(u)
  <2>1. PointsOf(activity, u) = SumOver(Worth, CountingFor(activity, u))
    BY <1>3, <1>4, PointsAreWorth
  <2>2. SumOver(Worth, {}) = 0
    BY WorthTyped, SumEmpty
  <2>3. PointsOf(activity, u) = 0
    BY <1>2, <2>1, <2>2, Zenon
  <2>4. rank[u] = InitialRank /\ lost[u] = 0
    BY <1>1
  <2> QED BY <2>3, <2>4, AcceptAssumption DEF Covers
<1> QED BY <1>1, <1>3, <1>4, <1>5, AcceptAssumption DEF AwardInv, NoActivity

(* However requests about any number of questions overlap, fail and are    *)
(* tolerated, a user's rank covers the awards that count, less what down    *)
(* votes have taken: no award is taken back twice.  An award is not         *)
(* negative (the installed configuration has 2 and 15).                    *)
THEOREM RankCoversTheAwards == AwardsNotNegative => (Spec => []RankCoversAwards)
<1> SUFFICES ASSUME AwardsNotNegative PROVE Spec => []RankCoversAwards
  OBVIOUS
<1>1. AwardInv => RankCoversAwards
  BY DEF AwardInv, RankCoversAwards, Covers, PointsOf, CountingFor, LivePoints
<1>2. RowsOK /\ RowsOK' /\ AwardInv /\ [Next]_vars => AwardInv'
  BY StepAwardInv
<1> QED
  BY RowsTypeCorrect, InitAwardInv, <1>1, <1>2, PTL DEF Spec
=============================================================================
