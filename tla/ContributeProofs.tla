-------------------------- MODULE ContributeProofs --------------------------
(***************************************************************************)
(* Theorems about Contributing, for any number of users, requests, codes   *)
(* and handlers, any limits, and any failures.                             *)
(***************************************************************************)
EXTENDS Contributing, TLAPS

-----------------------------------------------------------------------------
(* Types *)

\* What the handlers keep, what is stored, and the history, apart from the gate.
HandlersOK ==
  /\ req \in [Handlers -> Requests \cup {NoRequest}]
  /\ pc \in [Handlers -> Steps] /\ pass \in [Handlers -> Passes]
  /\ ok \in [Handlers -> BOOLEAN] /\ num \in [Handlers -> Nat]
StoredOK ==
  /\ posts \in [Ids -> Rows] /\ made \in Ids \cup {0}
  /\ arrived \in Nat /\ faults \in Nat
HistoryOK ==
  /\ tries \in [Codes -> Nat] /\ free \in [Users -> [Kinds -> Nat]]
  /\ excused \subseteq Requests /\ abandoned \subseteq Requests
  /\ shared \subseteq Codes /\ hurried \subseteq Users \X Kinds
\* A handler is idle when it has no request; only additions are recorded; nothing
\* failed before the service did, and an answer follows a question asked with it.
WorkOK ==
  /\ record \subseteq Posting
  /\ \A h \in Handlers :
       /\ pc[h] = "idle" <=> req[h] = NoRequest
       /\ pc[h] \in {"idle", "put", "verify", "burn", "serve", "write", "finish", "answer"} => ok[h]
       /\ pc[h] \in {"count", "save"} /\ Op[req[h]] = "Vote" => ok[h]
       /\ pc[h] = "put" => req[h] \in Posting
       /\ pc[h] = "answer" => Op[req[h]] = "AddQuestionByAnswer"
Typed == GateTypeOK /\ HandlersOK /\ StoredOK /\ HistoryOK /\ WorkOK

\* What the handler of a request may do, whoever sends it.
LEMMA Duties ==
  ASSUME NEW r \in Requests
  PROVE  /\ By[r] \in Users /\ Kind[r] \in Kinds /\ Counted(r) \in Users \X Kinds
         /\ Op[r] \in Ops
         /\ AfterPass(r) \in {"serve", "count"}
         /\ AfterError(r) \in {"count", "reply"}
         /\ AfterRefusal(r) \subseteq {"count", "reply"}
         /\ Op[r] \in Storing => ActionOf(Op[r]) \in Types
         /\ Op[r] = "Vote" => AfterError(r) = "reply" /\ AfterPass(r) = "count"
         /\ Op[r] # "Vote" => AfterPass(r) = "serve"
<1>1. By[r] \in Users /\ Kind[r] \in Kinds /\ Op[r] \in Ops
  BY GateAssumption, ContributeAssumption
<1>2. Op[r] \in Storing => ActionOf(Op[r]) \in Types
  BY DEF Storing, Recorded, Removing, Updating, ActionOf, Types
<1>3. AfterError(r) \in {"count", "reply"}
  BY DEF AfterError
<1>4. AfterRefusal(r) \subseteq {"count", "reply"}
  BY <1>3 DEF AfterRefusal
<1> QED BY <1>1, <1>2, <1>3, <1>4 DEF Counted, AfterPass, AfterError

LEMMA Busied ==
  ASSUME Typed, NEW h \in Handlers, pc[h] # "idle"
  PROVE  req[h] \in Requests
BY DEF Typed, WorkOK, HandlersOK

LEMMA TypedInit == Init => Typed
BY ContributeAssumption DEF Init, GateInit, Typed, HandlersOK, StoredOK, HistoryOK, WorkOK,
    GateTypeOK,
   NoActs, Acts, Rows, NoRow, CodeStates, Steps, Passes, Ids

LEMMA RejectTyped ==
  ASSUME Typed, NEW r \in Requests, Reject(r)
  PROVE  Typed'
<1>1. GateTypeOK'
  BY GateAssumption, ContributeAssumption
  DEF Reject, Typed, GateTypeOK, HandlersOK, Posting, Acts, CodeStates,
      gate, table, work, bounds, history
<1>2. HandlersOK'
  BY GateAssumption, ContributeAssumption
  DEF Reject, Typed, HandlersOK, StoredOK, GateTypeOK, Acts, Steps, Passes, Posting, Ids,
      gate, table, work, bounds, history
<1>3. StoredOK'
  BY GateAssumption, ContributeAssumption
  DEF Reject, Typed, StoredOK, HandlersOK, WorkOK, Rows, Ids, Posting,
      gate, table, work, bounds, history
<1>4. HistoryOK'
  BY GateAssumption, ContributeAssumption
  DEF Reject, Typed, HistoryOK, HandlersOK, WorkOK, Counted, Posting,
      gate, table, work, bounds, history
<1>5. WorkOK'
  BY GateAssumption, ContributeAssumption
  DEF Reject, Typed, WorkOK, HandlersOK, StoredOK, GateTypeOK, Posting, Ids, Steps,
      gate, table, work, bounds, history
<1> QED BY <1>1, <1>2, <1>3, <1>4, <1>5 DEF Typed

LEMMA ArriveTyped ==
  ASSUME Typed, NEW h \in Handlers, NEW r \in Requests, Arrive(h, r)
  PROVE  Typed'
<1>1. GateTypeOK'
  BY GateAssumption, ContributeAssumption
  DEF Arrive, Take, Go, At, Typed, GateTypeOK, HandlersOK, Posting, Acts, CodeStates,
      gate, table, work, bounds, history
<1>2. HandlersOK'
  BY GateAssumption, ContributeAssumption
  DEF Arrive, Take, Go, At, Typed, HandlersOK, StoredOK, GateTypeOK, Acts, Steps, Passes, Posting,
      Ids,
      gate, table, work, bounds, history
<1>3. StoredOK'
  BY GateAssumption, ContributeAssumption
  DEF Arrive, Take, Go, At, Typed, StoredOK, HandlersOK, WorkOK, Rows, Ids, Posting,
      gate, table, work, bounds, history
<1>4. HistoryOK'
  BY Duties DEF Arrive, Take, Typed, HistoryOK
<1>5. WorkOK'
  BY GateAssumption, ContributeAssumption
  DEF Arrive, Take, Go, At, Typed, WorkOK, HandlersOK, StoredOK, GateTypeOK, Posting, Ids, Steps,
      gate, table, work, bounds, history
<1> QED BY <1>1, <1>2, <1>3, <1>4, <1>5 DEF Typed

LEMMA ArriveUnrecordedTyped ==
  ASSUME Typed, NEW h \in Handlers, NEW r \in Requests, ArriveUnrecorded(h, r)
  PROVE  Typed'
<1>1. GateTypeOK'
  BY GateAssumption, ContributeAssumption
  DEF ArriveUnrecorded, Take, Go, At, Fault, Typed, GateTypeOK, HandlersOK, Posting, Acts,
      CodeStates,
      gate, table, work, bounds, history
<1>2. HandlersOK'
  BY GateAssumption, ContributeAssumption
  DEF ArriveUnrecorded, Take, Go, At, Fault, Typed, HandlersOK, StoredOK, GateTypeOK, Acts, Steps,
      Passes, Posting, Ids,
      gate, table, work, bounds, history
<1>3. StoredOK'
  BY GateAssumption, ContributeAssumption
  DEF ArriveUnrecorded, Take, Go, At, Fault, Typed, StoredOK, HandlersOK, WorkOK, Rows, Ids,
      Posting,
      gate, table, work, bounds, history
<1>4. HistoryOK'
  BY Duties DEF ArriveUnrecorded, Take, Typed, HistoryOK
<1>5. WorkOK'
  BY GateAssumption, ContributeAssumption
  DEF ArriveUnrecorded, Take, Go, At, Fault, Typed, WorkOK, HandlersOK, StoredOK, GateTypeOK,
      Posting, Ids, Steps,
      gate, table, work, bounds, history
<1> QED BY <1>1, <1>2, <1>3, <1>4, <1>5 DEF Typed

LEMMA RecordTyped ==
  ASSUME Typed, NEW h \in Handlers, Record(h)
  PROVE  Typed'
<1>1. GateTypeOK'
  <2>1. req[h] \in Posting
    BY DEF Record, At, Typed, WorkOK
  <2> QED BY <2>1 DEF Record, Put, Go, At, Typed, GateTypeOK, Posting
<1>2. HandlersOK'
  BY GateAssumption, ContributeAssumption
  DEF Record, Put, Go, At, Typed, HandlersOK, StoredOK, GateTypeOK, Acts, Steps, Passes, Posting,
      Ids,
      gate, table, work, bounds, history
<1>3. StoredOK'
  BY GateAssumption, ContributeAssumption
  DEF Record, Put, Go, At, Typed, StoredOK, HandlersOK, WorkOK, Rows, Ids, Posting,
      gate, table, work, bounds, history
<1>4. HistoryOK'
  BY GateAssumption, ContributeAssumption
  DEF Record, Put, Go, At, Typed, HistoryOK, HandlersOK, WorkOK, Counted, Posting,
      gate, table, work, bounds, history
<1>5. WorkOK'
  BY GateAssumption, ContributeAssumption
  DEF Record, Put, Go, At, Typed, WorkOK, HandlersOK, StoredOK, GateTypeOK, Posting, Ids, Steps,
      gate, table, work, bounds, history
<1> QED BY <1>1, <1>2, <1>3, <1>4, <1>5 DEF Typed

LEMMA ForbidTyped ==
  ASSUME Typed, NEW h \in Handlers, Forbid(h)
  PROVE  Typed'
<1>1. GateTypeOK'
  BY GateAssumption, ContributeAssumption
  DEF Forbid, GiveUp, Go, At, Typed, GateTypeOK, HandlersOK, Posting, Acts, CodeStates,
      gate, table, work, bounds, history
<1>2. HandlersOK'
  BY GateAssumption, ContributeAssumption
  DEF Forbid, GiveUp, Go, At, Typed, HandlersOK, StoredOK, GateTypeOK, Acts, Steps, Passes,
      Posting, Ids,
      gate, table, work, bounds, history
<1>3. StoredOK'
  BY GateAssumption, ContributeAssumption
  DEF Forbid, GiveUp, Go, At, Typed, StoredOK, HandlersOK, WorkOK, Rows, Ids, Posting,
      gate, table, work, bounds, history
<1>4. HistoryOK'
  BY GateAssumption, ContributeAssumption
  DEF Forbid, GiveUp, Go, At, Typed, HistoryOK, HandlersOK, WorkOK, Counted, Posting,
      gate, table, work, bounds, history
<1>5. WorkOK'
  BY GateAssumption, ContributeAssumption
  DEF Forbid, GiveUp, Go, At, Typed, WorkOK, HandlersOK, StoredOK, GateTypeOK, Posting, Ids, Steps,
      gate, table, work, bounds, history
<1> QED BY <1>1, <1>2, <1>3, <1>4, <1>5 DEF Typed

LEMMA GoThroughTyped ==
  ASSUME Typed, NEW h \in Handlers, GoThrough(h)
  PROVE  Typed'
<1>1. GateTypeOK'
  BY GateAssumption, ContributeAssumption
  DEF GoThrough, AfterPass, Tally, Go, At, Typed, GateTypeOK, HandlersOK, Posting, Acts, CodeStates,
      gate, table, work, bounds, history
<1>2. HandlersOK'
  BY GateAssumption, ContributeAssumption
  DEF GoThrough, AfterPass, Tally, Go, At, Typed, HandlersOK, StoredOK, GateTypeOK, Acts, Steps,
      Passes, Posting, Ids,
      gate, table, work, bounds, history
<1>3. StoredOK'
  BY GateAssumption, ContributeAssumption
  DEF GoThrough, AfterPass, Tally, Go, At, Typed, StoredOK, HandlersOK, WorkOK, Rows, Ids, Posting,
      gate, table, work, bounds, history
<1>4. HistoryOK'
  <2>1. req[h] \in Requests
    BY Busied DEF GoThrough, At
  <2>2. By[req[h]] \in Users /\ Kind[req[h]] \in Kinds
    BY <2>1, Duties
  <2>3. free' \in [Users -> [Kinds -> Nat]]
    BY <2>2 DEF GoThrough, Tally, Typed, HistoryOK
  <2> QED BY <2>3 DEF GoThrough, Typed, HistoryOK
<1>5. WorkOK'
  BY GateAssumption, ContributeAssumption
  DEF GoThrough, AfterPass, Tally, Go, At, Typed, WorkOK, HandlersOK, StoredOK, GateTypeOK,
      Posting, Ids, Steps,
      gate, table, work, bounds, history
<1> QED BY <1>1, <1>2, <1>3, <1>4, <1>5 DEF Typed

LEMMA VerifyTyped ==
  ASSUME Typed, NEW h \in Handlers, Verify(h)
  PROVE  Typed'
<1>1. GateTypeOK'
  BY GateAssumption, ContributeAssumption
  DEF Verify, Go, At, Typed, GateTypeOK, HandlersOK, Posting, Acts, CodeStates,
      gate, table, work, bounds, history
<1>2. HandlersOK'
  BY GateAssumption, ContributeAssumption
  DEF Verify, Go, At, Typed, HandlersOK, StoredOK, GateTypeOK, Acts, Steps, Passes, Posting, Ids,
      gate, table, work, bounds, history
<1>3. StoredOK'
  BY GateAssumption, ContributeAssumption
  DEF Verify, Go, At, Typed, StoredOK, HandlersOK, WorkOK, Rows, Ids, Posting,
      gate, table, work, bounds, history
<1>4. HistoryOK'
  <2> DEFINE r == req[h]
  <2>1. r \in Requests
    BY ContributeAssumption DEF Verify, At, Typed, WorkOK, HandlersOK
  <2>2. tries' \in [Codes -> Nat]
    BY DEF Verify, Typed, HistoryOK
  <2>3. shared' \subseteq Codes
    BY DEF Verify, Compared, Typed, HistoryOK
  <2> QED BY <2>2, <2>3 DEF Verify, Typed, HistoryOK, bounds
<1>5. WorkOK'
  BY GateAssumption, ContributeAssumption
  DEF Verify, Go, At, Typed, WorkOK, HandlersOK, StoredOK, GateTypeOK, Posting, Ids, Steps,
      gate, table, work, bounds, history
<1> QED BY <1>1, <1>2, <1>3, <1>4, <1>5 DEF Typed

LEMMA TakeBackTyped ==
  ASSUME Typed, NEW h \in Handlers, TakeBack(h)
  PROVE  Typed'
<1>1. GateTypeOK'
  BY GateAssumption, ContributeAssumption
  DEF TakeBack, Burn, Judge, AfterPass, GiveUp, Go, At, Typed, GateTypeOK, HandlersOK, Posting,
      Acts, CodeStates,
      gate, table, work, bounds, history
<1>2. HandlersOK'
  BY GateAssumption, ContributeAssumption
  DEF TakeBack, Burn, Judge, AfterPass, GiveUp, Go, At, Typed, HandlersOK, StoredOK, GateTypeOK,
      Acts, Steps, Passes, Posting, Ids,
      gate, table, work, bounds, history
<1>3. StoredOK'
  BY GateAssumption, ContributeAssumption
  DEF TakeBack, Burn, Judge, AfterPass, GiveUp, Go, At, Typed, StoredOK, HandlersOK, WorkOK, Rows,
      Ids, Posting,
      gate, table, work, bounds, history
<1>4. HistoryOK'
  BY GateAssumption, ContributeAssumption
  DEF TakeBack, Burn, Judge, AfterPass, GiveUp, Go, At, Typed, HistoryOK, HandlersOK, WorkOK,
      Counted, Posting,
      gate, table, work, bounds, history
<1>5. WorkOK'
  BY GateAssumption, ContributeAssumption
  DEF TakeBack, Burn, Judge, AfterPass, GiveUp, Go, At, Typed, WorkOK, HandlersOK, StoredOK,
      GateTypeOK, Posting, Ids, Steps,
      gate, table, work, bounds, history
<1> QED BY <1>1, <1>2, <1>3, <1>4, <1>5 DEF Typed

LEMMA TakeBackFailsTyped ==
  ASSUME Typed, NEW h \in Handlers, TakeBackFails(h)
  PROVE  Typed'
<1>1. GateTypeOK'
  BY GateAssumption, ContributeAssumption
  DEF TakeBackFails, Judge, AfterPass, GiveUp, Go, At, Fault, Typed, GateTypeOK, HandlersOK,
      Posting, Acts, CodeStates,
      gate, table, work, bounds, history
<1>2. HandlersOK'
  BY GateAssumption, ContributeAssumption
  DEF TakeBackFails, Judge, AfterPass, GiveUp, Go, At, Fault, Typed, HandlersOK, StoredOK,
      GateTypeOK, Acts, Steps, Passes, Posting, Ids,
      gate, table, work, bounds, history
<1>3. StoredOK'
  BY GateAssumption, ContributeAssumption
  DEF TakeBackFails, Judge, AfterPass, GiveUp, Go, At, Fault, Typed, StoredOK, HandlersOK, WorkOK,
      Rows, Ids, Posting,
      gate, table, work, bounds, history
<1>4. HistoryOK'
  BY GateAssumption, ContributeAssumption
  DEF TakeBackFails, Judge, AfterPass, GiveUp, Go, At, Fault, Typed, HistoryOK, HandlersOK,
      WorkOK, Counted, Posting,
      gate, table, work, bounds, history
<1>5. WorkOK'
  BY GateAssumption, ContributeAssumption
  DEF TakeBackFails, Judge, AfterPass, GiveUp, Go, At, Fault, Typed, WorkOK, HandlersOK, StoredOK,
      GateTypeOK, Posting, Ids, Steps,
      gate, table, work, bounds, history
<1> QED BY <1>1, <1>2, <1>3, <1>4, <1>5 DEF Typed

LEMMA UnableTyped ==
  ASSUME Typed, NEW h \in Handlers, Unable(h)
  PROVE  Typed'
<1>1. GateTypeOK'
  BY GateAssumption, ContributeAssumption
  DEF Unable, GiveUp, Go, At, Typed, GateTypeOK, HandlersOK, Posting, Acts, CodeStates,
      gate, table, work, bounds, history
<1>2. HandlersOK'
  BY GateAssumption, ContributeAssumption
  DEF Unable, GiveUp, Go, At, Typed, HandlersOK, StoredOK, GateTypeOK, Acts, Steps, Passes,
      Posting, Ids,
      gate, table, work, bounds, history
<1>3. StoredOK'
  BY GateAssumption, ContributeAssumption
  DEF Unable, GiveUp, Go, At, Typed, StoredOK, HandlersOK, WorkOK, Rows, Ids, Posting,
      gate, table, work, bounds, history
<1>4. HistoryOK'
  BY GateAssumption, ContributeAssumption
  DEF Unable, GiveUp, Go, At, Typed, HistoryOK, HandlersOK, WorkOK, Counted, Posting,
      gate, table, work, bounds, history
<1>5. WorkOK'
  BY GateAssumption, ContributeAssumption
  DEF Unable, GiveUp, Go, At, Typed, WorkOK, HandlersOK, StoredOK, GateTypeOK, Posting, Ids, Steps,
      gate, table, work, bounds, history
<1> QED BY <1>1, <1>2, <1>3, <1>4, <1>5 DEF Typed

LEMMA LookTyped ==
  ASSUME Typed, NEW h \in Handlers, Look(h)
  PROVE  Typed'
<1>1. GateTypeOK'
  BY GateAssumption, ContributeAssumption
  DEF Look, AfterRefusal, AfterError, GiveUp, Go, At, Typed, GateTypeOK, HandlersOK, Posting,
      Acts, CodeStates,
      gate, table, work, bounds, history
<1>2. HandlersOK'
  <2>1. req[h] \in Requests
    BY Busied DEF Look, At
  <2>2. \A step \in AfterRefusal(req[h]) : step \in Steps
    BY <2>1, Duties DEF Steps
  <2>3. pc' \in [Handlers -> Steps] /\ ok' \in [Handlers -> BOOLEAN]
    BY <2>2 DEF Look, GiveUp, Go, Typed, HandlersOK, Steps
  <2> QED BY <2>3 DEF Look, Typed, HandlersOK
<1>3. StoredOK'
  BY GateAssumption, ContributeAssumption
  DEF Look, AfterRefusal, AfterError, GiveUp, Go, At, Typed, StoredOK, HandlersOK, WorkOK, Rows,
      Ids, Posting,
      gate, table, work, bounds, history
<1>4. HistoryOK'
  BY GateAssumption, ContributeAssumption
  DEF Look, AfterRefusal, AfterError, GiveUp, Go, At, Typed, HistoryOK, HandlersOK, WorkOK,
      Counted, Posting,
      gate, table, work, bounds, history
<1>5. WorkOK'
  BY GateAssumption, ContributeAssumption
  DEF Look, AfterRefusal, AfterError, GiveUp, Go, At, Typed, WorkOK, HandlersOK, StoredOK,
      GateTypeOK, Posting, Ids, Steps,
      gate, table, work, bounds, history
<1> QED BY <1>1, <1>2, <1>3, <1>4, <1>5 DEF Typed

LEMMA ServiceFailsTyped ==
  ASSUME Typed, NEW h \in Handlers, ServiceFails(h)
  PROVE  Typed'
<1>1. GateTypeOK'
  BY GateAssumption, ContributeAssumption
  DEF ServiceFails, AfterError, GiveUp, Go, At, Fault, Typed, GateTypeOK, HandlersOK, Posting,
      Acts, CodeStates,
      gate, table, work, bounds, history
<1>2. HandlersOK'
  BY GateAssumption, ContributeAssumption
  DEF ServiceFails, AfterError, GiveUp, Go, At, Fault, Typed, HandlersOK, StoredOK, GateTypeOK,
      Acts, Steps, Passes, Posting, Ids,
      gate, table, work, bounds, history
<1>3. StoredOK'
  BY GateAssumption, ContributeAssumption
  DEF ServiceFails, AfterError, GiveUp, Go, At, Fault, Typed, StoredOK, HandlersOK, WorkOK, Rows,
      Ids, Posting,
      gate, table, work, bounds, history
<1>4. HistoryOK'
  BY GateAssumption, ContributeAssumption
  DEF ServiceFails, AfterError, GiveUp, Go, At, Fault, Typed, HistoryOK, HandlersOK, WorkOK,
      Counted, Posting,
      gate, table, work, bounds, history
<1>5. WorkOK'
  BY GateAssumption, ContributeAssumption
  DEF ServiceFails, AfterError, GiveUp, Go, At, Fault, Typed, WorkOK, HandlersOK, StoredOK,
      GateTypeOK, Posting, Ids, Steps,
      gate, table, work, bounds, history
<1> QED BY <1>1, <1>2, <1>3, <1>4, <1>5 DEF Typed

LEMMA InsertTyped ==
  ASSUME Typed, NEW h \in Handlers, Insert(h)
  PROVE  Typed'
<1>1. GateTypeOK'
  BY GateAssumption, ContributeAssumption
  DEF Insert, Store, Tally, Go, At, Typed, GateTypeOK, HandlersOK, Posting, Acts, CodeStates,
      gate, table, work, bounds, history
<1>2. HandlersOK'
  BY GateAssumption, ContributeAssumption
  DEF Insert, Store, Tally, Go, At, Typed, HandlersOK, StoredOK, GateTypeOK, Acts, Steps, Passes,
      Posting, Ids,
      gate, table, work, bounds, history
<1>3. StoredOK'
  <2>1. req[h] \in Requests /\ ActionOf(Op[req[h]]) \in Types
    BY Busied, Duties DEF Insert, At
  <2>2. posts' \in [Ids -> Rows] /\ made' \in Ids \cup {0}
    BY <2>1, ContributeAssumption DEF Insert, Store, Typed, StoredOK, Rows, Ids
  <2> QED BY <2>2 DEF Insert, Typed, StoredOK, bounds
<1>4. HistoryOK'
  BY GateAssumption, ContributeAssumption
  DEF Insert, Store, Tally, Go, At, Typed, HistoryOK, HandlersOK, WorkOK, Counted, Posting,
      gate, table, work, bounds, history
<1>5. WorkOK'
  BY GateAssumption, ContributeAssumption
  DEF Insert, Store, Tally, Go, At, Typed, WorkOK, HandlersOK, StoredOK, GateTypeOK, Posting, Ids,
      Steps,
      gate, table, work, bounds, history
<1> QED BY <1>1, <1>2, <1>3, <1>4, <1>5 DEF Typed

LEMMA ChangeTyped ==
  ASSUME Typed, NEW h \in Handlers, Change(h)
  PROVE  Typed'
<1>1. GateTypeOK'
  BY GateAssumption, ContributeAssumption
  DEF Change, Changed, Tally, Go, At, Typed, GateTypeOK, HandlersOK, Posting, Acts, CodeStates,
      gate, table, work, bounds, history
<1>2. HandlersOK'
  BY GateAssumption, ContributeAssumption
  DEF Change, Changed, Tally, Go, At, Typed, HandlersOK, StoredOK, GateTypeOK, Acts, Steps,
      Passes, Posting, Ids,
      gate, table, work, bounds, history
<1>3. StoredOK'
  <2> DEFINE r == req[h]
  <2>1. r \in Requests
    BY Busied DEF Change, At
  <2>2. \A row \in Rows : Removed(row) \in Rows /\ Reworded(r, row) \in Rows
    BY <2>1 DEF Removed, Reworded, Rows
  <2>3. \A row \in Rows : Op[r] \in Removing \cup Updating => Changed(r, row) \subseteq Rows
    <3>1. Removing \cap Updating = {}
      BY DEF Removing, Updating
    <3> QED BY <2>2, <3>1 DEF Changed, Updating
  <2>4. posts' \in [Ids -> Rows]
    <3>1. CASE Found(r) /\ \E row \in Changed(r, posts[Target[r]]) :
                 posts' = [posts EXCEPT ![Target[r]] = row]
      <4>1. posts[Target[r]] \in Rows
        BY <3>1 DEF Found, Typed, StoredOK
      <4>2. Changed(r, posts[Target[r]]) \subseteq Rows
        BY <2>3, <4>1 DEF Change
      <4> QED BY <3>1, <4>2 DEF Typed, StoredOK
    <3>2. CASE posts' = posts
      BY <3>2 DEF Typed, StoredOK
    <3> QED BY <3>1, <3>2 DEF Change
  <2> QED BY <2>4 DEF Change, Typed, StoredOK, bounds
<1>4. HistoryOK'
  BY GateAssumption, ContributeAssumption
  DEF Change, Changed, Tally, Go, At, Typed, HistoryOK, HandlersOK, WorkOK, Counted, Posting,
      gate, table, work, bounds, history
<1>5. WorkOK'
  BY GateAssumption, ContributeAssumption
  DEF Change, Changed, Tally, Go, At, Typed, WorkOK, HandlersOK, StoredOK, GateTypeOK, Posting,
      Ids, Steps,
      gate, table, work, bounds, history
<1> QED BY <1>1, <1>2, <1>3, <1>4, <1>5 DEF Typed

LEMMA FinishTyped ==
  ASSUME Typed, NEW h \in Handlers, Finish(h)
  PROVE  Typed'
<1>1. GateTypeOK'
  BY GateAssumption, ContributeAssumption
  DEF Finish, Go, At, Typed, GateTypeOK, HandlersOK, Posting, Acts, CodeStates,
      gate, table, work, bounds, history
<1>2. HandlersOK'
  BY GateAssumption, ContributeAssumption
  DEF Finish, Go, At, Typed, HandlersOK, StoredOK, GateTypeOK, Acts, Steps, Passes, Posting, Ids,
      gate, table, work, bounds, history
<1>3. StoredOK'
  BY GateAssumption, ContributeAssumption
  DEF Finish, Go, At, Typed, StoredOK, HandlersOK, WorkOK, Rows, Ids, Posting,
      gate, table, work, bounds, history
<1>4. HistoryOK'
  BY GateAssumption, ContributeAssumption
  DEF Finish, Go, At, Typed, HistoryOK, HandlersOK, WorkOK, Counted, Posting,
      gate, table, work, bounds, history
<1>5. WorkOK'
  BY GateAssumption, ContributeAssumption
  DEF Finish, Go, At, Typed, WorkOK, HandlersOK, StoredOK, GateTypeOK, Posting, Ids, Steps,
      gate, table, work, bounds, history
<1> QED BY <1>1, <1>2, <1>3, <1>4, <1>5 DEF Typed

LEMMA FinishFailsTyped ==
  ASSUME Typed, NEW h \in Handlers, FinishFails(h)
  PROVE  Typed'
<1>1. GateTypeOK'
  BY GateAssumption, ContributeAssumption
  DEF FinishFails, AfterError, Counted, GiveUp, Go, At, Fault, Typed, GateTypeOK, HandlersOK,
      Posting, Acts, CodeStates,
      gate, table, work, bounds, history
<1>2. HandlersOK'
  BY GateAssumption, ContributeAssumption
  DEF FinishFails, AfterError, Counted, GiveUp, Go, At, Fault, Typed, HandlersOK, StoredOK,
      GateTypeOK, Acts, Steps, Passes, Posting, Ids,
      gate, table, work, bounds, history
<1>3. StoredOK'
  BY GateAssumption, ContributeAssumption
  DEF FinishFails, AfterError, Counted, GiveUp, Go, At, Fault, Typed, StoredOK, HandlersOK,
      WorkOK, Rows, Ids, Posting,
      gate, table, work, bounds, history
<1>4. HistoryOK'
  BY GateAssumption, ContributeAssumption
  DEF FinishFails, AfterError, Counted, GiveUp, Go, At, Fault, Typed, HistoryOK, HandlersOK,
      WorkOK, Counted, Posting,
      gate, table, work, bounds, history
<1>5. WorkOK'
  BY GateAssumption, ContributeAssumption
  DEF FinishFails, AfterError, Counted, GiveUp, Go, At, Fault, Typed, WorkOK, HandlersOK,
      StoredOK, GateTypeOK, Posting, Ids, Steps,
      gate, table, work, bounds, history
<1> QED BY <1>1, <1>2, <1>3, <1>4, <1>5 DEF Typed

LEMMA ReadCountTyped ==
  ASSUME Typed, NEW h \in Handlers, ReadCount(h)
  PROVE  Typed'
<1>1. GateTypeOK'
  BY GateAssumption, ContributeAssumption
  DEF ReadCount, AfterCount, Go, At, Typed, GateTypeOK, HandlersOK, Posting, Acts, CodeStates,
      gate, table, work, bounds, history
<1>2. HandlersOK'
  <2>1. req[h] \in Requests
    BY ContributeAssumption DEF ReadCount, At, Typed, WorkOK, HandlersOK
  <2>2. acts[By[req[h]]][Kind[req[h]]] \in Acts
    BY <2>1, GateAssumption DEF Typed, GateTypeOK
  <2>3. acts[By[req[h]]][Kind[req[h]]].num \in Nat
    BY <2>2 DEF Acts
  <2> QED BY <2>3 DEF ReadCount, AfterCount, Go, At, Typed, HandlersOK, Steps
<1>3. StoredOK'
  BY GateAssumption, ContributeAssumption
  DEF ReadCount, AfterCount, Go, At, Typed, StoredOK, HandlersOK, WorkOK, Rows, Ids, Posting,
      gate, table, work, bounds, history
<1>4. HistoryOK'
  BY GateAssumption, ContributeAssumption
  DEF ReadCount, AfterCount, Go, At, Typed, HistoryOK, HandlersOK, WorkOK, Counted, Posting,
      gate, table, work, bounds, history
<1>5. WorkOK'
  BY GateAssumption, ContributeAssumption
  DEF ReadCount, AfterCount, Go, At, Typed, WorkOK, HandlersOK, StoredOK, GateTypeOK, Posting,
      Ids, Steps,
      gate, table, work, bounds, history
<1> QED BY <1>1, <1>2, <1>3, <1>4, <1>5 DEF Typed

LEMMA SaveCountTyped ==
  ASSUME Typed, NEW h \in Handlers, SaveCount(h)
  PROVE  Typed'
<1>1. GateTypeOK'
  <2>1. req[h] \in Requests /\ num[h] \in Nat
    BY ContributeAssumption DEF SaveCount, At, Typed, WorkOK, HandlersOK
  <2>2. By[req[h]] \in Users /\ Kind[req[h]] \in Kinds
    BY <2>1, GateAssumption
  <2>3. [num |-> num[h] + 1, recent |-> TRUE] \in Acts
    BY <2>1 DEF Acts
  <2> QED BY <2>2, <2>3 DEF SaveCount, Bump, Typed, GateTypeOK
<1>2. HandlersOK'
  BY GateAssumption, ContributeAssumption
  DEF SaveCount, AfterCount, Bump, Go, At, Typed, HandlersOK, StoredOK, GateTypeOK, Acts, Steps,
      Passes, Posting, Ids,
      gate, table, work, bounds, history
<1>3. StoredOK'
  BY GateAssumption, ContributeAssumption
  DEF SaveCount, AfterCount, Bump, Go, At, Typed, StoredOK, HandlersOK, WorkOK, Rows, Ids, Posting,
      gate, table, work, bounds, history
<1>4. HistoryOK'
  BY GateAssumption, ContributeAssumption
  DEF SaveCount, AfterCount, Bump, Go, At, Typed, HistoryOK, HandlersOK, WorkOK, Counted, Posting,
      gate, table, work, bounds, history
<1>5. WorkOK'
  BY GateAssumption, ContributeAssumption
  DEF SaveCount, AfterCount, Bump, Go, At, Typed, WorkOK, HandlersOK, StoredOK, GateTypeOK,
      Posting, Ids, Steps,
      gate, table, work, bounds, history
<1> QED BY <1>1, <1>2, <1>3, <1>4, <1>5 DEF Typed

LEMMA CountFailsTyped ==
  ASSUME Typed, NEW h \in Handlers, CountFails(h)
  PROVE  Typed'
<1>1. GateTypeOK'
  BY GateAssumption, ContributeAssumption
  DEF CountFails, AfterCount, Go, At, Fault, Counted, Typed, GateTypeOK, HandlersOK, Posting,
      Acts, CodeStates,
      gate, table, work, bounds, history
<1>2. HandlersOK'
  BY GateAssumption, ContributeAssumption
  DEF CountFails, AfterCount, Go, At, Fault, Counted, Typed, HandlersOK, StoredOK, GateTypeOK,
      Acts, Steps, Passes, Posting, Ids,
      gate, table, work, bounds, history
<1>3. StoredOK'
  BY GateAssumption, ContributeAssumption
  DEF CountFails, AfterCount, Go, At, Fault, Counted, Typed, StoredOK, HandlersOK, WorkOK, Rows,
      Ids, Posting,
      gate, table, work, bounds, history
<1>4. HistoryOK'
  BY GateAssumption, ContributeAssumption
  DEF CountFails, AfterCount, Go, At, Fault, Counted, Typed, HistoryOK, HandlersOK, WorkOK,
      Counted, Posting,
      gate, table, work, bounds, history
<1>5. WorkOK'
  BY GateAssumption, ContributeAssumption
  DEF CountFails, AfterCount, Go, At, Fault, Counted, Typed, WorkOK, HandlersOK, StoredOK,
      GateTypeOK, Posting, Ids, Steps,
      gate, table, work, bounds, history
<1> QED BY <1>1, <1>2, <1>3, <1>4, <1>5 DEF Typed

LEMMA ReactTyped ==
  ASSUME Typed, NEW h \in Handlers, React(h)
  PROVE  Typed'
<1>1. GateTypeOK'
  BY GateAssumption, ContributeAssumption
  DEF React, Tally, Go, At, Typed, GateTypeOK, HandlersOK, Posting, Acts, CodeStates,
      gate, table, work, bounds, history
<1>2. HandlersOK'
  BY GateAssumption, ContributeAssumption
  DEF React, Tally, Go, At, Typed, HandlersOK, StoredOK, GateTypeOK, Acts, Steps, Passes, Posting,
      Ids,
      gate, table, work, bounds, history
<1>3. StoredOK'
  BY GateAssumption, ContributeAssumption
  DEF React, Tally, Go, At, Typed, StoredOK, HandlersOK, WorkOK, Rows, Ids, Posting,
      gate, table, work, bounds, history
<1>4. HistoryOK'
  <2>1. req[h] \in Requests
    BY Busied DEF React, At
  <2>2. By[req[h]] \in Users /\ Kind[req[h]] \in Kinds
    BY <2>1, Duties
  <2>3. free' \in [Users -> [Kinds -> Nat]]
    BY <2>2 DEF React, Tally, Typed, HistoryOK
  <2> QED BY <2>3 DEF React, Typed, HistoryOK
<1>5. WorkOK'
  BY GateAssumption, ContributeAssumption
  DEF React, Tally, Go, At, Typed, WorkOK, HandlersOK, StoredOK, GateTypeOK, Posting, Ids, Steps,
      gate, table, work, bounds, history
<1> QED BY <1>1, <1>2, <1>3, <1>4, <1>5 DEF Typed

LEMMA SkipTyped ==
  ASSUME Typed, NEW h \in Handlers, Skip(h)
  PROVE  Typed'
<1>1. GateTypeOK'
  BY GateAssumption, ContributeAssumption
  DEF Skip, Go, At, Typed, GateTypeOK, HandlersOK, Posting, Acts, CodeStates,
      gate, table, work, bounds, history
<1>2. HandlersOK'
  BY GateAssumption, ContributeAssumption
  DEF Skip, Go, At, Typed, HandlersOK, StoredOK, GateTypeOK, Acts, Steps, Passes, Posting, Ids,
      gate, table, work, bounds, history
<1>3. StoredOK'
  BY GateAssumption, ContributeAssumption
  DEF Skip, Go, At, Typed, StoredOK, HandlersOK, WorkOK, Rows, Ids, Posting,
      gate, table, work, bounds, history
<1>4. HistoryOK'
  BY GateAssumption, ContributeAssumption
  DEF Skip, Go, At, Typed, HistoryOK, HandlersOK, WorkOK, Counted, Posting,
      gate, table, work, bounds, history
<1>5. WorkOK'
  BY GateAssumption, ContributeAssumption
  DEF Skip, Go, At, Typed, WorkOK, HandlersOK, StoredOK, GateTypeOK, Posting, Ids, Steps,
      gate, table, work, bounds, history
<1> QED BY <1>1, <1>2, <1>3, <1>4, <1>5 DEF Typed

LEMMA InsertAnswerTyped ==
  ASSUME Typed, NEW h \in Handlers, InsertAnswer(h)
  PROVE  Typed'
<1>1. GateTypeOK'
  BY GateAssumption, ContributeAssumption
  DEF InsertAnswer, Store, Go, At, Typed, GateTypeOK, HandlersOK, Posting, Acts, CodeStates,
      gate, table, work, bounds, history
<1>2. HandlersOK'
  BY GateAssumption, ContributeAssumption
  DEF InsertAnswer, Store, Go, At, Typed, HandlersOK, StoredOK, GateTypeOK, Acts, Steps, Passes,
      Posting, Ids,
      gate, table, work, bounds, history
<1>3. StoredOK'
  <2>1. req[h] \in Requests
    BY Busied DEF InsertAnswer, At
  <2>2. posts' \in [Ids -> Rows] /\ made' \in Ids \cup {0}
    BY <2>1, ContributeAssumption DEF InsertAnswer, Store, Typed, StoredOK, Rows, Ids, Types
  <2> QED BY <2>2 DEF InsertAnswer, Typed, StoredOK, bounds
<1>4. HistoryOK'
  BY GateAssumption, ContributeAssumption
  DEF InsertAnswer, Store, Go, At, Typed, HistoryOK, HandlersOK, WorkOK, Counted, Posting,
      gate, table, work, bounds, history
<1>5. WorkOK'
  BY GateAssumption, ContributeAssumption
  DEF InsertAnswer, Store, Go, At, Typed, WorkOK, HandlersOK, StoredOK, GateTypeOK, Posting, Ids,
      Steps,
      gate, table, work, bounds, history
<1> QED BY <1>1, <1>2, <1>3, <1>4, <1>5 DEF Typed

LEMMA AnswerFailsTyped ==
  ASSUME Typed, NEW h \in Handlers, AnswerFails(h)
  PROVE  Typed'
<1>1. GateTypeOK'
  BY GateAssumption, ContributeAssumption
  DEF AnswerFails, GiveUp, Go, At, Typed, GateTypeOK, HandlersOK, Posting, Acts, CodeStates,
      gate, table, work, bounds, history
<1>2. HandlersOK'
  BY GateAssumption, ContributeAssumption
  DEF AnswerFails, GiveUp, Go, At, Typed, HandlersOK, StoredOK, GateTypeOK, Acts, Steps, Passes,
      Posting, Ids,
      gate, table, work, bounds, history
<1>3. StoredOK'
  BY GateAssumption, ContributeAssumption
  DEF AnswerFails, GiveUp, Go, At, Typed, StoredOK, HandlersOK, WorkOK, Rows, Ids, Posting,
      gate, table, work, bounds, history
<1>4. HistoryOK'
  BY GateAssumption, ContributeAssumption
  DEF AnswerFails, GiveUp, Go, At, Typed, HistoryOK, HandlersOK, WorkOK, Counted, Posting,
      gate, table, work, bounds, history
<1>5. WorkOK'
  BY GateAssumption, ContributeAssumption
  DEF AnswerFails, GiveUp, Go, At, Typed, WorkOK, HandlersOK, StoredOK, GateTypeOK, Posting, Ids,
      Steps,
      gate, table, work, bounds, history
<1> QED BY <1>1, <1>2, <1>3, <1>4, <1>5 DEF Typed

LEMMA ReadBackFailsTyped ==
  ASSUME Typed, NEW h \in Handlers, ReadBackFails(h)
  PROVE  Typed'
<1>1. GateTypeOK'
  BY GateAssumption, ContributeAssumption
  DEF ReadBackFails, Fault, Go, At, Typed, GateTypeOK, HandlersOK, Posting, Acts, CodeStates,
      gate, table, work, bounds, history
<1>2. HandlersOK'
  BY GateAssumption, ContributeAssumption
  DEF ReadBackFails, Fault, Go, At, Typed, HandlersOK, StoredOK, GateTypeOK, Acts, Steps, Passes,
      Posting, Ids,
      gate, table, work, bounds, history
<1>3. StoredOK'
  BY GateAssumption, ContributeAssumption
  DEF ReadBackFails, Fault, Go, At, Typed, StoredOK, HandlersOK, WorkOK, Rows, Ids, Posting,
      gate, table, work, bounds, history
<1>4. HistoryOK'
  BY GateAssumption, ContributeAssumption
  DEF ReadBackFails, Fault, Go, At, Typed, HistoryOK, HandlersOK, WorkOK, Counted, Posting,
      gate, table, work, bounds, history
<1>5. WorkOK'
  BY GateAssumption, ContributeAssumption
  DEF ReadBackFails, Fault, Go, At, Typed, WorkOK, HandlersOK, StoredOK, GateTypeOK, Posting, Ids,
      Steps,
      gate, table, work, bounds, history
<1> QED BY <1>1, <1>2, <1>3, <1>4, <1>5 DEF Typed

LEMMA ReplyTyped ==
  ASSUME Typed, NEW h \in Handlers, Reply(h)
  PROVE  Typed'
<1>1. GateTypeOK'
  BY GateAssumption, ContributeAssumption
  DEF Reply, Rest, Failed, Clear, Go, At, Typed, GateTypeOK, HandlersOK, Posting, Acts, CodeStates,
      gate, table, work, bounds, history
<1>2. HandlersOK'
  BY GateAssumption, ContributeAssumption
  DEF Reply, Rest, Failed, Clear, Go, At, Typed, HandlersOK, StoredOK, GateTypeOK, Acts, Steps,
      Passes, Posting, Ids,
      gate, table, work, bounds, history
<1>3. StoredOK'
  BY GateAssumption, ContributeAssumption
  DEF Reply, Rest, Failed, Clear, Go, At, Typed, StoredOK, HandlersOK, WorkOK, Rows, Ids, Posting,
      gate, table, work, bounds, history
<1>4. HistoryOK'
  BY GateAssumption, ContributeAssumption
  DEF Reply, Rest, Failed, Clear, Go, At, Typed, HistoryOK, HandlersOK, WorkOK, Counted, Posting,
      gate, table, work, bounds, history
<1>5. WorkOK'
  BY GateAssumption, ContributeAssumption
  DEF Reply, Rest, Failed, Clear, Go, At, Typed, WorkOK, HandlersOK, StoredOK, GateTypeOK,
      Posting, Ids, Steps,
      gate, table, work, bounds, history
<1> QED BY <1>1, <1>2, <1>3, <1>4, <1>5 DEF Typed

LEMMA ReplyUnclearedTyped ==
  ASSUME Typed, NEW h \in Handlers, ReplyUncleared(h)
  PROVE  Typed'
<1>1. GateTypeOK'
  BY GateAssumption, ContributeAssumption
  DEF ReplyUncleared, Rest, Failed, Go, At, Fault, Typed, GateTypeOK, HandlersOK, Posting, Acts,
      CodeStates,
      gate, table, work, bounds, history
<1>2. HandlersOK'
  BY GateAssumption, ContributeAssumption
  DEF ReplyUncleared, Rest, Failed, Go, At, Fault, Typed, HandlersOK, StoredOK, GateTypeOK, Acts,
      Steps, Passes, Posting, Ids,
      gate, table, work, bounds, history
<1>3. StoredOK'
  BY GateAssumption, ContributeAssumption
  DEF ReplyUncleared, Rest, Failed, Go, At, Fault, Typed, StoredOK, HandlersOK, WorkOK, Rows, Ids,
      Posting,
      gate, table, work, bounds, history
<1>4. HistoryOK'
  BY GateAssumption, ContributeAssumption
  DEF ReplyUncleared, Rest, Failed, Go, At, Fault, Typed, HistoryOK, HandlersOK, WorkOK, Counted,
      Posting,
      gate, table, work, bounds, history
<1>5. WorkOK'
  BY GateAssumption, ContributeAssumption
  DEF ReplyUncleared, Rest, Failed, Go, At, Fault, Typed, WorkOK, HandlersOK, StoredOK,
      GateTypeOK, Posting, Ids, Steps,
      gate, table, work, bounds, history
<1> QED BY <1>1, <1>2, <1>3, <1>4, <1>5 DEF Typed

LEMMA HandOutTyped ==
  ASSUME Typed, NEW c \in Codes, HandOut(c)
  PROVE  Typed'
<1>1. GateTypeOK'
  BY GateAssumption, ContributeAssumption
  DEF HandOut, ActionRecord, Typed, GateTypeOK, HandlersOK, Posting, Acts, CodeStates,
      gate, table, work, bounds, history
<1>2. HandlersOK'
  BY GateAssumption, ContributeAssumption
  DEF HandOut, ActionRecord, Typed, HandlersOK, StoredOK, GateTypeOK, Acts, Steps, Passes,
      Posting, Ids,
      gate, table, work, bounds, history
<1>3. StoredOK'
  BY GateAssumption, ContributeAssumption
  DEF HandOut, ActionRecord, Typed, StoredOK, HandlersOK, WorkOK, Rows, Ids, Posting,
      gate, table, work, bounds, history
<1>4. HistoryOK'
  BY GateAssumption, ContributeAssumption
  DEF HandOut, ActionRecord, Typed, HistoryOK, HandlersOK, WorkOK, Counted, Posting,
      gate, table, work, bounds, history
<1>5. WorkOK'
  BY GateAssumption, ContributeAssumption
  DEF HandOut, ActionRecord, Typed, WorkOK, HandlersOK, StoredOK, GateTypeOK, Posting, Ids, Steps,
      gate, table, work, bounds, history
<1> QED BY <1>1, <1>2, <1>3, <1>4, <1>5 DEF Typed

LEMMA LapseRecordTyped ==
  ASSUME Typed, NEW r \in Requests, LapseRecord(r)
  PROVE  Typed'
<1>1. GateTypeOK'
  BY GateAssumption, ContributeAssumption
  DEF LapseRecord, Clear, Typed, GateTypeOK, HandlersOK, Posting, Acts, CodeStates,
      gate, table, work, bounds, history
<1>2. HandlersOK'
  BY GateAssumption, ContributeAssumption
  DEF LapseRecord, Clear, Typed, HandlersOK, StoredOK, GateTypeOK, Acts, Steps, Passes, Posting,
      Ids,
      gate, table, work, bounds, history
<1>3. StoredOK'
  BY GateAssumption, ContributeAssumption
  DEF LapseRecord, Clear, Typed, StoredOK, HandlersOK, WorkOK, Rows, Ids, Posting,
      gate, table, work, bounds, history
<1>4. HistoryOK'
  BY GateAssumption, ContributeAssumption
  DEF LapseRecord, Clear, Typed, HistoryOK, HandlersOK, WorkOK, Counted, Posting,
      gate, table, work, bounds, history
<1>5. WorkOK'
  BY GateAssumption, ContributeAssumption
  DEF LapseRecord, Clear, Typed, WorkOK, HandlersOK, StoredOK, GateTypeOK, Posting, Ids, Steps,
      gate, table, work, bounds, history
<1> QED BY <1>1, <1>2, <1>3, <1>4, <1>5 DEF Typed

LEMMA LapseActsTyped ==
  ASSUME Typed, NEW u \in Users, NEW k \in Kinds, LapseActs(u, k)
  PROVE  Typed'
<1>1. GateTypeOK'
  BY GateAssumption, ContributeAssumption
  DEF LapseActs, NoActs, Typed, GateTypeOK, HandlersOK, Posting, Acts, CodeStates,
      gate, table, work, bounds, history
<1>2. HandlersOK'
  BY GateAssumption, ContributeAssumption
  DEF LapseActs, NoActs, Typed, HandlersOK, StoredOK, GateTypeOK, Acts, Steps, Passes, Posting, Ids,
      gate, table, work, bounds, history
<1>3. StoredOK'
  BY GateAssumption, ContributeAssumption
  DEF LapseActs, NoActs, Typed, StoredOK, HandlersOK, WorkOK, Rows, Ids, Posting,
      gate, table, work, bounds, history
<1>4. HistoryOK'
  BY GateAssumption, ContributeAssumption
  DEF LapseActs, NoActs, Typed, HistoryOK, HandlersOK, WorkOK, Counted, Posting,
      gate, table, work, bounds, history
<1>5. WorkOK'
  BY GateAssumption, ContributeAssumption
  DEF LapseActs, NoActs, Typed, WorkOK, HandlersOK, StoredOK, GateTypeOK, Posting, Ids, Steps,
      gate, table, work, bounds, history
<1> QED BY <1>1, <1>2, <1>3, <1>4, <1>5 DEF Typed

LEMMA LapseCodeTyped ==
  ASSUME Typed, NEW c \in Codes, LapseCode(c)
  PROVE  Typed'
<1>1. GateTypeOK'
  BY GateAssumption, ContributeAssumption
  DEF LapseCode, Typed, GateTypeOK, HandlersOK, Posting, Acts, CodeStates,
      gate, table, work, bounds, history
<1>2. HandlersOK'
  BY GateAssumption, ContributeAssumption
  DEF LapseCode, Typed, HandlersOK, StoredOK, GateTypeOK, Acts, Steps, Passes, Posting, Ids,
      gate, table, work, bounds, history
<1>3. StoredOK'
  BY GateAssumption, ContributeAssumption
  DEF LapseCode, Typed, StoredOK, HandlersOK, WorkOK, Rows, Ids, Posting,
      gate, table, work, bounds, history
<1>4. HistoryOK'
  BY GateAssumption, ContributeAssumption
  DEF LapseCode, Typed, HistoryOK, HandlersOK, WorkOK, Counted, Posting,
      gate, table, work, bounds, history
<1>5. WorkOK'
  BY GateAssumption, ContributeAssumption
  DEF LapseCode, Typed, WorkOK, HandlersOK, StoredOK, GateTypeOK, Posting, Ids, Steps,
      gate, table, work, bounds, history
<1> QED BY <1>1, <1>2, <1>3, <1>4, <1>5 DEF Typed

LEMMA CoolTyped ==
  ASSUME Typed, NEW u \in Users, NEW k \in Kinds, Cool(u, k)
  PROVE  Typed'
<1>1. GateTypeOK'
  BY GateAssumption, ContributeAssumption
  DEF Cool, Typed, GateTypeOK, HandlersOK, Posting, Acts, CodeStates,
      gate, table, work, bounds, history
<1>2. HandlersOK'
  BY GateAssumption, ContributeAssumption
  DEF Cool, Typed, HandlersOK, StoredOK, GateTypeOK, Acts, Steps, Passes, Posting, Ids,
      gate, table, work, bounds, history
<1>3. StoredOK'
  BY GateAssumption, ContributeAssumption
  DEF Cool, Typed, StoredOK, HandlersOK, WorkOK, Rows, Ids, Posting,
      gate, table, work, bounds, history
<1>4. HistoryOK'
  BY GateAssumption, ContributeAssumption
  DEF Cool, Typed, HistoryOK, HandlersOK, WorkOK, Counted, Posting,
      gate, table, work, bounds, history
<1>5. WorkOK'
  BY GateAssumption, ContributeAssumption
  DEF Cool, Typed, WorkOK, HandlersOK, StoredOK, GateTypeOK, Posting, Ids, Steps,
      gate, table, work, bounds, history
<1> QED BY <1>1, <1>2, <1>3, <1>4, <1>5 DEF Typed

LEMMA TypedStep ==
  ASSUME Typed, [Next]_vars
  PROVE  Typed'
<1>1. CASE \E r \in Requests : Receive(r)
  BY <1>1, RejectTyped, ArriveTyped, ArriveUnrecordedTyped DEF Receive
<1>2. CASE \E h \in Handlers : Serve(h)
  <2>1. PICK h \in Handlers : Serve(h)
    BY <1>2
  <2> QED BY <2>1, RecordTyped, ForbidTyped, GoThroughTyped, VerifyTyped, TakeBackTyped,
      TakeBackFailsTyped, UnableTyped, LookTyped, ServiceFailsTyped, InsertTyped, ChangeTyped,
      ReactTyped, SkipTyped,
     InsertAnswerTyped, AnswerFailsTyped, ReadBackFailsTyped, FinishTyped, FinishFailsTyped,
     ReadCountTyped, SaveCountTyped, CountFailsTyped, ReplyTyped, ReplyUnclearedTyped
          DEF Serve
<1>3. CASE Environment
  BY <1>3, HandOutTyped, LapseRecordTyped, LapseActsTyped, LapseCodeTyped, CoolTyped
  DEF Environment
<1>4. CASE UNCHANGED vars
  BY <1>4 DEF vars, gate, table, work, bounds, history, Typed, GateTypeOK, HandlersOK,
              StoredOK, HistoryOK, WorkOK
<1> QED BY <1>1, <1>2, <1>3, <1>4 DEF Next

\* Every variable of Contributing has its type, whatever is sent and fails.
THEOREM TypeCorrect == Spec => []TypeOK
<1>1. Typed => TypeOK
  BY DEF Typed, TypeOK, HandlersOK, StoredOK, HistoryOK
<1> QED BY <1>1, TypedInit, TypedStep, PTL DEF Spec

-----------------------------------------------------------------------------
(* One post for a request that is repeated *)

\* The handler has looked for a record and has not answered.
Past(h) == pc[h] \notin {"idle", "put"}

\* The request of the handler has stored nothing, or is taken to have.
Unstored(h) == pc[h] \in {"verify", "burn", "serve", "write"} \/ ~ok[h]

Holds(h, r) == Past(h) /\ req[h] = r

StoredRow(i) == posts[i].is # "none"

RowsInv == \A i \in Ids : StoredRow(i) => i <= made

StoredInv ==
  \A h \in Handlers : Past(h) /\ req[h] \in Posting /\ ~Unstored(h) => Posted(req[h])

\* While nothing excuses a request, one handler serves it, or has stored its
\* post, and it is recorded as long as either is so.
OnceInv ==
  \A r \in Posting \ excused :
    /\ \A g, h \in Handlers : Holds(g, r) /\ Holds(h, r) => g = h
    /\ \A h \in Handlers : Holds(h, r) /\ Unstored(h) => ~Posted(r)
    /\ Posted(r) => r \in record
    /\ \A h \in Handlers : Holds(h, r) => r \in record
    /\ \A i, j \in Ids : /\ StoredRow(i) /\ StoredRow(j)
                         /\ posts[i].from = r /\ posts[j].from = r
                         => i = j

\* RetryAllowed, of a handler that holds the record.
HeldInv ==
  \A r \in record :
    \/ Posted(r) \/ r \in abandoned
    \/ \E h \in Handlers : Holds(h, r)

Kept == RowsInv /\ StoredInv /\ OnceInv /\ HeldInv

\* The step stores nothing, records nothing and clears nothing.
Quiet(h) ==
  /\ record' = record /\ excused' = excused /\ abandoned' = abandoned
  /\ req' = req /\ made' = made
  /\ \A i \in Ids : (StoredRow(i)' <=> StoredRow(i)) /\ posts'[i].from = posts[i].from
  /\ \A g \in Handlers :
       /\ Past(g)' <=> Past(g)
       /\ req[g] \in Posting => (Unstored(g)' <=> Unstored(g))

\* Where the handler of a request goes, and that only what is not looked for goes
\* anywhere else than from the captcha to the service and from the count to the reply.
LEMMA Ways ==
  ASSUME Typed, NEW h \in Handlers, pc[h] # "idle"
  PROVE  /\ AfterPass(req[h]) \in {"serve", "count"}
         /\ AfterCount(h) \in {"serve", "answer", "reply"}
         /\ req[h] \in Posting => AfterPass(req[h]) = "serve" /\ AfterCount(h) = "reply"
         /\ Op[req[h]] \in Removing \cup Updating \cup Reacting => req[h] \notin Posting
         /\ Op[req[h]] = "AddQuestionByAnswer" => req[h] \notin Posting
<1>1. req[h] \in Requests
  BY Busied
<1>2. AfterPass(req[h]) \in {"serve", "count"}
  BY <1>1, Duties
<1> QED BY <1>2 DEF AfterCount, AfterPass, Posting, Recorded, Removing, Updating, Reacting

LEMMA QuietSteps ==
  ASSUME Typed, NEW h \in Handlers,
         \/ Forbid(h) \/ GoThrough(h) \/ Verify(h) \/ TakeBack(h)
         \/ TakeBackFails(h) \/ Unable(h) \/ Look(h) \/ ServiceFails(h)
         \/ Change(h) \/ Finish(h) \/ ReadCount(h) \/ SaveCount(h)
         \/ CountFails(h) \/ React(h) \/ Skip(h) \/ AnswerFails(h)
  PROVE  Quiet(h)
<1> USE DEF Typed, HandlersOK, StoredOK, WorkOK
<1>1. CASE Forbid(h)
  BY <1>1, ContributeAssumption DEF Forbid, GiveUp, Go, At, Quiet, Past, Unstored, StoredRow,
      Steps, Posting, Rows,
     Ids, gate, table, work, bounds, history
<1>2. CASE GoThrough(h)
  BY <1>2, Ways DEF GoThrough, Go, At, Quiet, Past, Unstored, StoredRow, gate, table
<1>3. CASE Verify(h)
  BY <1>3, ContributeAssumption DEF Verify, Go, At, Quiet, Past, Unstored, StoredRow, Steps,
      Posting, Rows,
     Ids, gate, table, work, bounds, history
<1>4. CASE TakeBack(h)
  BY <1>4, Ways DEF TakeBack, Judge, GiveUp, Go, At, Quiet, Past, Unstored, StoredRow, table,
      history
<1>5. CASE TakeBackFails(h)
  BY <1>5, Ways DEF TakeBackFails, Judge, GiveUp, Go, At, Quiet, Past, Unstored, StoredRow, gate,
      table
<1>6. CASE Unable(h)
  BY <1>6, ContributeAssumption DEF Unable, GiveUp, Go, At, Quiet, Past, Unstored, StoredRow,
      Steps, Posting, Rows,
     Ids, gate, table, work, bounds, history
<1>7. CASE Look(h)
  BY <1>7, ContributeAssumption DEF Look, AfterRefusal, AfterError, GiveUp, Go, At, Quiet, Past,
      Unstored, StoredRow, Steps, Posting, Rows,
     Ids, gate, table, work, bounds, history
<1>8. CASE ServiceFails(h)
  BY <1>8, ContributeAssumption DEF ServiceFails, AfterError, GiveUp, Go, At, Fault, Quiet, Past,
      Unstored, StoredRow, Steps, Posting, Rows,
     Ids, gate, table, work, bounds, history
<1>9. CASE Change(h)
  <2>1. pc[h] = "write" /\ req[h] \notin Posting
    BY <1>9, Ways DEF Change, At
  <2>2. pc'[h] \in {"finish", "count"} /\ \A g \in Handlers \ {h} : pc'[g] = pc[g]
    BY <1>9 DEF Change, Go
  <2>3. UNCHANGED <<record, excused, abandoned, req, made, ok>>
    BY <1>9 DEF Change, gate
  <2>4. \A i \in Ids : posts'[i].is = posts[i].is /\ posts'[i].from = posts[i].from
    <3>1. \A row : \A new \in Changed(req[h], row) : new.is = row.is /\ new.from = row.from
      <4>1. Removing \cap Updating = {} /\ Op[req[h]] \in Removing \cup Updating
        BY <1>9 DEF Change, Removing, Updating
      <4> QED BY <4>1 DEF Changed, Removed, Reworded, Updating
    <3>2. CASE \E row \in Changed(req[h], posts[Target[req[h]]]) :
                 posts' = [posts EXCEPT ![Target[req[h]]] = row]
      BY <3>1, <3>2
    <3>3. CASE posts' = posts
      BY <3>3
    <3> QED BY <1>9, <3>2, <3>3 DEF Change
  <2> QED BY <2>1, <2>2, <2>3, <2>4 DEF Quiet, Past, Unstored, StoredRow
<1>10. CASE Finish(h)
  BY <1>10, ContributeAssumption DEF Finish, Go, At, Quiet, Past, Unstored, StoredRow, Steps,
      Posting, Rows,
     Ids, gate, table, work, bounds, history
<1>11. CASE ReadCount(h)
  BY <1>11, Ways DEF ReadCount, Go, At, Quiet, Past, Unstored, StoredRow, gate, table, history
<1>12. CASE SaveCount(h)
  BY <1>12, Ways DEF SaveCount, Go, At, Quiet, Past, Unstored, StoredRow, table, history
<1>13. CASE CountFails(h)
  BY <1>13, Ways DEF CountFails, Go, At, Quiet, Past, Unstored, StoredRow, gate, table
<1>14. CASE React(h)
  BY <1>14, Ways DEF React, Go, At, Quiet, Past, Unstored, StoredRow, gate, table
<1>15. CASE Skip(h)
  <2>1. Op[req[h]] \in Removing \cup Updating
    BY <1>15 DEF Skip, Missing, Removing, Updating
  <2> QED BY <1>15, <2>1, Ways DEF Skip, Go, At, Quiet, Past, Unstored, StoredRow, gate, table,
      history
<1>16. CASE AnswerFails(h)
  BY <1>16, Ways DEF AnswerFails, GiveUp, Go, At, Quiet, Past, Unstored, StoredRow, gate, table,
      history
<1> QED BY <1>1, <1>2, <1>3, <1>4, <1>5, <1>6, <1>7, <1>8, <1>9, <1>10, <1>11, <1>12, <1>13,
         <1>14, <1>15, <1>16

LEMMA QuietKeeps ==
  ASSUME Kept, NEW h \in Handlers, Quiet(h)
  PROVE  Kept'
<1>1. \A r : Posted(r)' <=> Posted(r)
  BY DEF Quiet, Posted, StoredRow
<1>2. RowsInv'
  BY DEF Kept, RowsInv, Quiet
<1>3. StoredInv'
  BY <1>1 DEF Kept, StoredInv, Quiet
<1>4. OnceInv'
  BY <1>1 DEF Kept, OnceInv, Holds, Quiet
<1>5. HeldInv'
  BY <1>1 DEF Kept, HeldInv, Holds, Quiet
<1> QED BY <1>2, <1>3, <1>4, <1>5 DEF Kept

\* Nothing that Kept is about changes.
Still == UNCHANGED <<record, posts, made, req, pc, ok, excused, abandoned>>

LEMMA StillKeeps ==
  ASSUME Kept, Still
  PROVE  Kept'
BY DEF Still, Kept, RowsInv, StoredInv, OnceInv, HeldInv, Holds, Past, Unstored, StoredRow, Posted

\* The rows and the record stay; a handler may take up a request that is
\* excused, and leave one whose record is abandoned.
Settled ==
  /\ record' = record /\ excused \subseteq excused' /\ abandoned \subseteq abandoned'
  /\ made' = made /\ posts' = posts
  /\ \A g \in Handlers, x \in Posting \ excused' : Holds(g, x)' => Holds(g, x)
  /\ \A g \in Handlers, x \in Posting \ excused' :
       Holds(g, x) /\ Unstored(g)' => Unstored(g)
  /\ \A g \in Handlers, x \in Posting \ abandoned' : Holds(g, x) => Holds(g, x)'

LEMMA SettledKeeps ==
  ASSUME Typed, Kept, Settled
  PROVE  OnceInv' /\ HeldInv'
<1>1. \A x : Posted(x)' <=> Posted(x)
  BY DEF Settled, Posted
<1>2. \A i \in Ids : StoredRow(i)' <=> StoredRow(i)
  BY DEF Settled, StoredRow
<1>3. OnceInv'
  BY <1>1, <1>2 DEF Settled, Kept, OnceInv
<1>4. HeldInv'
  BY <1>1 DEF Settled, Kept, HeldInv, Typed, WorkOK
<1> QED BY <1>3, <1>4

LEMMA ArriveKeeps ==
  ASSUME Typed, Kept, NEW h \in Handlers, NEW r \in Requests, Arrive(h, r)
  PROVE  Kept'
<1> USE ContributeAssumption DEF Arrive, Take, Go, At, Typed, HandlersOK, StoredOK, WorkOK, Kept,
            Past, Unstored, gate, table, work, bounds, history
<1>1. RowsInv'
  BY DEF RowsInv, StoredRow
<1>2. StoredInv'
  BY DEF StoredInv, Posted
<1>3. Settled
  <2>1. /\ record' = record /\ excused \subseteq excused' /\ abandoned \subseteq abandoned'
        /\ made' = made /\ posts' = posts
    OBVIOUS
  <2>2. \A g \in Handlers \ {h} : pc'[g] = pc[g] /\ req'[g] = req[g] /\ ok'[g] = ok[g]
    OBVIOUS
  <2>3. pc[h] = "idle" /\ pc'[h] = (IF r \in Posting THEN "put" ELSE "verify") /\ req'[h] = r
    OBVIOUS
  <2> HIDE DEF Arrive, Take, Go, At, Typed, HandlersOK, StoredOK, WorkOK, Kept, gate, table,
               work, bounds, history
  <2>4. \A g \in Handlers, x \in Posting \ excused' : Holds(g, x)' => Holds(g, x)
    BY <2>2, <2>3 DEF Holds
  <2>5. \A g \in Handlers, x \in Posting \ excused' : Holds(g, x) /\ Unstored(g)' => Unstored(g)
    BY <2>2, <2>3 DEF Holds
  <2>6. \A g \in Handlers, x \in Posting \ abandoned' : Holds(g, x) => Holds(g, x)'
    BY <2>2, <2>3 DEF Holds
  <2> QED BY <2>1, <2>4, <2>5, <2>6 DEF Settled
<1> QED BY <1>1, <1>2, <1>3, SettledKeeps

LEMMA ArriveUnrecordedKeeps ==
  ASSUME Typed, Kept, NEW h \in Handlers, NEW r \in Requests, ArriveUnrecorded(h, r)
  PROVE  Kept'
<1> USE ContributeAssumption DEF ArriveUnrecorded, Take, Go, At, Fault, Typed, HandlersOK,
    StoredOK, WorkOK, Kept,
            Past, Unstored, gate, table, work, bounds, history
<1>1. RowsInv'
  BY DEF RowsInv, StoredRow
<1>2. StoredInv'
  BY DEF StoredInv, Posted
<1>3. Settled
  <2>1. /\ record' = record /\ excused \subseteq excused' /\ abandoned \subseteq abandoned'
        /\ made' = made /\ posts' = posts
    OBVIOUS
  <2>2. \A g \in Handlers \ {h} : pc'[g] = pc[g] /\ req'[g] = req[g] /\ ok'[g] = ok[g]
    OBVIOUS
  <2>3. pc[h] = "idle" /\ req'[h] = r /\ r \in excused' /\ excused \subseteq excused'
    OBVIOUS
  <2> HIDE DEF ArriveUnrecorded, Take, Go, At, Fault, Typed, HandlersOK, StoredOK, WorkOK, Kept,
      gate, table,
               work, bounds, history
  <2>4. \A g \in Handlers, x \in Posting \ excused' : Holds(g, x)' => Holds(g, x)
    BY <2>2, <2>3 DEF Holds
  <2>5. \A g \in Handlers, x \in Posting \ excused' : Holds(g, x) /\ Unstored(g)' => Unstored(g)
    BY <2>2, <2>3 DEF Holds
  <2>6. \A g \in Handlers, x \in Posting \ abandoned' : Holds(g, x) => Holds(g, x)'
    BY <2>2, <2>3 DEF Holds
  <2> QED BY <2>1, <2>4, <2>5, <2>6 DEF Settled
<1> QED BY <1>1, <1>2, <1>3, SettledKeeps

LEMMA FinishFailsKeeps ==
  ASSUME Typed, Kept, NEW h \in Handlers, FinishFails(h)
  PROVE  Kept'
<1> USE ContributeAssumption DEF FinishFails, AfterError, Counted, GiveUp, Go, At, Fault, Typed,
    HandlersOK, StoredOK, WorkOK, Kept,
            Past, Unstored, gate, table, work, bounds, history
<1>1. RowsInv'
  BY DEF RowsInv, StoredRow
<1>2. StoredInv'
  BY DEF StoredInv, Posted
<1>3. Settled
  <2>1. /\ record' = record /\ excused \subseteq excused' /\ abandoned \subseteq abandoned'
        /\ made' = made /\ posts' = posts
    OBVIOUS
  <2>2. \A g \in Handlers \ {h} : pc'[g] = pc[g] /\ req'[g] = req[g] /\ ok'[g] = ok[g]
    OBVIOUS
  <2>3. /\ pc[h] = "finish" /\ pc'[h] \in {"count", "reply"}
        /\ req'[h] = req[h] /\ req[h] \in excused'
    BY Busied, Duties
  <2> HIDE DEF FinishFails, AfterError, Counted, GiveUp, Go, At, Fault, Typed, HandlersOK,
      StoredOK, WorkOK, Kept, gate, table,
               work, bounds, history
  <2>4. \A g \in Handlers, x \in Posting \ excused' : Holds(g, x)' => Holds(g, x)
    BY <2>2, <2>3 DEF Holds
  <2>5. \A g \in Handlers, x \in Posting \ excused' : Holds(g, x) /\ Unstored(g)' => Unstored(g)
    BY <2>2, <2>3 DEF Holds
  <2>6. \A g \in Handlers, x \in Posting \ abandoned' : Holds(g, x) => Holds(g, x)'
    BY <2>2, <2>3 DEF Holds
  <2> QED BY <2>1, <2>4, <2>5, <2>6 DEF Settled
<1> QED BY <1>1, <1>2, <1>3, SettledKeeps

LEMMA ReadBackFailsKeeps ==
  ASSUME Typed, Kept, NEW h \in Handlers, ReadBackFails(h)
  PROVE  Kept'
<1> USE ContributeAssumption DEF ReadBackFails, At, Fault, Typed, HandlersOK, StoredOK, WorkOK,
    Kept,
            Past, Unstored, gate, table, work, bounds, history
<1>1. RowsInv'
  BY DEF RowsInv, StoredRow
<1>2. StoredInv'
  BY DEF StoredInv, Posted
<1>3. Settled
  <2>1. /\ record' = record /\ excused \subseteq excused' /\ abandoned \subseteq abandoned'
        /\ made' = made /\ posts' = posts
    OBVIOUS
  <2>2. \A g \in Handlers \ {h} : pc'[g] = pc[g] /\ req'[g] = req[g] /\ ok'[g] = ok[g]
    OBVIOUS
  <2>3. pc'[h] = pc[h] /\ req'[h] = req[h] /\ req[h] \in excused'
    OBVIOUS
  <2> HIDE DEF ReadBackFails, At, Fault, Typed, HandlersOK, StoredOK, WorkOK, Kept, gate, table,
               work, bounds, history
  <2>4. \A g \in Handlers, x \in Posting \ excused' : Holds(g, x)' => Holds(g, x)
    BY <2>2, <2>3 DEF Holds
  <2>5. \A g \in Handlers, x \in Posting \ excused' : Holds(g, x) /\ Unstored(g)' => Unstored(g)
    BY <2>2, <2>3 DEF Holds
  <2>6. \A g \in Handlers, x \in Posting \ abandoned' : Holds(g, x) => Holds(g, x)'
    BY <2>2, <2>3 DEF Holds
  <2> QED BY <2>1, <2>4, <2>5, <2>6 DEF Settled
<1> QED BY <1>1, <1>2, <1>3, SettledKeeps

LEMMA ReplyUnclearedKeeps ==
  ASSUME Typed, Kept, NEW h \in Handlers, ReplyUncleared(h)
  PROVE  Kept'
<1> USE ContributeAssumption DEF ReplyUncleared, Rest, Failed, Go, At, Fault, Typed, HandlersOK,
    StoredOK, WorkOK, Kept,
            Past, Unstored, gate, table, work, bounds, history
<1>1. RowsInv'
  BY DEF RowsInv, StoredRow
<1>2. StoredInv'
  BY DEF StoredInv, Posted
<1>3. Settled
  <2>1. /\ record' = record /\ excused \subseteq excused' /\ abandoned \subseteq abandoned'
        /\ made' = made /\ posts' = posts
    OBVIOUS
  <2>2. \A g \in Handlers \ {h} : pc'[g] = pc[g] /\ req'[g] = req[g] /\ ok'[g] = ok[g]
    OBVIOUS
  <2>3. pc'[h] = "idle" /\ ok'[h] /\ req[h] \in abandoned'
    OBVIOUS
  <2> HIDE DEF ReplyUncleared, Rest, Failed, Go, At, Fault, Typed, HandlersOK, StoredOK, WorkOK,
      Kept, gate, table,
               work, bounds, history
  <2>4. \A g \in Handlers, x \in Posting \ excused' : Holds(g, x)' => Holds(g, x)
    BY <2>2, <2>3 DEF Holds
  <2>5. \A g \in Handlers, x \in Posting \ excused' : Holds(g, x) /\ Unstored(g)' => Unstored(g)
    BY <2>2, <2>3 DEF Holds, Unstored
  <2>6. \A g \in Handlers, x \in Posting \ abandoned' : Holds(g, x) => Holds(g, x)'
    BY <2>2, <2>3 DEF Holds
  <2> QED BY <2>1, <2>4, <2>5, <2>6 DEF Settled
<1> QED BY <1>1, <1>2, <1>3, SettledKeeps

LEMMA RecordKeeps ==
  ASSUME Typed, Kept, NEW h \in Handlers, Record(h)
  PROVE  Kept'
<1> USE ContributeAssumption DEF Record, Put, Go, At, Typed, HandlersOK, StoredOK, WorkOK, Kept,
            Holds, Past, Unstored, StoredRow, Posted, table, work, bounds, history
<1>1. RowsInv'
  BY DEF RowsInv
<1>2. StoredInv'
  BY DEF StoredInv
<1>3. OnceInv'
  BY DEF OnceInv
<1>4. HeldInv'
  BY DEF HeldInv
<1> QED BY <1>1, <1>2, <1>3, <1>4

LEMMA InsertKeeps ==
  ASSUME Typed, Kept, NEW h \in Handlers, Insert(h), req[h] \in Posting
  PROVE  Kept'
<1> DEFINE m == made + 1
<1>1. m \in Ids /\ made \in Nat /\ ok[h] /\ Holds(h, req[h]) /\ Unstored(h)
  BY ContributeAssumption DEF Insert, Store, At, Typed, HandlersOK, StoredOK, WorkOK, Ids, Holds,
                              Past, Unstored
<1>2. /\ posts'[m].is # "none" /\ posts'[m].from = req[h] /\ made' = m
      /\ \A i \in Ids \ {m} : posts'[i] = posts[i]
  <2>1. ActionOf(Op[req[h]]) \in Types
    BY Duties DEF Insert, Posting
  <2> QED BY <1>1, <2>1 DEF Insert, Store, Typed, StoredOK, Types
<1>3. UNCHANGED <<record, excused, abandoned, req, ok>>
  BY DEF Insert, gate
<1>4. \A g \in Handlers : (Past(g)' <=> Past(g)) /\ (g # h => pc'[g] = pc[g])
  BY DEF Insert, Go, At, Past, Typed, HandlersOK
<1>5. ~Unstored(h)' /\ \A g \in Handlers : Unstored(g)' => Unstored(g)
  BY <1>1, <1>3 DEF Insert, Go, At, Unstored, Typed, HandlersOK
<1>6. ~StoredRow(m)
  BY <1>1 DEF Kept, RowsInv, StoredRow
<1>7. \A i \in Ids : StoredRow(i)' <=> (StoredRow(i) \/ i = m)
  BY <1>1, <1>2 DEF StoredRow
<1>8. \A x : Posted(x)' <=> (Posted(x) \/ x = req[h])
  BY <1>1, <1>2, <1>6, <1>7 DEF Posted, StoredRow
<1>9. \A x : \A g \in Handlers : Holds(g, x)' <=> Holds(g, x)
  BY <1>3, <1>4 DEF Holds
<1> HIDE DEF m
<1>10. RowsInv'
  BY <1>1, <1>2, <1>7 DEF Kept, RowsInv, Ids, m
<1>11. StoredInv'
  <2>1. ASSUME NEW g \in Handlers, Past(g)', req'[g] \in Posting, ~Unstored(g)', g # h
        PROVE  ~Unstored(g)
    BY <2>1, <1>3, <1>4 DEF Unstored
  <2> QED BY <2>1, <1>3, <1>4, <1>8 DEF Kept, StoredInv
<1>12. OnceInv'
  <2> SUFFICES ASSUME NEW r \in Posting \ excused
               PROVE  /\ \A g, k \in Handlers : Holds(g, r) /\ Holds(k, r) => g = k
                      /\ \A k \in Handlers : Holds(k, r) /\ Unstored(k)' => ~Posted(r)'
                      /\ Posted(r)' => r \in record
                      /\ \A k \in Handlers : Holds(k, r) => r \in record
                      /\ \A i, j \in Ids : /\ StoredRow(i)' /\ StoredRow(j)'
                                           /\ posts'[i].from = r /\ posts'[j].from = r
                                           => i = j
    BY <1>3, <1>9 DEF OnceInv
  <2>1. r = req[h] => ~Posted(r) /\ r \in record
    BY <1>1 DEF Kept, OnceInv
  <2>2. \A g \in Handlers : Holds(g, r) /\ r = req[h] => g = h
    BY <1>1 DEF Kept, OnceInv
  <2>3. \A g, k \in Handlers : Holds(g, r) /\ Holds(k, r) => g = k
    BY DEF Kept, OnceInv
  <2>4. \A k \in Handlers : Holds(k, r) /\ Unstored(k)' => ~Posted(r)'
    BY <2>2, <1>5, <1>8 DEF Kept, OnceInv
  <2>5. Posted(r)' => r \in record
    BY <2>1, <1>8 DEF Kept, OnceInv
  <2>6. ASSUME NEW i \in Ids, NEW j \in Ids, StoredRow(i)', StoredRow(j)',
               posts'[i].from = r, posts'[j].from = r
        PROVE  i = j
    <3>1. CASE r = req[h]
      <4>1. \A k \in Ids : StoredRow(k)' /\ posts'[k].from = r => k = m
        BY <3>1, <2>1, <1>2, <1>7 DEF Posted, StoredRow
      <4> QED BY <4>1, <2>6
    <3>2. CASE r # req[h]
      BY <3>2, <2>6, <1>2, <1>7 DEF Kept, OnceInv
    <3> QED BY <3>1, <3>2
  <2>7. \A k \in Handlers : Holds(k, r) => r \in record
    BY DEF Kept, OnceInv
  <2> QED BY <2>3, <2>4, <2>5, <2>6, <2>7
<1>13. HeldInv'
  BY <1>3, <1>8, <1>9 DEF Kept, HeldInv
<1> QED BY <1>10, <1>11, <1>12, <1>13 DEF Kept

\* What is stored for a request nobody looks for.
LEMMA StoreOtherKeeps ==
  ASSUME Typed, Kept, NEW h \in Handlers, NEW type, Store(h, type),
         req[h] \notin Posting,
         UNCHANGED <<record, excused, abandoned, req, ok>>,
         \A g \in Handlers : (Past(g)' <=> Past(g)) /\ (g # h => pc'[g] = pc[g])
  PROVE  Kept'
<1> DEFINE m == made + 1
<1>1. m \in Ids /\ made \in Nat
  BY ContributeAssumption DEF Store, Typed, StoredOK, Ids
<1>2. /\ posts'[m].from = req[h] /\ made' = m
      /\ \A i \in Ids \ {m} : posts'[i] = posts[i]
  BY <1>1 DEF Store, Typed, StoredOK
<1>3. ~StoredRow(m)
  BY <1>1 DEF Kept, RowsInv, StoredRow
<1>4. \A x \in Posting : Posted(x)' <=> Posted(x)
  BY <1>1, <1>2, <1>3 DEF Posted, StoredRow
<1>5. \A x : \A g \in Handlers : Holds(g, x)' <=> Holds(g, x)
  BY DEF Holds
<1>6. \A g \in Handlers : req[g] \in Posting => (Unstored(g)' <=> Unstored(g))
  BY DEF Unstored
<1>7. RowsInv'
  BY <1>1, <1>2 DEF Kept, RowsInv, StoredRow, Ids
<1>8. StoredInv'
  BY <1>4, <1>6 DEF Kept, StoredInv
<1>9. \A r \in Posting, i, j \in Ids :
        /\ r \notin excused /\ StoredRow(i)' /\ StoredRow(j)'
        /\ posts'[i].from = r /\ posts'[j].from = r
        => i = j
  BY <1>2 DEF Kept, OnceInv, StoredRow
<1>10. OnceInv'
  BY <1>4, <1>5, <1>6, <1>9 DEF Kept, OnceInv, Holds
<1>11. HeldInv'
  BY <1>4, <1>5 DEF Kept, HeldInv, Typed, WorkOK
<1> QED BY <1>7, <1>8, <1>10, <1>11 DEF Kept

LEMMA StoringKeeps ==
  ASSUME Typed, Kept, NEW h \in Handlers, Insert(h) \/ InsertAnswer(h)
  PROVE  Kept'
<1>1. CASE Insert(h) /\ req[h] \in Posting
  BY <1>1, InsertKeeps
<1>2. CASE Insert(h) /\ req[h] \notin Posting
  <2>1. UNCHANGED <<record, excused, abandoned, req, ok>>
    BY <1>2 DEF Insert, gate
  <2>2. \A g \in Handlers : (Past(g)' <=> Past(g)) /\ (g # h => pc'[g] = pc[g])
    BY <1>2 DEF Insert, Go, At, Past, Typed, HandlersOK
  <2> QED BY <1>2, <2>1, <2>2, StoreOtherKeeps DEF Insert
<1>3. CASE InsertAnswer(h)
  <2>1. req[h] \notin Posting
    BY <1>3, Ways DEF InsertAnswer, At, Typed, WorkOK
  <2>2. UNCHANGED <<record, excused, abandoned, req, ok>>
    BY <1>3 DEF InsertAnswer, gate, history
  <2>3. \A g \in Handlers : (Past(g)' <=> Past(g)) /\ (g # h => pc'[g] = pc[g])
    BY <1>3 DEF InsertAnswer, Go, At, Past, Typed, HandlersOK
  <2> QED BY <1>3, <2>1, <2>2, <2>3, StoreOtherKeeps DEF InsertAnswer
<1> QED BY <1>1, <1>2, <1>3

LEMMA ReplyKeeps ==
  ASSUME Typed, Kept, NEW h \in Handlers, Reply(h)
  PROVE  Kept'
<1> USE ContributeAssumption DEF Reply, Rest, Failed, Clear, Go, At, Typed, HandlersOK, StoredOK,
            WorkOK, Kept, Past, Unstored, table, work, bounds, history
<1>1. RowsInv'
  BY DEF RowsInv, StoredRow
<1>2. StoredInv'
  BY DEF StoredInv, Posted
<1>3. OnceInv'
  BY DEF OnceInv, Holds, StoredRow, Posted
<1>4. HeldInv'
  <2>1. ASSUME NEW r \in record', Holds(h, r)
        PROVE  Posted(r)
    BY <2>1 DEF Holds, StoredInv, Posting
  <2>2. \A x : Posted(x)' <=> Posted(x)
    BY DEF Posted
  <2>3. \A x : \A g \in Handlers \ {h} : Holds(g, x) => Holds(g, x)'
    BY DEF Holds
  <2>4. record' \subseteq record /\ abandoned' = abandoned
    OBVIOUS
  <2> HIDE DEF Reply, Rest, Failed, Clear, Go, At, Typed, HandlersOK, StoredOK, WorkOK, Past,
               Unstored, table, work, bounds, history
  <2> QED BY <2>1, <2>2, <2>3, <2>4 DEF HeldInv
<1> QED BY <1>1, <1>2, <1>3, <1>4

LEMMA LapseRecordKeeps ==
  ASSUME Typed, Kept, NEW r \in Requests, LapseRecord(r)
  PROVE  Kept'
<1> USE ContributeAssumption DEF LapseRecord, Clear, Typed, HandlersOK, StoredOK, WorkOK, Kept,
            Holds, Past, Unstored, StoredRow, Posted, table, work, bounds, history
<1>1. RowsInv'
  BY DEF RowsInv
<1>2. StoredInv'
  BY DEF StoredInv
<1>3. OnceInv'
  BY DEF OnceInv
<1>4. HeldInv'
  BY DEF HeldInv
<1> QED BY <1>1, <1>2, <1>3, <1>4

LEMMA KeptInit == Init => Kept
BY ContributeAssumption DEF Init, GateInit, Kept, RowsInv, StoredInv, OnceInv, HeldInv, Holds, Past,
   StoredRow, Posted, NoRow

LEMMA KeptStep ==
  ASSUME Typed, Kept, [Next]_vars
  PROVE  Kept'
<1>1. CASE \E r \in Requests : Receive(r)
  <2>1. PICK r \in Requests : Receive(r)
    BY <1>1
  <2>2. CASE Reject(r)
    BY <2>2, StillKeeps DEF Reject, Still, gate, table, work, history
  <2> QED BY <2>1, <2>2, ArriveKeeps, ArriveUnrecordedKeeps DEF Receive
<1>2. CASE \E h \in Handlers : Serve(h)
  <2>1. PICK h \in Handlers : Serve(h)
    BY <1>2
  <2>2. CASE \/ Record(h) \/ Insert(h) \/ InsertAnswer(h) \/ FinishFails(h)
            \/ ReadBackFails(h) \/ Reply(h) \/ ReplyUncleared(h)
    BY <2>2, RecordKeeps, StoringKeeps, FinishFailsKeeps, ReadBackFailsKeeps,
       ReplyKeeps, ReplyUnclearedKeeps
  <2>3. CASE ~(\/ Record(h) \/ Insert(h) \/ InsertAnswer(h) \/ FinishFails(h)
              \/ ReadBackFails(h) \/ Reply(h) \/ ReplyUncleared(h))
    <3>1. Quiet(h)
      BY <2>1, <2>3, QuietSteps DEF Serve
    <3> QED BY <3>1, QuietKeeps
  <2> QED BY <2>2, <2>3
<1>3. CASE Environment
  <2>1. CASE \E r \in Requests : LapseRecord(r)
    BY <2>1, LapseRecordKeeps
  <2>2. CASE \E c \in Codes : HandOut(c) \/ LapseCode(c)
    BY <2>2, StillKeeps DEF HandOut, ActionRecord, LapseCode, Still, table, work, history
  <2>3. CASE \E u \in Users, k \in Kinds : LapseActs(u, k) \/ Cool(u, k)
    BY <2>3, StillKeeps DEF LapseActs, Cool, Still, table, work, history
  <2> QED BY <1>3, <2>1, <2>2, <2>3 DEF Environment
<1>4. CASE UNCHANGED vars
  BY <1>4, StillKeeps DEF vars, gate, table, work, history, Still
<1> QED BY <1>1, <1>2, <1>3, <1>4 DEF Next

LEMMA KeptAlways == Spec => [](Typed /\ Kept)
<1>1. Init => Typed /\ Kept
  BY TypedInit, KeptInit
<1>2. Typed /\ Kept /\ [Next]_vars => Typed' /\ Kept'
  BY TypedStep, KeptStep
<1> QED BY <1>1, <1>2, PTL DEF Spec

\* A repeated request stores one post, for any requests and handlers.
THEOREM StoredOnce == Spec => []PostedOnce
<1>1. Kept => PostedOnce
  BY DEF Kept, RowsInv, OnceInv, StoredRow, PostedOnce
<1> QED BY <1>1, KeptAlways, PTL

\* A request is rejected only while the first is served or once it has stored
\* its post, unless clearing its record failed.
THEOREM FailedMayRepeat == Spec => []RetryAllowed
<1>1. Kept => RetryAllowed
  BY DEF Kept, HeldInv, Holds, RetryAllowed
<1> QED BY <1>1, KeptAlways, PTL

-----------------------------------------------------------------------------
(* A code is tried once *)

Burning(h, c) == pc[h] = "burn" /\ Code[req[h]] = c

CodeAt(c) ==
  /\ tries[c] <= 1
  /\ code[c] = "new" => tries[c] = 0
  /\ code[c] = "live" /\ tries[c] # 0 => \E h \in Handlers : Burning(h, c)

CodeInv == \A c \in Codes \ shared : CodeAt(c)

\* The step has nothing to do with codes.
CodeStill ==
  /\ UNCHANGED <<code, tries, shared>>
  /\ \A h \in Handlers, c \in Codes : Burning(h, c) => Burning(h, c)'

LEMMA CodeStillKeeps ==
  ASSUME CodeInv, CodeStill
  PROVE  CodeInv'
BY DEF CodeInv, CodeAt, CodeStill

LEMMA CodeStillSteps ==
  ASSUME Typed, NEW h \in Handlers,
         \/ Record(h) \/ Forbid(h) \/ GoThrough(h) \/ Unable(h)
         \/ Look(h) \/ ServiceFails(h) \/ Insert(h) \/ Change(h)
         \/ Finish(h) \/ FinishFails(h) \/ ReadCount(h) \/ SaveCount(h)
         \/ CountFails(h) \/ React(h) \/ Skip(h) \/ InsertAnswer(h)
         \/ AnswerFails(h) \/ ReadBackFails(h) \/ Reply(h) \/ ReplyUncleared(h)
  PROVE  CodeStill
<1> USE DEF Typed, HandlersOK, CodeStill, Burning, gate, table, work, bounds, history
<1>1. CASE Record(h)
  BY <1>1 DEF Record, Put, Go, At
<1>2. CASE Forbid(h)
  BY <1>2 DEF Forbid, GiveUp, Go, At
<1>3. CASE GoThrough(h)
  BY <1>3 DEF GoThrough, AfterPass, Tally, Go, At
<1>4. CASE Unable(h)
  BY <1>4 DEF Unable, GiveUp, Go, At
<1>5. CASE Look(h)
  BY <1>5 DEF Look, AfterRefusal, AfterError, GiveUp, Go, At
<1>6. CASE ServiceFails(h)
  BY <1>6 DEF ServiceFails, AfterError, GiveUp, Go, At, Fault
<1>7. CASE Insert(h)
  BY <1>7 DEF Insert, Store, Tally, Go, At
<1>8. CASE Change(h)
  BY <1>8 DEF Change, Tally, Go, At
<1>9. CASE Finish(h)
  BY <1>9 DEF Finish, Go, At
<1>10. CASE FinishFails(h)
  BY <1>10 DEF FinishFails, AfterError, Counted, GiveUp, Go, At, Fault
<1>11. CASE ReadCount(h)
  BY <1>11 DEF ReadCount, AfterCount, Go, At
<1>12. CASE SaveCount(h)
  BY <1>12 DEF SaveCount, AfterCount, Bump, Go, At
<1>13. CASE CountFails(h)
  BY <1>13 DEF CountFails, AfterCount, Go, At, Fault
<1>14. CASE Reply(h)
  BY <1>14 DEF Reply, Rest, Failed, Clear, Go, At
<1>15. CASE ReplyUncleared(h)
  BY <1>15 DEF ReplyUncleared, Rest, Failed, Go, At, Fault
<1>16. CASE React(h)
  BY <1>16 DEF React, Go, At
<1>17. CASE Skip(h)
  BY <1>17 DEF Skip, Go, At
<1>18. CASE InsertAnswer(h)
  BY <1>18 DEF InsertAnswer, Store, Go, At
<1>19. CASE AnswerFails(h)
  BY <1>19 DEF AnswerFails, GiveUp, Go, At
<1>20. CASE ReadBackFails(h)
  BY <1>20 DEF ReadBackFails, At, Fault
<1> QED BY <1>1, <1>2, <1>3, <1>4, <1>5, <1>6, <1>7, <1>8, <1>9, <1>10, <1>11, <1>12, <1>13,
           <1>14, <1>15, <1>16, <1>17, <1>18, <1>19, <1>20

LEMMA VerifyCodes ==
  ASSUME Typed, CodeInv, NEW h \in Handlers, Verify(h)
  PROVE  CodeInv'
<1> SUFFICES ASSUME NEW c \in Codes \ shared'
             PROVE  CodeAt(c)'
  BY DEF CodeInv
<1>1. /\ pc[h] = "verify" /\ pc'[h] = "burn" /\ req' = req /\ code' = code
      /\ \A g \in Handlers \ {h} : pc'[g] = pc[g]
  BY DEF Verify, Go, At, gate, Typed, HandlersOK
<1>2. \A g \in Handlers : Burning(g, c) => Burning(g, c)'
  BY <1>1 DEF Burning
<1>3. c \notin shared /\ CodeAt(c) /\ tries[c] \in Nat
  BY DEF Verify, CodeInv, Typed, HistoryOK
<1>4. CASE Code[req[h]] = c /\ code[c] = "live"
  <2>1. ~\E g \in Handlers : Burning(g, c)
    BY <1>4 DEF Verify, Compared, Burning, At
  <2>2. tries[c] = 0
    BY <1>3, <1>4, <2>1 DEF CodeAt
  <2>3. tries'[c] = 1 /\ Burning(h, c)'
    BY <1>1, <1>4, <2>2 DEF Verify, Compared, Burning
  <2> QED BY <1>1, <1>4, <2>3 DEF CodeAt
<1>5. CASE ~(Code[req[h]] = c /\ code[c] = "live")
  <2>1. tries'[c] = tries[c]
    BY <1>5, <1>3 DEF Verify, Compared, Typed, HistoryOK
  <2> QED BY <1>1, <1>2, <1>3, <2>1 DEF CodeAt
<1> QED BY <1>4, <1>5

LEMMA TakeBackCodes ==
  ASSUME Typed, CodeInv, NEW h \in Handlers, TakeBack(h) \/ TakeBackFails(h)
  PROVE  CodeInv'
<1> SUFFICES ASSUME NEW c \in Codes \ shared'
             PROVE  CodeAt(c)'
  BY DEF CodeInv
<1>1. /\ req' = req /\ tries' = tries /\ shared \subseteq shared'
      /\ \A g \in Handlers \ {h} : pc'[g] = pc[g]
  BY DEF TakeBack, TakeBackFails, Judge, AfterPass, GiveUp, Go, Typed, HandlersOK, history
<1>2. CodeAt(c)
  BY <1>1 DEF CodeInv
<1>3. CASE Code[req[h]] = c
  <2>1. TakeBack(h)
    BY <1>3 DEF TakeBackFails
  <2>2. code'[c] = IF code[c] = "live" THEN "used" ELSE code[c]
    BY <1>3, <2>1 DEF TakeBack, Burn, Compared
  <2> QED BY <1>1, <1>2, <2>2 DEF CodeAt
<1>4. CASE Code[req[h]] # c
  <2>1. code'[c] = code[c]
    BY <1>4 DEF TakeBack, TakeBackFails, Burn, gate, Typed, GateTypeOK
  <2>2. \A g \in Handlers : Burning(g, c) => Burning(g, c)'
    BY <1>1, <1>4 DEF Burning
  <2> QED BY <1>1, <1>2, <2>1, <2>2 DEF CodeAt
<1> QED BY <1>3, <1>4

LEMMA CodeInit == Init => CodeInv
BY DEF Init, GateInit, CodeInv, CodeAt

LEMMA CodeStep ==
  ASSUME Typed, CodeInv, [Next]_vars
  PROVE  CodeInv'
<1>1. CASE \E r \in Requests : Receive(r)
  <2>1. PICK r \in Requests : Receive(r)
    BY <1>1
  <2>2. CASE Reject(r)
    BY <2>2, CodeStillKeeps DEF Reject, CodeStill, Burning, gate, work, history
  <2>3. CASE \E h \in Handlers : Arrive(h, r) \/ ArriveUnrecorded(h, r)
    <3>1. CodeStill
      BY <2>3 DEF Arrive, ArriveUnrecorded, Take, Go, At, CodeStill, Burning, gate,
                  Typed, HandlersOK
    <3> QED BY <3>1, CodeStillKeeps
  <2> QED BY <2>1, <2>2, <2>3 DEF Receive
<1>2. CASE \E h \in Handlers : Serve(h)
  <2>1. PICK h \in Handlers : Serve(h)
    BY <1>2
  <2>2. CASE Verify(h) \/ TakeBack(h) \/ TakeBackFails(h)
    BY <2>2, VerifyCodes, TakeBackCodes
  <2>3. CASE ~(Verify(h) \/ TakeBack(h) \/ TakeBackFails(h))
    <3>1. CodeStill
      BY <2>1, <2>3, CodeStillSteps DEF Serve
    <3> QED BY <3>1, CodeStillKeeps
  <2> QED BY <2>2, <2>3
<1>3. CASE Environment
  <2>1. CASE \E c \in Codes : HandOut(c) \/ LapseCode(c)
    BY <2>1 DEF HandOut, ActionRecord, LapseCode, CodeInv, CodeAt, Burning, work, history,
                Typed, GateTypeOK
  <2>2. CASE (\E r \in Requests : LapseRecord(r))
             \/ \E u \in Users, k \in Kinds : LapseActs(u, k) \/ Cool(u, k)
    BY <2>2, CodeStillKeeps DEF LapseRecord, LapseActs, Cool, CodeStill, Burning, work, history
  <2> QED BY <1>3, <2>1, <2>2 DEF Environment
<1>4. CASE UNCHANGED vars
  BY <1>4, CodeStillKeeps DEF vars, gate, work, history, CodeStill, Burning
<1> QED BY <1>1, <1>2, <1>3, <1>4 DEF Next

\* A code meets one answer, unless two handlers met or it was not deleted.
THEOREM TriedOnce == Spec => []CodeTriedOnce
<1>1. Init => Typed /\ CodeInv
  BY TypedInit, CodeInit
<1>2. Typed /\ CodeInv /\ [Next]_vars => Typed' /\ CodeInv'
  BY TypedStep, CodeStep
<1>3. CodeInv => CodeTriedOnce
  BY DEF CodeInv, CodeAt, CodeTriedOnce
<1> QED BY <1>1, <1>2, <1>3, PTL DEF Spec

-----------------------------------------------------------------------------
(* What is done without a code *)

\* Handler h serves a request counted as an action k of user u.
Of(h, u, k) == pc[h] # "idle" /\ By[req[h]] = u /\ Kind[req[h]] = k

\* What was done without a code is counted, except what the handler has done
\* and not counted yet.
Due(h, u, k) ==
  IF pc[h] \in {"finish", "count"} /\ pass[h] # "exempt" THEN acts[u][k].num + 1
  ELSE IF pc[h] = "save" THEN num[h] + 1 ELSE acts[u][k].num

\* Handler h may do what is not counted yet, and needed no code.
About(h) == pass[h] = "free" /\ pc[h] \in {"serve", "write"} /\ Op[req[h]] # "Vote"

FreeAt(u, k) ==
  /\ free[u][k] <= Limit[k]
  /\ \A g, h \in Handlers : Of(g, u, k) /\ Of(h, u, k) => g = h
  /\ (\A h \in Handlers : ~Of(h, u, k)) => free[u][k] <= acts[u][k].num
  /\ \A h \in Handlers : Of(h, u, k) => free[u][k] <= Due(h, u, k)
  /\ \A h \in Handlers : Of(h, u, k) /\ About(h) => acts[u][k].num < Limit[k]

FreeInv == \A u \in Users, k \in Kinds : <<u, k>> \notin hurried => FreeAt(u, k)

LEMMA CountTypes ==
  ASSUME Typed, NEW u \in Users, NEW k \in Kinds
  PROVE  /\ acts[u][k].num \in Nat /\ free[u][k] \in Nat
         /\ Limit[k] \in Nat /\ 0 < Limit[k]
<1>1. acts[u][k] \in Acts
  BY DEF Typed, GateTypeOK
<1>2. Limit[k] \in Nat \ {0}
  BY GateAssumption
<1> QED BY <1>1, <1>2 DEF Acts, Typed, HistoryOK

\* The step counts nothing and serves nobody.
Calm(u, k) ==
  /\ acts'[u][k].num = acts[u][k].num /\ free'[u][k] = free[u][k]
  /\ \A h \in Handlers : Of(h, u, k)' <=> Of(h, u, k)
  /\ \A h \in Handlers : Of(h, u, k) => Due(h, u, k) <= Due(h, u, k)'
  /\ \A h \in Handlers : Of(h, u, k) /\ About(h)' => acts[u][k].num < Limit[k]

LEMMA CalmKeeps ==
  ASSUME Typed, Typed', NEW u \in Users, NEW k \in Kinds, FreeAt(u, k), Calm(u, k)
  PROVE  FreeAt(u, k)'
<1>1. \A h \in Handlers : Due(h, u, k) \in Nat /\ Due(h, u, k)' \in Nat
  <2>1. num \in [Handlers -> Nat] /\ num' \in [Handlers -> Nat]
    BY DEF Typed, HandlersOK
  <2>2. acts[u][k].num \in Nat /\ acts'[u][k].num \in Nat
    BY CountTypes DEF Calm
  <2> QED BY <2>1, <2>2 DEF Due
<1>2. free[u][k] \in Nat
  BY CountTypes
<1>3. \A h \in Handlers : Of(h, u, k)' => free'[u][k] <= Due(h, u, k)'
  BY <1>1, <1>2 DEF FreeAt, Calm
<1> QED BY <1>3 DEF FreeAt, Calm

LEMMA CalmSteps ==
  ASSUME Typed, NEW u \in Users, NEW k \in Kinds, NEW h \in Handlers,
         FreeAt(u, k), <<u, k>> \notin hurried',
         \/ Record(h) \/ Forbid(h) \/ (GoThrough(h) /\ Op[req[h]] # "Vote") \/ Verify(h)
         \/ TakeBack(h) \/ TakeBackFails(h) \/ Unable(h) \/ Look(h)
         \/ ServiceFails(h) \/ Finish(h) \/ FinishFails(h) \/ ReadCount(h)
         \/ CountFails(h) \/ (React(h) /\ Op[req[h]] = "Vote") \/ Skip(h)
         \/ InsertAnswer(h) \/ AnswerFails(h) \/ ReadBackFails(h)
  PROVE  Calm(u, k)
<1>1. num \in [Handlers -> Nat] /\ acts[u][k].num \in Nat /\ free[u][k] \in Nat
      /\ Limit[k] \in Nat /\ 0 < Limit[k]
  BY CountTypes DEF Typed, HandlersOK
<1> USE <1>1 DEF Typed, HandlersOK, Calm, Of, Due, About, gate, table, work, bounds, history
<1>2. CASE Record(h)
  BY <1>2 DEF Record, Put, Go, At, FreeAt
<1>3. CASE Forbid(h)
  BY <1>3 DEF Forbid, GiveUp, Go, At, FreeAt
<1>4. CASE GoThrough(h) /\ Op[req[h]] # "Vote"
  <2>1. /\ acts' = acts /\ free' = free /\ req' = req /\ num' = num
        /\ At(h, "verify") /\ pc' = [pc EXCEPT ![h] = "serve"]
        /\ \A g \in Handlers \ {h} : pc'[g] = pc[g] /\ pass'[g] = pass[g]
        /\ pass'[h] = "free" =>
             MayPass(By[req[h]], Kind[req[h]])
    BY <1>4 DEF GoThrough, AfterPass, Go
  <2>2. \A g \in Handlers : /\ Of(g, u, k)' <=> Of(g, u, k)
                           /\ Due(g, u, k)' = Due(g, u, k)
    BY <2>1 DEF At
  <2>3. ASSUME NEW g \in Handlers, Of(g, u, k), About(g)'
        PROVE  acts[u][k].num < Limit[k]
    <3>1. CASE g = h
      BY <2>1, <2>3, <3>1 DEF MayPass, At
    <3>2. CASE g # h
      BY <2>1, <2>3, <3>2 DEF FreeAt
    <3> QED BY <3>1, <3>2
  <2>4. \A g \in Handlers : Due(g, u, k) \in Nat
    BY DEF Due
  <2> QED BY <2>1, <2>2, <2>3, <2>4
<1>5. CASE Verify(h)
  BY <1>5 DEF Verify, Go, At, FreeAt
<1>6. CASE TakeBack(h)
  BY <1>6, Ways DEF TakeBack, Judge, GiveUp, Go, At, FreeAt
<1>7. CASE TakeBackFails(h)
  BY <1>7, Ways DEF TakeBackFails, Judge, GiveUp, Go, At, FreeAt
<1>8. CASE Unable(h)
  BY <1>8 DEF Unable, GiveUp, Go, At, FreeAt
<1>9. CASE Look(h)
  BY <1>9 DEF Look, AfterRefusal, AfterError, GiveUp, Go, At, FreeAt
<1>10. CASE ServiceFails(h)
  BY <1>10 DEF ServiceFails, AfterError, GiveUp, Go, At, Fault, FreeAt
<1>11. CASE Finish(h)
  BY <1>11 DEF Finish, Go, At, FreeAt
<1>12. CASE FinishFails(h)
  BY <1>12 DEF FinishFails, AfterError, Counted, GiveUp, Go, At, Fault, FreeAt
<1>13. CASE ReadCount(h)
  BY <1>13, Ways DEF ReadCount, Go, At, FreeAt
<1>14. CASE CountFails(h)
  BY <1>14 DEF CountFails, AfterCount, Go, At, Fault, Counted, FreeAt
<1>15. CASE React(h) /\ Op[req[h]] = "Vote"
  BY <1>15 DEF React, Go, At, FreeAt
<1>16. CASE Skip(h)
  BY <1>16 DEF Skip, Go, At, FreeAt
<1>17. CASE InsertAnswer(h)
  BY <1>17 DEF InsertAnswer, Go, At, FreeAt
<1>18. CASE AnswerFails(h)
  BY <1>18 DEF AnswerFails, GiveUp, Go, At, FreeAt
<1>19. CASE ReadBackFails(h)
  BY <1>19 DEF ReadBackFails, At, FreeAt
<1> QED BY <1>2, <1>3, <1>4, <1>5, <1>6, <1>7, <1>8, <1>9, <1>10, <1>11, <1>12, <1>13, <1>14,
           <1>15, <1>16, <1>17, <1>18, <1>19

\* A vote is taken as done when it is let through.
LEMMA VoteFree ==
  ASSUME Typed, NEW u \in Users, NEW k \in Kinds, FreeAt(u, k),
         NEW h \in Handlers, GoThrough(h), Op[req[h]] = "Vote"
  PROVE  FreeAt(u, k)'
<1>1. num \in [Handlers -> Nat] /\ acts[u][k].num \in Nat /\ free[u][k] \in Nat
      /\ Limit[k] \in Nat /\ 0 < Limit[k]
  BY CountTypes DEF Typed, HandlersOK
<1>2. /\ pc[h] = "verify" /\ pc'[h] = "count" /\ UNCHANGED <<acts, req, num>>
      /\ pass'[h] \in {"free", "exempt"}
      /\ \A g \in Handlers \ {h} : pc'[g] = pc[g] /\ pass'[g] = pass[g]
  BY DEF GoThrough, AfterPass, Go, At, gate, Typed, HandlersOK
<1>3. \A g \in Handlers : Of(g, u, k)' <=> Of(g, u, k)
  BY <1>2 DEF Of
<1>4. \A g \in Handlers \ {h} : Due(g, u, k)' = Due(g, u, k) /\ (About(g)' <=> About(g))
  BY <1>2 DEF Due, About
<1>5. free'[u][k] = IF Of(h, u, k) /\ pass'[h] = "free" THEN free[u][k] + 1 ELSE free[u][k]
  <2>1. By[req[h]] \in Users /\ Kind[req[h]] \in Kinds
    BY <1>2, Busied, Duties
  <2> QED BY <1>2, <2>1 DEF GoThrough, Tally, Of, Typed, HandlersOK, HistoryOK
<1>6. CASE Of(h, u, k)
  <2>1. \A g \in Handlers : Of(g, u, k) => g = h
    BY <1>6 DEF FreeAt
  <2>2. free[u][k] <= acts[u][k].num
    BY <1>2, <1>6 DEF FreeAt, Due
  <2>3. pass'[h] = "free" => acts[u][k].num < Limit[k]
    BY <1>1, <1>2, <1>6 DEF GoThrough, MayPass, Of, Typed, HandlersOK
  <2>4. Due(h, u, k)' = IF pass'[h] = "exempt" THEN acts[u][k].num ELSE acts[u][k].num + 1
    BY <1>2 DEF Due
  <2>5. free'[u][k] <= Due(h, u, k)' /\ free'[u][k] <= Limit[k]
    BY <1>1, <1>2, <1>5, <2>2, <2>3, <2>4 DEF FreeAt
  <2>6. ~About(h)'
    BY <1>2 DEF About
  <2> QED BY <1>3, <1>6, <2>1, <2>5, <2>6 DEF FreeAt
<1>7. CASE ~Of(h, u, k)
  BY <1>2, <1>3, <1>4, <1>5, <1>7 DEF FreeAt
<1> QED BY <1>6, <1>7

\* A handler performs what it was let through for.
LEMMA WriteFree ==
  ASSUME Typed, NEW u \in Users, NEW k \in Kinds, FreeAt(u, k),
         NEW h \in Handlers, Insert(h) \/ Change(h) \/ (React(h) /\ Op[req[h]] # "Vote")
  PROVE  FreeAt(u, k)'
<1>1. num \in [Handlers -> Nat] /\ acts[u][k].num \in Nat /\ free[u][k] \in Nat
      /\ Limit[k] \in Nat /\ 0 < Limit[k]
  BY CountTypes DEF Typed, HandlersOK
<1>2. /\ pc[h] = "write" /\ pc'[h] \in {"finish", "count"} /\ acts' = acts /\ req' = req
      /\ pass' = pass /\ \A g \in Handlers \ {h} : pc'[g] = pc[g] /\ num'[g] = num[g]
  BY DEF Insert, Change, React, Go, At, gate, Typed, HandlersOK
<1>3. \A g \in Handlers : Of(g, u, k)' <=> Of(g, u, k)
  BY <1>2 DEF Of
<1>4. \A g \in Handlers \ {h} : Due(g, u, k)' = Due(g, u, k) /\ (About(g)' <=> About(g))
  BY <1>2 DEF Due, About
<1>5. free'[u][k] = IF Of(h, u, k) /\ pass[h] = "free" THEN free[u][k] + 1 ELSE free[u][k]
  <2>1. By[req[h]] \in Users /\ Kind[req[h]] \in Kinds
    BY <1>2, Busied, Duties
  <2> QED BY <2>1, <1>2 DEF Insert, Change, React, Tally, Of, Typed, HistoryOK
<1>6. CASE Of(h, u, k)
  <2>1. \A g \in Handlers : Of(g, u, k) => g = h
    BY <1>6 DEF FreeAt
  <2>2. Op[req[h]] # "Vote"
    BY DEF Insert, Change, Storing, Recorded, Removing, Updating
  <2>3. free[u][k] <= acts[u][k].num /\ (pass[h] = "free" => acts[u][k].num < Limit[k])
    BY <1>2, <1>6, <2>2 DEF FreeAt, Due, About
  <2>4. Due(h, u, k)' = IF pass[h] = "exempt" THEN acts[u][k].num ELSE acts[u][k].num + 1
    BY <1>2 DEF Due
  <2>5. free'[u][k] <= Due(h, u, k)' /\ free'[u][k] <= Limit[k]
    BY <2>3, <2>4, <1>1, <1>5 DEF FreeAt
  <2>6. ~About(h)'
    BY <1>2 DEF About
  <2> QED BY <1>3, <1>6, <2>1, <2>5, <2>6 DEF FreeAt
<1>7. CASE ~Of(h, u, k)
  BY <1>2, <1>3, <1>4, <1>5, <1>7 DEF FreeAt
<1> QED BY <1>6, <1>7

LEMMA SaveFree ==
  ASSUME Typed, NEW u \in Users, NEW k \in Kinds, FreeAt(u, k),
         NEW h \in Handlers, SaveCount(h)
  PROVE  FreeAt(u, k)'
<1>1. num \in [Handlers -> Nat] /\ acts[u][k].num \in Nat /\ free[u][k] \in Nat
  BY CountTypes DEF Typed, HandlersOK
<1>2. /\ pc[h] = "save" /\ pc'[h] \in {"serve", "answer", "reply"}
      /\ req' = req /\ pass' = pass /\ num' = num
      /\ free' = free /\ \A g \in Handlers \ {h} : pc'[g] = pc[g]
  BY Ways DEF SaveCount, Go, At, Typed, HandlersOK, history
<1>3. \A g \in Handlers : Of(g, u, k)' <=> Of(g, u, k)
  BY <1>2 DEF Of
<1>4. req[h] \in Requests
  BY <1>2, ContributeAssumption DEF Typed, HandlersOK, WorkOK
<1>5. By[req[h]] \in Users /\ Kind[req[h]] \in Kinds
  BY <1>4, GateAssumption
<1>6. CASE Of(h, u, k)
  <2>1. acts'[u][k].num = num[h] + 1
    BY <1>5, <1>6 DEF SaveCount, Bump, Of, Typed, GateTypeOK
  <2>2. \A g \in Handlers : Of(g, u, k) => g = h
    BY <1>6 DEF FreeAt
  <2>3. pc'[h] = "serve" => Op[req[h]] = "Vote"
    BY <1>2 DEF SaveCount, AfterCount, Go, Typed, HandlersOK
  <2>4. free'[u][k] <= Due(h, u, k)' /\ ~About(h)'
    BY <1>2, <1>6, <2>1, <2>3 DEF FreeAt, Due, About
  <2> QED BY <1>2, <1>3, <1>6, <2>2, <2>4 DEF FreeAt
<1>7. CASE ~Of(h, u, k)
  <2>1. acts'[u][k] = acts[u][k]
    BY <1>2, <1>5, <1>7 DEF SaveCount, Bump, Of, Typed, GateTypeOK
  <2>2. \A g \in Handlers \ {h} : Due(g, u, k)' = Due(g, u, k) /\ (About(g)' <=> About(g))
    BY <1>2, <2>1 DEF Due, About
  <2> QED BY <1>2, <1>3, <1>7, <2>1, <2>2 DEF FreeAt
<1> QED BY <1>6, <1>7

\* A handler takes up a request, or is done with it.
LEMMA TakeFree ==
  ASSUME Typed, NEW u \in Users, NEW k \in Kinds, FreeAt(u, k), <<u, k>> \notin hurried',
         NEW h \in Handlers, NEW r \in Requests, Arrive(h, r) \/ ArriveUnrecorded(h, r)
  PROVE  FreeAt(u, k)'
<1>1. /\ pc[h] = "idle" /\ pc'[h] \in {"put", "verify"} /\ req'[h] = r
      /\ UNCHANGED <<acts, free, num, pass>>
      /\ \A g \in Handlers \ {h} : pc'[g] = pc[g] /\ req'[g] = req[g]
  BY DEF Arrive, ArriveUnrecorded, Take, Go, At, gate, Typed, HandlersOK
<1>2. \A g \in Handlers \ {h} : /\ Of(g, u, k)' <=> Of(g, u, k)
                                /\ Due(g, u, k)' = Due(g, u, k) /\ (About(g)' <=> About(g))
  BY <1>1 DEF Of, Due, About
<1>3. ~Of(h, u, k) /\ ~About(h)' /\ Due(h, u, k)' = acts[u][k].num
  BY <1>1 DEF Of, About, Due
<1>4. Of(h, u, k)' => \A g \in Handlers : ~Of(g, u, k)
  BY <1>1 DEF Of, Arrive, ArriveUnrecorded, Take, Busy, Counted
<1> QED BY <1>1, <1>2, <1>3, <1>4 DEF FreeAt

LEMMA ReplyFree ==
  ASSUME Typed, NEW u \in Users, NEW k \in Kinds, FreeAt(u, k),
         NEW h \in Handlers, Reply(h) \/ ReplyUncleared(h)
  PROVE  FreeAt(u, k)'
<1>1. /\ pc[h] = "reply" /\ pc'[h] = "idle" /\ acts' = acts /\ free' = free
      /\ \A g \in Handlers \ {h} : /\ pc'[g] = pc[g] /\ req'[g] = req[g]
                                   /\ num'[g] = num[g] /\ pass'[g] = pass[g]
  BY DEF Reply, ReplyUncleared, Rest, Go, At, gate, history, Typed, HandlersOK
<1>2. \A g \in Handlers \ {h} : /\ Of(g, u, k)' <=> Of(g, u, k)
                                /\ Due(g, u, k)' = Due(g, u, k) /\ (About(g)' <=> About(g))
  BY <1>1 DEF Of, Due, About
<1>3. ~Of(h, u, k)' /\ Due(h, u, k) = acts[u][k].num
  BY <1>1 DEF Of, Due
<1> QED BY <1>1, <1>2, <1>3 DEF FreeAt

\* A count lapses, and with it what was done.
LEMMA LapseFree ==
  ASSUME Typed, NEW u \in Users, NEW k \in Kinds, FreeAt(u, k),
         NEW v \in Users, NEW l \in Kinds, LapseActs(v, l) \/ Cool(v, l)
  PROVE  FreeAt(u, k)'
<1>1. num \in [Handlers -> Nat] /\ acts[u][k].num \in Nat /\ free[u][k] \in Nat
      /\ Limit[k] \in Nat /\ 0 < Limit[k]
  BY CountTypes DEF Typed, HandlersOK
<1>2. UNCHANGED <<pc, req, pass, num>>
  BY DEF LapseActs, Cool, work
<1>3. /\ acts'[u][k].num \in Nat
      /\ \/ acts'[u][k].num = acts[u][k].num /\ free'[u][k] = free[u][k]
         \/ free'[u][k] = 0 /\ acts'[u][k].num = 0
  <2>1. CASE LapseActs(v, l)
    BY <1>1, <2>1 DEF LapseActs, NoActs, Typed, GateTypeOK, HistoryOK
  <2>2. CASE Cool(v, l)
    BY <1>1, <2>2 DEF Cool, history, Typed, GateTypeOK
  <2> QED BY <2>1, <2>2
<1>4. \A h \in Handlers : (Of(h, u, k)' <=> Of(h, u, k)) /\ (About(h)' <=> About(h))
  BY <1>2 DEF Of, About
<1>5. \A h \in Handlers : free[u][k] <= Due(h, u, k) => free'[u][k] <= Due(h, u, k)'
  BY <1>1, <1>2, <1>3 DEF Due
<1> QED BY <1>1, <1>3, <1>4, <1>5 DEF FreeAt

\* Nothing that FreeAt is about changes.
LEMMA FreeStill ==
  ASSUME NEW u, NEW k, FreeAt(u, k), UNCHANGED <<acts, free, work>>
  PROVE  FreeAt(u, k)'
BY DEF FreeAt, Of, Due, About, work

LEMMA FreeInit == Init => FreeInv
<1> SUFFICES ASSUME Init, NEW u \in Users, NEW k \in Kinds
             PROVE  FreeAt(u, k)
  BY DEF FreeInv
<1>1. Limit[k] \in Nat
  BY GateAssumption
<1> QED BY <1>1 DEF Init, GateInit, NoActs, FreeAt, Of

LEMMA FreeStep ==
  ASSUME Typed, Typed', FreeInv, [Next]_vars
  PROVE  FreeInv'
<1> SUFFICES ASSUME NEW u \in Users, NEW k \in Kinds, <<u, k>> \notin hurried'
             PROVE  FreeAt(u, k)'
  BY DEF FreeInv
<1>1. <<u, k>> \notin hurried
  <2>1. hurried \subseteq hurried'
    BY DEF Next, Receive, Reject, Arrive, ArriveUnrecorded, Take, Serve, Record, Forbid,
           GoThrough, Verify, TakeBack, TakeBackFails, Unable, Look, Skip, ServiceFails, Insert,
           Change, React, Finish, FinishFails, ReadCount, SaveCount, CountFails, InsertAnswer,
           AnswerFails, ReadBackFails, Reply, ReplyUncleared,
           Environment, HandOut, LapseRecord, LapseActs, LapseCode, Cool, vars, history
  <2> QED BY <2>1
<1>2. FreeAt(u, k)
  BY <1>1 DEF FreeInv
<1>3. CASE \E r \in Requests : Receive(r)
  <2>1. PICK r \in Requests : Receive(r)
    BY <1>3
  <2>2. CASE Reject(r)
    BY <2>2, <1>2, FreeStill DEF Reject, gate, history
  <2> QED BY <2>1, <2>2, <1>2, TakeFree DEF Receive
<1>4. CASE \E h \in Handlers : Serve(h)
  <2>1. PICK h \in Handlers : Serve(h)
    BY <1>4
  <2>2. CASE Insert(h) \/ Change(h) \/ (React(h) /\ Op[req[h]] # "Vote")
    BY <2>2, <1>2, WriteFree
  <2>3. CASE GoThrough(h) /\ Op[req[h]] = "Vote"
    BY <2>3, <1>2, VoteFree
  <2>4. CASE SaveCount(h) \/ Reply(h) \/ ReplyUncleared(h)
    BY <2>4, <1>2, SaveFree, ReplyFree
  <2>5. CASE ~(\/ Insert(h) \/ Change(h) \/ (React(h) /\ Op[req[h]] # "Vote")
               \/ (GoThrough(h) /\ Op[req[h]] = "Vote")
               \/ SaveCount(h) \/ Reply(h) \/ ReplyUncleared(h))
    <3>1. Calm(u, k)
      BY <1>2, <2>1, <2>5, CalmSteps DEF Serve
    <3> QED BY <3>1, <1>2, CalmKeeps
  <2> QED BY <2>2, <2>3, <2>4, <2>5
<1>5. CASE Environment
  <2>1. CASE \E v \in Users, l \in Kinds : LapseActs(v, l) \/ Cool(v, l)
    BY <2>1, <1>2, LapseFree
  <2>2. CASE \E c \in Codes : HandOut(c) \/ LapseCode(c)
    BY <2>2, <1>2, FreeStill DEF HandOut, ActionRecord, LapseCode, history
  <2>3. CASE \E r \in Requests : LapseRecord(r)
    BY <2>3, <1>2, FreeStill DEF LapseRecord
  <2> QED BY <1>5, <2>1, <2>2, <2>3 DEF Environment
<1>6. CASE UNCHANGED vars
  BY <1>6, <1>2, FreeStill DEF vars, gate, history
<1> QED BY <1>3, <1>4, <1>5, <1>6 DEF Next

\* A user who does not hurry does no more than the limit without a code.
THEOREM LimitHolds == Spec => []FreeWithinLimit
<1>1. Init => Typed /\ FreeInv
  BY TypedInit, FreeInit
<1>2. Typed /\ FreeInv /\ [Next]_vars => Typed' /\ FreeInv'
  BY TypedStep, FreeStep
<1>3. FreeInv => FreeWithinLimit
  BY DEF FreeInv, FreeAt, FreeWithinLimit
<1> QED BY <1>1, <1>2, <1>3, PTL DEF Spec
=============================================================================
