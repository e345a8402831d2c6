---------------------------- MODULE Contributing ----------------------------
(***************************************************************************)
(* The handlers of what users write, from the arrival of a request to its  *)
(* answer: questions, answers, comments, votes, reports and invitations,   *)
(* behind the gate of RequestGate.  They differ in what they look at       *)
(* before the captcha, in whether a repetition is rejected, and in when,   *)
(* and after which errors, the action is counted.                          *)
(***************************************************************************)
EXTENDS RequestGate, Integers

CONSTANTS
  Handlers,
  Op,          \* Op[r]: what request r is handled by
  Target,      \* Target[r]: the post it is about; 0 for none, or one not kept here
  Moderators,  \* admins and moderators, who may post links, and need no code
  Admins,      \* who need none to edit a comment, and edit and delete those of others
  NoRequest,   \* what an idle handler serves
  MaxPosts,    \* bound: how many posts are stored in all
  MaxArrivals, \* bound: how many requests arrive in all
  MaxFaults    \* bound: how many statements and cache accesses fail in all

Ids == 1 .. MaxPosts

\* These look for their record.
Recorded == {"AddQuestion", "AddAnswer", "AddComment"}
Storing == Recorded \cup {"AddQuestionByAnswer"}
Removing == {"RemoveQuestion", "RemoveAnswer", "RemoveComment"}
Updating == {"UpdateQuestion", "UpdateAnswer", "UpdateComment"}
Reacting == {"Vote", "AddReport", "UpdateQuestionInviteUser"}
Ops == Storing \cup Removing \cup Updating \cup Reacting

\* What an operation is counted as.
ActionOf(o) ==
  CASE o \in {"AddQuestion", "AddQuestionByAnswer"} -> "question"
    [] o = "AddAnswer" -> "answer"
    [] o = "AddComment" -> "comment"
    [] o \in Removing -> "delete"
    [] o \in Updating -> "edit"
    [] o = "Vote" -> "vote"
    [] o = "AddReport" -> "report"
    [] o = "UpdateQuestionInviteUser" -> "invitation"

\* Read before the captcha, and then refused uncounted.
CheckedFirst == Storing \cup Updating \cup {"Vote"}

\* Refused uncounted after the captcha.
CheckedLater == Ops \ {"UpdateComment", "Vote"}

\* Counted only when the service succeeds.
CountedIfDone == {"AddAnswer", "UpdateAnswer", "UpdateQuestion", "UpdateQuestionInviteUser"}

\* The service goes on after the row is written.
Finishing == Storing \cup {"UpdateQuestion", "UpdateAnswer"}

Posting == {r \in Requests : Op[r] \in Recorded}

ASSUME ContributeAssumption ==
  /\ MaxPosts \in Nat /\ MaxArrivals \in Nat /\ MaxFaults \in Nat
  /\ Op \in [Requests -> Ops]
  /\ Kind = [r \in Requests |-> ActionOf(Op[r])]
  /\ Target \in [Requests -> Ids \cup {0}]
  /\ Moderators \subseteq Users /\ Admins \subseteq Moderators
  /\ NoRequest \notin Requests

VARIABLES
  posts,     \* of every post: what it is, whether it is removed, the request it
             \* came from, and the one its text came from
  made,      \* how many posts were stored
  req, pc,   \* of every handler: the request it serves, and its next step
  pass,      \* how its request got past the captcha
  ok,        \* whether its service succeeded so far
  num,       \* the count of actions it read
  arrived, faults,
  tries,     \* history: how often an answer was compared with each code
  free,      \* history: what each user did without a code since the count lapsed
  excused,   \* history: requests whose record was lost, or failed once stored
  abandoned, \* history: requests whose record could not be cleared
  shared,    \* history: codes compared by two handlers at once, or not deleted
  hurried    \* history: user and action, two at once or not counted

table == <<posts, made>>
work == <<req, pc, pass, ok, num>>
bounds == <<arrived, faults>>
history == <<tries, free, excused, abandoned, shared, hurried>>
vars == <<gate, table, work, bounds, history>>

Steps == {"idle", "put", "verify", "burn", "serve", "write", "finish",
          "count", "save", "answer", "reply"}
Passes == {"none", "exempt", "free", "code", "failed"}
Types == {"question", "answer", "comment"}
Rows == [is : Types \cup {"none"}, removed : BOOLEAN,
         from : Requests \cup {NoRequest}, text : Requests \cup {NoRequest}]
NoRow == [is |-> "none", removed |-> FALSE, from |-> NoRequest, text |-> NoRequest]

TypeOK ==
  /\ GateTypeOK
  /\ posts \in [Ids -> Rows] /\ made \in Ids \cup {0}
  /\ req \in [Handlers -> Requests \cup {NoRequest}]
  /\ pc \in [Handlers -> Steps] /\ pass \in [Handlers -> Passes]
  /\ ok \in [Handlers -> BOOLEAN] /\ num \in [Handlers -> Nat]
  /\ arrived \in Nat /\ faults \in Nat
  /\ tries \in [Codes -> Nat] /\ free \in [Users -> [Kinds -> Nat]]
  /\ excused \subseteq Requests /\ abandoned \subseteq Requests
  /\ shared \subseteq Codes /\ hurried \subseteq Users \X Kinds

Init ==
  /\ GateInit
  /\ posts = [i \in Ids |-> NoRow] /\ made = 0
  /\ req = [h \in Handlers |-> NoRequest] /\ pc = [h \in Handlers |-> "idle"]
  /\ pass = [h \in Handlers |-> "none"] /\ ok = [h \in Handlers |-> TRUE]
  /\ num = [h \in Handlers |-> 0]
  /\ arrived = 0 /\ faults = 0
  /\ tries = [c \in Codes |-> 0]
  /\ free = [u \in Users |-> [k \in Kinds |-> 0]]
  /\ excused = {} /\ abandoned = {} /\ shared = {} /\ hurried = {}

-----------------------------------------------------------------------------
(* Helpers *)

Counted(r) == <<By[r], Kind[r]>>

Exempt(r) == By[r] \in IF Op[r] = "UpdateComment" THEN Admins ELSE Moderators

Busy(h) == pc[h] # "idle"

Posted(r) == \E i \in Ids : posts[i].is # "none" /\ posts[i].from = r

\* What the target of an operation must be, where a post kept here is meant.
TargetOf(o) ==
  CASE o \in {"RemoveQuestion", "UpdateQuestion", "UpdateQuestionInviteUser", "AddAnswer"} ->
         "question"
    [] o \in {"RemoveAnswer", "UpdateAnswer"} -> "answer"
    [] OTHER -> "comment"

Found(r) == Target[r] \in Ids /\ posts[Target[r]].is = TargetOf(Op[r])

Live(r) == Found(r) /\ ~posts[Target[r]].removed

Own(r) == By[posts[Target[r]].from] = By[r]

At(h, step) == pc[h] = step

Go(h, step) == pc' = [pc EXCEPT ![h] = step]

\* A statement or an access to the cache fails.
Fault == faults < MaxFaults /\ faults' = faults + 1

\* The request is refused, or its service has failed.
GiveUp(h, step) == Go(h, step) /\ ok' = [ok EXCEPT ![h] = FALSE]

\* A vote is counted before it is served.
AfterPass(r) == IF Op[r] = "Vote" THEN "count" ELSE "serve"

\* A service that fails is counted nevertheless, or the error is answered at once.
AfterError(r) == IF Op[r] \in CountedIfDone \cup {"Vote"} THEN "reply" ELSE "count"

\* A question refused over its form is answered at once too.
AfterRefusal(r) == IF Op[r] = "AddQuestion" THEN {"count", "reply"} ELSE {AfterError(r)}

\* A question with an answer is counted between the two.
AfterCount(h) ==
  CASE Op[req[h]] = "Vote" -> "serve"
    [] Op[req[h]] = "AddQuestionByAnswer" /\ ok[h] -> "answer"
    [] OTHER -> "reply"

-----------------------------------------------------------------------------
(* A request arrives, unless it is a repetition *)

Take(h, r, step) ==
  /\ At(h, "idle") /\ arrived < MaxArrivals
  /\ arrived' = arrived + 1
  /\ req' = [req EXCEPT ![h] = r]
  /\ Go(h, step)
  /\ hurried' = IF \E g \in Handlers : Busy(g) /\ Counted(req[g]) = Counted(r)
                THEN hurried \cup {Counted(r)} ELSE hurried
  /\ UNCHANGED <<table, gate, pass, ok, num, tries, free, abandoned, shared>>

\* Only the requests to add look for their record.
Arrive(h, r) ==
  /\ r \in Posting => r \notin record
  /\ Take(h, r, IF r \in Posting THEN "put" ELSE "verify")
  /\ UNCHANGED <<faults, excused>>

\* The cache cannot be read or written: the request is served unrecorded.
ArriveUnrecorded(h, r) ==
  /\ r \in Posting /\ Fault
  /\ Take(h, r, "verify")
  /\ excused' = excused \cup {r}

\* Mutant: the record is cleared for a repetition as for any refused request.
RejectAndClear(r) ==
  /\ r \in Posting \cap record /\ arrived < MaxArrivals
  /\ arrived' = arrived + 1
  /\ Clear(r)
  /\ UNCHANGED <<acts, code, table, work, faults, history>>

\* A repetition is answered at once, and leaves the record as it is.
Reject(r) ==
  /\ r \in Posting \cap record /\ arrived < MaxArrivals
  /\ arrived' = arrived + 1
  /\ UNCHANGED <<gate, table, work, faults, history>>

\* Two handlers that both looked before either wrote are both let in.
Record(h) ==
  /\ At(h, "put")
  /\ Put(req[h]) /\ Go(h, "verify")
  /\ excused' = IF req[h] \in record THEN excused \cup {req[h]} ELSE excused
  /\ UNCHANGED <<acts, code, table, req, pass, ok, num, bounds,
                 tries, free, abandoned, shared, hurried>>

-----------------------------------------------------------------------------
(* The captcha *)

Forbid(h) ==
  /\ At(h, "verify") /\ Op[req[h]] \in CheckedFirst
  /\ GiveUp(h, "reply")
  /\ UNCHANGED <<gate, table, req, pass, num, bounds, history>>

\* Request r is done, if it needed no code although others do.
Tally(r, way) ==
  free' = IF way = "free"
          THEN [free EXCEPT ![By[r]][Kind[r]] = free[By[r]][Kind[r]] + 1] ELSE free

\* A vote that is let through is taken as done, since it is counted next.
GoThrough(h) ==
  LET r == req[h]  way == IF Exempt(r) THEN "exempt" ELSE "free" IN
  /\ At(h, "verify")
  /\ Exempt(r) \/ MayPass(By[r], Kind[r])
  /\ pass' = [pass EXCEPT ![h] = way]
  /\ IF Op[r] = "Vote" THEN Tally(r, way) ELSE UNCHANGED free
  /\ Go(h, AfterPass(r))
  /\ UNCHANGED <<gate, table, req, ok, num, bounds,
                 tries, excused, abandoned, shared, hurried>>

Verify(h) ==
  LET r == req[h] IN
  /\ At(h, "verify")
  /\ ~Exempt(r) /\ ~MayPass(By[r], Kind[r])
  /\ pass' = [pass EXCEPT ![h] = IF Solved(r) THEN "code" ELSE "failed"]
  /\ tries' = [c \in Codes |-> IF c = Code[r] /\ Compared(r) THEN tries[c] + 1
                               ELSE tries[c]]
  /\ shared' = IF Compared(r) /\ \E g \in Handlers : At(g, "burn")
                                                     /\ Code[req[g]] = Code[r]
               THEN shared \cup {Code[r]} ELSE shared
  /\ Go(h, "burn")
  /\ UNCHANGED <<gate, table, req, ok, num, bounds, free, excused, abandoned, hurried>>

Judge(h) ==
  IF pass[h] = "code" THEN Go(h, AfterPass(req[h])) /\ UNCHANGED ok ELSE GiveUp(h, "reply")

TakeBack(h) ==
  /\ At(h, "burn")
  /\ Burn(req[h]) /\ Judge(h)
  /\ UNCHANGED <<record, acts, table, req, pass, num, bounds, history>>

\* The error of the deletion is ignored.
TakeBackFails(h) ==
  /\ At(h, "burn") /\ Code[req[h]] \in Codes /\ Fault
  /\ shared' = shared \cup {Code[req[h]]}
  /\ Judge(h)
  /\ UNCHANGED <<gate, table, req, pass, num, arrived,
                 tries, free, excused, abandoned, hurried>>

-----------------------------------------------------------------------------
(* The service *)

\* Permissions, new tags, and the restriction to one answer each.
Unable(h) ==
  /\ At(h, "serve") /\ Op[req[h]] \in CheckedLater
  /\ GiveUp(h, "reply")
  /\ UNCHANGED <<gate, table, req, pass, num, bounds, history>>

\* What the service reads allows the request.  Open is what this module does not
\* keep: whether the post above is there, an edit waits, votes forbid a deletion.
Served(r, open, late) ==
  LET o == Op[r] IN
  CASE o \in {"AddQuestion", "AddQuestionByAnswer", "Vote", "AddReport"} -> open
    [] o \in {"AddAnswer", "AddComment"} -> open /\ (Target[r] = 0 \/ Live(r))
    [] o = "RemoveComment" -> TRUE
    [] o = "RemoveAnswer" -> By[r] \in Moderators \/ (Own(r) /\ open)
    [] o = "RemoveQuestion" -> By[r] \in Admins \/ (Own(r) /\ open)
    [] o = "UpdateComment" -> Live(r) /\ (By[r] \in Admins \/ (Own(r) /\ ~late))
    [] o \in {"UpdateQuestion", "UpdateAnswer"} -> Live(r) /\ open
    [] o = "UpdateQuestionInviteUser" -> Found(r)

\* What is to be removed is gone already, what is to be edited was never there.
Missing(r) ==
  \/ Op[r] \in {"RemoveQuestion", "RemoveAnswer"} /\ ~Live(r)
  \/ Op[r] = "UpdateQuestion" /\ ~Found(r)

\* Posts are closed and recovered, and time passes, outside this module.
Look(h) ==
  /\ At(h, "serve") /\ ~Missing(req[h])
  /\ \E open, late \in BOOLEAN :
       IF Served(req[h], open, late) THEN Go(h, "write") /\ UNCHANGED ok
       ELSE \E step \in AfterRefusal(req[h]) : GiveUp(h, step)
  /\ UNCHANGED <<gate, table, req, pass, num, bounds, history>>

\* There is nothing to do, or the new text is the old one: the service succeeds.
Skip(h) ==
  LET r == req[h] IN
  /\ At(h, "serve")
  /\ Missing(r) \/ (Op[r] \in {"UpdateQuestion", "UpdateAnswer"} /\ Live(r))
  /\ Go(h, "count")
  /\ UNCHANGED <<gate, table, req, pass, ok, num, bounds, history>>

\* A statement of the service fails, at the latest the one that writes.
ServiceFails(h) ==
  /\ At(h, "serve") \/ At(h, "write")
  /\ Fault
  /\ GiveUp(h, AfterError(req[h]))
  /\ UNCHANGED <<gate, table, req, pass, num, arrived, history>>

Store(h, type) ==
  /\ made < MaxPosts
  /\ made' = made + 1
  /\ posts' = [posts EXCEPT ![made + 1] =
       [is |-> type, removed |-> FALSE, from |-> req[h], text |-> req[h]]]

Insert(h) ==
  /\ At(h, "write") /\ Op[req[h]] \in Storing
  /\ Store(h, ActionOf(Op[req[h]]))
  /\ Tally(req[h], pass[h])
  /\ Go(h, "finish")
  /\ UNCHANGED <<gate, req, pass, ok, num, bounds,
                 tries, excused, abandoned, shared, hurried>>

\* The row is found by its id alone; what is not there is not written.
Removed(row) == [is |-> row.is, removed |-> TRUE, from |-> row.from, text |-> row.text]

Reworded(r, row) == [is |-> row.is, removed |-> row.removed, from |-> row.from, text |-> r]

\* An edit of a question or an answer that waits for its review leaves the row.
Changed(r, row) ==
  CASE Op[r] \in Removing -> {Removed(row)}
    [] Op[r] = "UpdateComment" -> {Reworded(r, row)}
    [] Op[r] \in {"UpdateQuestion", "UpdateAnswer"} -> {row, Reworded(r, row)}

Change(h) ==
  LET r == req[h]  i == Target[r] IN
  /\ At(h, "write") /\ Op[r] \in Removing \cup Updating
  /\ \/ Found(r) /\ \E row \in Changed(r, posts[i]) : posts' = [posts EXCEPT ![i] = row]
     \/ ~Found(r) /\ UNCHANGED posts
  /\ Tally(r, pass[h])
  /\ Go(h, IF Op[r] \in Finishing THEN "finish" ELSE "count")
  /\ UNCHANGED <<gate, made, req, pass, ok, num, bounds,
                 tries, excused, abandoned, shared, hurried>>

\* The rows of votes, reports and invitations are in tables of their own.
React(h) ==
  LET r == req[h] IN
  /\ At(h, "write") /\ Op[r] \in Reacting
  /\ IF Op[r] = "Vote" THEN UNCHANGED free ELSE Tally(r, pass[h])
  /\ Go(h, IF Op[r] = "Vote" THEN "reply" ELSE "count")
  /\ UNCHANGED <<gate, table, req, pass, ok, num, bounds,
                 tries, excused, abandoned, shared, hurried>>

\* Reviews, tags, revisions, counts and messages follow, in other modules.
Finish(h) ==
  /\ At(h, "finish")
  /\ Go(h, "count")
  /\ UNCHANGED <<gate, table, req, pass, ok, num, bounds, history>>

\* The post is stored, and the user is answered that it failed.
FinishFails(h) ==
  LET r == req[h] IN
  /\ At(h, "finish") /\ Fault
  /\ excused' = excused \cup {r}
  /\ hurried' = IF AfterError(r) = "reply" THEN hurried \cup {Counted(r)} ELSE hurried
  /\ GiveUp(h, AfterError(r))
  /\ UNCHANGED <<gate, table, req, pass, num, arrived,
                 tries, free, abandoned, shared>>

-----------------------------------------------------------------------------
(* The action is counted, and the request answered *)

ReadCount(h) ==
  LET r == req[h] IN
  /\ At(h, "count")
  /\ IF pass[h] = "exempt" THEN Go(h, AfterCount(h)) /\ UNCHANGED num
     ELSE Go(h, "save") /\ num' = [num EXCEPT ![h] = acts[By[r]][Kind[r]].num]
  /\ UNCHANGED <<gate, table, req, pass, ok, bounds, history>>

SaveCount(h) ==
  /\ At(h, "save")
  /\ Bump(req[h], num[h]) /\ Go(h, AfterCount(h))
  /\ UNCHANGED <<record, code, table, req, pass, ok, num, bounds, history>>

CountFails(h) ==
  /\ pass[h] # "exempt"
  /\ At(h, "count") \/ At(h, "save")
  /\ Fault /\ Go(h, AfterCount(h))
  /\ hurried' = hurried \cup {Counted(req[h])}
  /\ UNCHANGED <<gate, table, req, pass, ok, num, arrived,
                 tries, free, excused, abandoned, shared>>

\* The answer that came with the question; nobody looks whether the rest succeeds.
InsertAnswer(h) ==
  /\ At(h, "answer")
  /\ Store(h, "answer") /\ Go(h, "reply")
  /\ UNCHANGED <<gate, req, pass, ok, num, bounds, history>>

\* The question was closed or removed meanwhile, or a statement failed.
AnswerFails(h) ==
  /\ At(h, "answer")
  /\ GiveUp(h, "reply")
  /\ UNCHANGED <<gate, table, req, pass, num, bounds, history>>

\* An answer that is stored and counted is read again for the reply, in vain.
ReadBackFails(h) ==
  /\ At(h, "reply") /\ Op[req[h]] = "AddAnswer" /\ ok[h] /\ Fault
  /\ ok' = [ok EXCEPT ![h] = FALSE]
  /\ excused' = excused \cup {req[h]}
  /\ UNCHANGED <<gate, table, req, pc, pass, num, arrived,
                 tries, free, abandoned, shared, hurried>>

Rest(h) ==
  /\ Go(h, "idle")
  /\ req' = [req EXCEPT ![h] = NoRequest]
  /\ pass' = [pass EXCEPT ![h] = "none"]
  /\ ok' = [ok EXCEPT ![h] = TRUE]
  /\ num' = [num EXCEPT ![h] = 0]

Failed(h) == req[h] \in Posting /\ ~ok[h]

\* Mutant: a request that failed the captcha stays recorded.
ReplyKeepsFailed(h) ==
  /\ At(h, "reply") /\ Rest(h)
  /\ IF Failed(h) /\ pass[h] # "failed" THEN Clear(req[h]) ELSE UNCHANGED record
  /\ UNCHANGED <<acts, code, table, bounds, history>>

\* An addition that is answered with an error may be sent again.
Reply(h) ==
  /\ At(h, "reply") /\ Rest(h)
  /\ IF Failed(h) THEN Clear(req[h]) ELSE UNCHANGED record
  /\ UNCHANGED <<acts, code, table, bounds, history>>

\* The error of the deletion is logged only.
ReplyUncleared(h) ==
  /\ At(h, "reply") /\ Failed(h) /\ Fault /\ Rest(h)
  /\ abandoned' = abandoned \cup {req[h]}
  /\ UNCHANGED <<gate, table, arrived, tries, free, excused, shared, hurried>>

-----------------------------------------------------------------------------
(* What else happens *)

HandOut(c) == ActionRecord(c) /\ UNCHANGED <<table, work, bounds, history>>

\* Five minutes pass for a record, or it is lost.
LapseRecord(r) ==
  /\ r \in record /\ Clear(r)
  /\ excused' = IF Posted(r) \/ \E h \in Handlers : req[h] = r
                THEN excused \cup {r} ELSE excused
  /\ UNCHANGED <<acts, code, table, work, bounds,
                 tries, free, abandoned, shared, hurried>>

\* Six minutes pass for a count since it was saved, or the day ends.
LapseActs(u, k) ==
  /\ acts[u][k].num # 0
  /\ acts' = [acts EXCEPT ![u][k] = NoActs]
  /\ free' = [free EXCEPT ![u][k] = 0]
  /\ UNCHANGED <<record, code, table, work, bounds,
                 tries, excused, abandoned, shared, hurried>>

\* Six minutes pass for a code.
LapseCode(c) ==
  /\ code[c] = "live"
  /\ code' = [code EXCEPT ![c] = "used"]
  /\ UNCHANGED <<record, acts, table, work, bounds, history>>

\* The last action is no longer just now.
Cool(u, k) ==
  /\ k \in Spaced /\ acts[u][k].recent
  /\ acts' = [acts EXCEPT ![u][k] = [num |-> acts[u][k].num, recent |-> FALSE]]
  /\ UNCHANGED <<record, code, table, work, bounds, history>>

-----------------------------------------------------------------------------

Serve(h) ==
  \/ Record(h) \/ Forbid(h) \/ GoThrough(h) \/ Verify(h)
  \/ TakeBack(h) \/ TakeBackFails(h)
  \/ Unable(h) \/ Look(h) \/ Skip(h) \/ ServiceFails(h)
  \/ Insert(h) \/ Change(h) \/ React(h) \/ Finish(h) \/ FinishFails(h)
  \/ ReadCount(h) \/ SaveCount(h) \/ CountFails(h)
  \/ InsertAnswer(h) \/ AnswerFails(h) \/ ReadBackFails(h)
  \/ Reply(h) \/ ReplyUncleared(h)

Receive(r) ==
  \/ Reject(r)
  \/ \E h \in Handlers : Arrive(h, r) \/ ArriveUnrecorded(h, r)

Environment ==
  \/ \E c \in Codes : HandOut(c) \/ LapseCode(c)
  \/ \E r \in Requests : LapseRecord(r)
  \/ \E u \in Users, k \in Kinds : LapseActs(u, k) \/ Cool(u, k)

Next ==
  \/ \E r \in Requests : Receive(r)
  \/ \E h \in Handlers : Serve(h)
  \/ Environment

Spec == Init /\ [][Next]_vars

-----------------------------------------------------------------------------
(* Properties *)

\* A request to add a question, an answer or a comment that is sent twice stores
\* one, as long as its record stands (question_controller.go:359,
\* rate_limit.go:47-66).  Two that look at the same time, a record that is lost
\* or could not be written, and an error after the post was stored are excused.
PostedOnce ==
  \A i, j \in Ids :
    /\ posts[i].is # "none" /\ posts[j].is # "none"
    /\ posts[i].from = posts[j].from
    /\ posts[i].from \in Posting \ excused
    => i = j

\* A request is only rejected as a repetition while the first one is being
\* served or after it stored its post: one that failed may be sent again
\* (answer_controller.go:202-207).
RetryAllowed ==
  \A r \in record :
    \/ Posted(r) \/ r \in abandoned
    \/ \E h \in Handlers : req[h] = r

\* A user who sends one request after another does no more than the limit
\* without a code, until the count lapses (captcha_strategy.go:103-228,
\* captcha_service.go:109-124): whatever the order in which a handler serves and
\* counts, what was done is counted before the count is looked at again.  An
\* answer or an edit that fails once it is written is not counted, and left out.
FreeWithinLimit ==
  \A u \in Users, k \in Kinds :
    <<u, k>> \notin hurried => free[u][k] <= Limit[k]

\* An answer is compared with a code once, right or wrong
\* (captcha_service.go:153-163); handlers that both read the code before
\* either deleted it, and a deletion that failed, are left out.
CodeTriedOnce == \A c \in Codes \ shared : tries[c] <= 1
=============================================================================
