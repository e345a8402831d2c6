----------------------------- MODULE VoteRank -----------------------------
(***************************************************************************)
(* Voting on questions, answers and comments, and the reputation the      *)
(* votes move: VoteService.VoteUp and VoteDown over VoteRepo.             *)
(*                                                                         *)
(* Every request is served by a goroutine of its own, a handler.  A       *)
(* database statement outside a transaction is one step; a transaction is *)
(* one step too, since it locks the rows of all the users it touches      *)
(* before it reads anything else and is atomic.  Between two steps of a   *)
(* handler every other handler may run.  Posts are objects GetInfo finds  *)
(* and that are not deleted; a post is owned by one author.               *)
(***************************************************************************)
EXTENDS Reputation, FiniteSetsExt

CONSTANTS
  Users, Posts, Handlers,
  Author,        \* Author[p]: the user who created post p
  Kind,          \* Kind[p]: "question", "answer" or "comment"
  Points,        \* Points[kind][side][role]: the configured points of an act
  DailyRankLimit, \* the configuration value daily_rank_limit
  InitialRank,   \* the rank every user starts with
  MaxRequests,   \* bound: how many requests are received in all
  OneAtATime,    \* a user sends no vote on a post while one is being served
  NoRequest,     \* what an idle handler serves
  StatementsFail, \* a statement or the process may fail between two steps
  CountsFail     \* a count of votes may fail, which ends no request

Sides == {"up", "down"}
Roles == {"vote", "voted"}
Kinds == {"question", "answer", "comment"}

ASSUME VoteAssumption ==
  /\ IsFiniteSet(Users)
  /\ Author \in [Posts -> Users]
  /\ Kind \in [Posts -> Kinds]
  /\ Points \in [Kinds -> [Sides -> [Roles -> Int]]]
  /\ DailyRankLimit \in Int
  /\ InitialRank \in Int /\ InitialRank >= 1
  /\ MaxRequests \in Nat
  /\ OneAtATime \in BOOLEAN
  /\ StatementsFail \in BOOLEAN /\ CountsFail \in BOOLEAN
  /\ NoRequest \notin [voter : Users, post : Posts, side : Sides, cancel : BOOLEAN]

VARIABLES
  rank,       \* users.rank
  activity,   \* the activity table: the rows of votes, by their unique key
  voteCount,  \* vote_count of every post
  inbox,      \* inbox[k]: notifications "k.user voted" sent to the author
  received,   \* how many requests have been received
  pc, req,    \* of every handler: its next step, and the request it serves
  seen,       \* of every handler: the activity rows it has read
  tally       \* of every handler: the votes it has counted

tables == <<rank, activity, voteCount, inbox>>
vars == <<rank, activity, voteCount, inbox, received, pc, req, seen, tally>>

-----------------------------------------------------------------------------
(* The rows a vote is made of *)

\* A vote is a "vote" row of the voter and, except on comments, a "voted"
\* row of the author triggered by the voter.
Key == [voter : Users, post : Posts, side : Sides, role : Roles]

VoteKey(u, p, s, r) == [voter |-> u, post |-> p, side |-> s, role |-> r]

KeyUser(k) == IF k.role = "vote" THEN k.voter ELSE Author[k.post]

Opposite(s) == IF s = "up" THEN "down" ELSE "up"

\* A comment knows one kind of vote, whichever button was pressed.
ActSide(p, s) == IF Kind[p] = "comment" THEN "up" ELSE s

ActRoles(p) == IF Kind[p] = "comment" THEN {"vote"} ELSE Roles

Request == [voter : Users, post : Posts, side : Sides, cancel : BOOLEAN]

Steps == {"idle", "readCancel", "readVote", "notify",
          "countUp", "countDown", "save"}

\* Mutant: the vote to cast is the one withdrawn first.
WorkSideNotOpposite(h) == ActSide(req[h].post, req[h].side)

\* The side whose rows handler h is working on: the vote to withdraw, the
\* opposite of the vote to cast, or the vote to cast.
WorkSide(h) ==
  LET r == req[h] IN
  ActSide(r.post, IF pc[h] = "readCancel" /\ ~r.cancel
                    THEN Opposite(r.side) ELSE r.side)

WorkKey(h, role) == VoteKey(req[h].voter, req[h].post, WorkSide(h), role)

WorkRoles(h) == ActRoles(req[h].post)

-----------------------------------------------------------------------------
(* Points *)

\* The points of the rows of u that count and were updated today.
EarnedToday(u) ==
  MapThenSumSet(LAMBDA k : activity[k].rank,
                {k \in Key : /\ KeyUser(k) = u
                             /\ activity[k].st = "live"
                             /\ activity[k].today})

ReachLimit(u) == EarnedToday(u) >= DailyRankLimit

\* Mutant: the daily limit is not applied.
GrantedPointsUnlimited(u, points) ==
  IF points <= 0 /\ rank[u] + points < 1 THEN 1 - rank[u] ELSE points

\* What an act of user u is worth once the daily limit and the floor of 1
\* have been applied to its configured points.
GrantedPoints(u, points) ==
  IF points > 0 THEN IF ReachLimit(u) THEN 0 ELSE points
  ELSE IF rank[u] + points < 1 THEN 1 - rank[u]
  ELSE points

-----------------------------------------------------------------------------
Unread == [st |-> "unread", rank |-> 0, today |-> FALSE]

NothingSeen == [role \in Roles |-> Unread]

Init ==
  /\ rank = [u \in Users |-> InitialRank]
  /\ activity = [k \in Key |-> NoActivity]
  /\ voteCount = [p \in Posts |-> 0]
  /\ inbox = [k \in Key |-> 0]
  /\ received = 0
  /\ pc = [h \in Handlers |-> "idle"]
  /\ req = [h \in Handlers |-> NoRequest]
  /\ seen = [h \in Handlers |-> NothingSeen]
  /\ tally = [h \in Handlers |-> 0]

Busy(h) == pc[h] # "idle"

\* Mutant: an author may vote on a post of their own.
ReceiveOwnPost(h, r) ==
  /\ ~Busy(h)
  /\ received < MaxRequests
  /\ OneAtATime => \A g \in Handlers :
                      Busy(g) => \/ req[g].voter # r.voter
                                 \/ req[g].post # r.post
  /\ received' = received + 1
  /\ req' = [req EXCEPT ![h] = r]
  /\ pc' = [pc EXCEPT ![h] = "readCancel"]
  /\ seen' = [seen EXCEPT ![h] = NothingSeen]
  /\ UNCHANGED <<tables, tally>>

\* A handler takes a vote request; voting on one's own post is refused.
Receive(h, r) ==
  /\ ~Busy(h)
  /\ received < MaxRequests
  /\ r.voter # Author[r.post]
  /\ OneAtATime => \A g \in Handlers :
                      Busy(g) => \/ req[g].voter # r.voter
                                 \/ req[g].post # r.post
  /\ received' = received + 1
  /\ req' = [req EXCEPT ![h] = r]
  /\ pc' = [pc EXCEPT ![h] = "readCancel"]
  /\ seen' = [seen EXCEPT ![h] = NothingSeen]
  /\ UNCHANGED <<tables, tally>>

\* getExistActivity selects the rows of an operation one at a time, outside
\* the transaction that will use them: the vote row, then the voted row.
ReadRow(h, role) ==
  /\ pc[h] \in {"readCancel", "readVote"}
  /\ role \in WorkRoles(h)
  /\ seen[h][role].st = "unread"
  /\ role = "voted" => seen[h]["vote"].st # "unread"
  /\ seen' = [seen EXCEPT ![h][role] = activity[WorkKey(h, role)]]
  /\ UNCHANGED <<tables, received, pc, req, tally>>

SeenAll(h) == \A role \in WorkRoles(h) : seen[h][role].st # "unread"

SeenLive(h, role) == role \in WorkRoles(h) /\ seen[h][role].st = "live"

AfterCancel(h) == IF req[h].cancel THEN "countUp" ELSE "readVote"

\* Nothing to cancel: CancelVote returns before its transaction.
SkipCancel(h) ==
  /\ pc[h] = "readCancel"
  /\ SeenAll(h)
  /\ \A role \in Roles : ~SeenLive(h, role)
  /\ pc' = [pc EXCEPT ![h] = AfterCancel(h)]
  /\ seen' = [seen EXCEPT ![h] = NothingSeen]
  /\ UNCHANGED <<tables, received, req, tally>>

\* Mutant: the configured points are taken back.
RolledBackConfigured(h, role) ==
  LET k == WorkKey(h, role) IN
  IF SeenLive(h, role) /\ activity[k].st # "cancelled"
    THEN -Points[Kind[k.post]][k.side][role] ELSE 0

\* What the rows handler h cancels give back to u.  Only users whose row was
\* seen live are locked and rolled back, by the points that were seen, unless
\* the row is found cancelled by now.
RolledBack(h, role) ==
  IF SeenLive(h, role) /\ activity[WorkKey(h, role)].st # "cancelled"
    THEN -seen[h][role].rank ELSE 0

\* The users of one operation are distinct, so each has at most one row.
Gain(h, u, G(_, _)) ==
  IF u = req[h].voter THEN G(h, "vote")
  ELSE IF u = Author[req[h].post] THEN G(h, "voted")
  ELSE 0

\* Mutant: rows without points are not worth cancelling.
FoundWithPoints(h) ==
  {WorkKey(h, role) : role \in {r \in WorkRoles(h) : /\ seen[h][r].st # "none"
                                                     /\ seen[h][r].rank # 0}}

\* The rows that were read, counting or not.
Found(h) ==
  {WorkKey(h, role) : role \in {r \in WorkRoles(h) : seen[h][r].st # "none"}}

\* The transaction of CancelVote: every row that was read is cancelled.
CancelVote(h) ==
  /\ pc[h] = "readCancel"
  /\ SeenAll(h)
  /\ \E role \in Roles : SeenLive(h, role)
  /\ activity' = [k \in Key |-> IF k \in Found(h) THEN CancelRow(activity[k])
                                                  ELSE activity[k]]
  /\ rank' = [u \in Users |-> ChangeUserRank(rank[u], Gain(h, u, RolledBack))]
  /\ pc' = [pc EXCEPT ![h] = AfterCancel(h)]
  /\ seen' = [seen EXCEPT ![h] = NothingSeen]
  /\ UNCHANGED <<voteCount, inbox, received, req, tally>>

\* votePreCheck finds every row already counting: Vote returns at once.
SkipVote(h) ==
  /\ pc[h] = "readVote"
  /\ SeenAll(h)
  /\ \A role \in WorkRoles(h) : SeenLive(h, role)
  /\ pc' = [pc EXCEPT ![h] = "countUp"]
  /\ UNCHANGED <<tables, received, req, seen, tally>>

\* What a row adds if it is not counting yet.
Granted(h, role) ==
  LET k == WorkKey(h, role) IN
  IF role \in WorkRoles(h) /\ activity[k].st # "live"
    THEN GrantedPoints(KeyUser(k), Points[Kind[k.post]][k.side][role]) ELSE 0

\* Mutant: reviving a cancelled row is announced too.
AnnouncedAgain(h) ==
  /\ \E role \in WorkRoles(h) : activity[WorkKey(h, role)].st # "live"
  /\ Kind[req[h].post] = "comment" => req[h].side = "up"

\* The first vote of a kind is announced to the author; a vote against a
\* comment has no announcement.
Announced(h) ==
  /\ \E role \in WorkRoles(h) : activity[WorkKey(h, role)].st = "none"
  /\ Kind[req[h].post] = "comment" => req[h].side = "up"

\* The transaction of Vote: lock the users, bound the points, insert the rows
\* or revive them, change the ranks.
Vote(h) ==
  /\ pc[h] = "readVote"
  /\ SeenAll(h)
  /\ \E role \in WorkRoles(h) : ~SeenLive(h, role)
  /\ activity' = [k \in Key |->
       IF /\ k.role \in WorkRoles(h)
          /\ k = WorkKey(h, k.role)
          /\ activity[k].st # "live"
         THEN LiveRow(Granted(h, k.role)) ELSE activity[k]]
  /\ rank' = [u \in Users |-> ChangeUserRank(rank[u], Gain(h, u, Granted))]
  /\ pc' = [pc EXCEPT ![h] = IF Announced(h) THEN "notify" ELSE "countUp"]
  /\ UNCHANGED <<voteCount, inbox, received, req, seen, tally>>

\* After the commit, the author is sent the inbox notification.
Notify(h) ==
  /\ pc[h] = "notify"
  /\ inbox' = [inbox EXCEPT ![WorkKey(h, "vote")] = @ + 1]
  /\ pc' = [pc EXCEPT ![h] = "countUp"]
  /\ UNCHANGED <<rank, activity, voteCount, received, req, seen, tally>>

\* Mutant: cancelled votes are counted.
CountVoteCancelled(p, s) ==
  Cardinality({u \in Users : activity[VoteKey(u, p, s, "vote")].st # "none"})

\* How many votes of a side count on a post.
CountVote(p, s) ==
  Cardinality({u \in Users : activity[VoteKey(u, p, s, "vote")].st = "live"})

\* What a count comes to: one that fails is written to the log and taken as 0.
Counts(p, s) == {CountVote(p, s)} \cup (IF CountsFail THEN {0} ELSE {})

\* GetAndSaveVoteResult: count one side, count the other, save the difference.
CountUp(h) ==
  /\ pc[h] = "countUp"
  /\ \E n \in Counts(req[h].post, "up") : tally' = [tally EXCEPT ![h] = n]
  /\ pc' = [pc EXCEPT ![h] = "countDown"]
  /\ UNCHANGED <<tables, received, req, seen>>

CountDown(h) ==
  /\ pc[h] = "countDown"
  /\ \E n \in Counts(req[h].post, "down") : tally' = [tally EXCEPT ![h] = @ - n]
  /\ pc' = [pc EXCEPT ![h] = "save"]
  /\ UNCHANGED <<tables, received, req, seen>>

\* The handler returns and keeps nothing.
Finish(h) ==
  /\ pc' = [pc EXCEPT ![h] = "idle"]
  /\ req' = [req EXCEPT ![h] = NoRequest]
  /\ seen' = [seen EXCEPT ![h] = NothingSeen]
  /\ tally' = [tally EXCEPT ![h] = 0]

UpdateVotes(h) ==
  /\ pc[h] = "save"
  /\ voteCount' = [voteCount EXCEPT ![req[h].post] = tally[h]]
  /\ Finish(h)
  /\ UNCHANGED <<rank, activity, inbox, received>>

\* The request ends early: a statement fails (a transaction is rolled back),
\* the client goes away and its context is cancelled, or the process dies.
Fail(h) ==
  /\ StatementsFail
  /\ Busy(h)
  /\ Finish(h)
  /\ UNCHANGED <<tables, received>>

\* Midnight: no row has been updated today.
NewDay ==
  /\ \E k \in Key : activity[k].today
  /\ activity' = [k \in Key |-> [activity[k] EXCEPT !.today = FALSE]]
  /\ UNCHANGED <<rank, voteCount, inbox, received, pc, req, seen, tally>>

Step(h) ==
  \/ \E role \in Roles : ReadRow(h, role)
  \/ SkipCancel(h) \/ CancelVote(h)
  \/ SkipVote(h) \/ Vote(h) \/ Notify(h)
  \/ CountUp(h) \/ CountDown(h) \/ UpdateVotes(h)

Next ==
  \/ \E h \in Handlers : \/ \E r \in Request : Receive(h, r)
                         \/ Step(h)
                         \/ Fail(h)
  \/ NewDay

Spec == Init /\ [][Next]_vars
FairSpec == Spec /\ \A h \in Handlers : WF_vars(Step(h))

-----------------------------------------------------------------------------
(* Properties *)

\* The types of the tables and of what the handlers keep.
TypeOK ==
  /\ rank \in [Users -> Int]
  /\ activity \in [Key -> ActivityRow]
  /\ voteCount \in [Posts -> Int]
  /\ inbox \in [Key -> Nat]
  /\ received \in 0..MaxRequests
  /\ pc \in [Handlers -> Steps]
  /\ req \in [Handlers -> Request \cup {NoRequest}]
  /\ \A h \in Handlers : Busy(h) => req[h] \in Request
  /\ seen \in [Handlers -> [Roles -> ActivityRow \cup {Unread}]]
  /\ tally \in [Handlers -> Int]

\* However votes interleave, fail or are bounded, the losses of a user and the
\* stale points a cancellation gives back never take a rank below 1: the floor
\* is applied when a loss is granted and again when ranks change.
RankFloor == \A u \in Users : rank[u] >= 1

\* The author hears of a first vote of a kind once: votes that are withdrawn
\* and cast again, or cast by two handlers at a time, revive the row.
AnnouncedOnce == \A k \in Key : inbox[k] <= 1

\* The two rows of a vote count or are cancelled together.
PairedRows ==
  \A u \in Users, p \in Posts, s \in Sides : Kind[p] # "comment" =>
    activity[VoteKey(u, p, s, "vote")].st = activity[VoteKey(u, p, s, "voted")].st

\* What a handler has read of the rows it is about to write still holds when
\* it writes them.
ReadsAreCurrent ==
  \A h \in Handlers : pc[h] \in {"readCancel", "readVote"} =>
    \A role \in WorkRoles(h) : seen[h][role].st # "unread" =>
      LET row == activity[WorkKey(h, role)] IN
      seen[h][role].st = row.st /\ seen[h][role].rank = row.rank

Live(u, p, s) == activity[VoteKey(u, p, s, "vote")].st = "live"

\* Nobody's up and down votes on one post count at the same time.
OneStance ==
  \A u \in Users, p \in Posts : ~(Live(u, p, "up") /\ Live(u, p, "down"))

LivePoints(u) ==
  MapThenSumSet(LAMBDA k : activity[k].rank,
                {k \in Key : KeyUser(k) = u /\ activity[k].st = "live"})

\* A rank always covers what the counting rows say was earned: no award is
\* taken back twice.  (The floor can leave a user with more than that.)
RankCoversRows ==
  ~RankAgentEnabled =>
    \A u \in Users : rank[u] >= InitialRank + LivePoints(u)

\* Once nothing is in flight, vote_count is the votes that count.
VoteCountSettled ==
  (\A h \in Handlers : ~Busy(h)) =>
    \A p \in Posts :
      voteCount[p] = Cardinality({u \in Users : Live(u, p, "up")})
                     - Cardinality({u \in Users : Live(u, p, "down")})

Cancelled(k) == activity[k].st = "live" /\ activity'[k].st = "cancelled"

\* A rank goes up only below the daily limit or by withdrawing a penalty.
DailyLimit ==
  [][\A u \in Users : rank'[u] > rank[u] =>
       \/ ~ReachLimit(u)
       \/ \E k \in Key : KeyUser(k) = u /\ Cancelled(k) /\ activity[k].rank < 0]_vars

\* Cancelling a counting row takes back the points the row holds ("after this
\* function, the activity rank will be correct for update user rank").
RollbackExact ==
  [][\A k \in Key : Cancelled(k) =>
       rank'[KeyUser(k)] = ChangeUserRank(rank[KeyUser(k)], -activity[k].rank)]_vars

Stance(u, p) == IF Live(u, p, "up") THEN "up"
                ELSE IF Live(u, p, "down") THEN "down" ELSE "none"

Casting(u, p, s) ==
  \E h \in Handlers :
    Busy(h) /\ req[h] = [voter |-> u, post |-> p, side |-> s, cancel |-> FALSE]

\* A request that casts a vote leaves the user with that stance, if no
\* statement fails.
VoteTakesEffect ==
  \A u \in Users, p \in Posts, s \in Sides :
    Casting(u, p, s) ~> Stance(u, p) = ActSide(p, s)

Ideal == INSTANCE VoteStance
           WITH stance <- [u \in Users |-> [p \in Posts |-> Stance(u, p)]]

\* Voting with rows, transactions and two sides implements the one stance a
\* user has on a post.
ImplementsStance == Ideal!Spec
=============================================================================
