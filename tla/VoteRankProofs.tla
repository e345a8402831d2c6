-------------------------- MODULE VoteRankProofs --------------------------
(***************************************************************************)
(* Theorems about VoteRank, for every set of users, posts and handlers,   *)
(* every table of points and every daily limit.                           *)
(***************************************************************************)
EXTENDS VoteRank, FiniteSetTheorems, TLAPS

(* Reputation never falls below 1: ChangeUserRank keeps a rank an integer, *)
(* and keeps it at least 1 whatever is added or taken.                     *)
LEMMA ChangeUserRankFloor ==
  ASSUME NEW current \in Int, NEW delta \in Int
  PROVE  /\ ChangeUserRank(current, delta) \in Int
         /\ current >= 1 => ChangeUserRank(current, delta) >= 1
BY DEF ChangeUserRank

LEMMA WorkKeyTyped ==
  ASSUME TypeOK, NEW h \in Handlers, Busy(h), NEW role \in WorkRoles(h)
  PROVE  WorkKey(h, role) \in Key /\ role \in Roles
<1>1. req[h] \in Request
  BY DEF TypeOK
<1>2. WorkSide(h) \in Sides
  BY <1>1 DEF WorkSide, ActSide, Opposite, Sides, Request
<1>3. role \in Roles
  BY DEF WorkRoles, ActRoles, Roles
<1> QED
  BY <1>1, <1>2, <1>3 DEF WorkKey, VoteKey, Key, Request

(* The rows of the table stay rows when they are cancelled or (re)counted. *)
LEMMA RowsTyped ==
  ASSUME NEW row \in ActivityRow, NEW points \in Int
  PROVE  /\ CancelRow(row) \in ActivityRow
         /\ LiveRow(points) \in ActivityRow
         /\ [row EXCEPT !.today = FALSE] \in ActivityRow
BY DEF ActivityRow, CancelRow, LiveRow, RowStates

LEMMA GrantedTyped ==
  ASSUME TypeOK, NEW h \in Handlers, Busy(h), NEW role \in Roles
  PROVE  Granted(h, role) \in Int
<1>1. CASE role \in WorkRoles(h)
  <2> DEFINE k == WorkKey(h, role)
  <2>1. k \in Key
    BY <1>1, WorkKeyTyped
  <2>2. KeyUser(k) \in Users
    BY <2>1, VoteAssumption DEF Key, KeyUser
  <2>3. Points[Kind[k.post]][k.side][role] \in Int
    BY <2>1, VoteAssumption DEF Key
  <2>4. GrantedPoints(KeyUser(k), Points[Kind[k.post]][k.side][role]) \in Int
    BY <2>2, <2>3 DEF GrantedPoints, TypeOK
  <2> QED
    BY <2>4 DEF Granted
<1>2. CASE role \notin WorkRoles(h)
  BY <1>2 DEF Granted
<1> QED
  BY <1>1, <1>2

LEMMA CountVoteTyped == \A p, s : CountVote(p, s) \in Int
<1> SUFFICES ASSUME NEW p, NEW s PROVE CountVote(p, s) \in Int
  OBVIOUS
<1> DEFINE Voters == {u \in Users : activity[VoteKey(u, p, s, "vote")].st = "live"}
<1>1. IsFiniteSet(Voters)
  BY VoteAssumption, FS_Subset
<1> QED
  BY <1>1, FS_CardinalityType DEF CountVote

LEMMA RolledBackTyped ==
  ASSUME TypeOK, NEW h \in Handlers, NEW role \in Roles
  PROVE  RolledBack(h, role) \in Int
<1>1. seen[h][role].rank \in Int
  BY DEF TypeOK, ActivityRow, Unread
<1> QED
  BY <1>1 DEF RolledBack

(***************************************************************************)
(* Type correctness and the floor of 1, together: the floor needs to know *)
(* that every amount granted or rolled back is an integer.                *)
(***************************************************************************)
TypedFloor == TypeOK /\ RankFloor

LEMMA InitTypedFloor == Init => TypedFloor
<1> SUFFICES ASSUME Init PROVE TypedFloor
  OBVIOUS
<1>1. NoActivity \in ActivityRow
  BY DEF NoActivity, ActivityRow, RowStates
<1> QED
  BY <1>1, VoteAssumption
  DEF Init, TypedFloor, TypeOK, RankFloor, NothingSeen, Busy, Steps

LEMMA StepTypedFloor == TypedFloor /\ [Next]_vars => TypedFloor'
<1> SUFFICES ASSUME TypeOK, RankFloor, [Next]_vars PROVE TypeOK' /\ RankFloor'
  BY DEF TypedFloor
<1> USE VoteAssumption
<1>1. ASSUME NEW h \in Handlers, NEW r \in Request, Receive(h, r)
      PROVE  TypeOK' /\ RankFloor'
  BY <1>1 DEF Receive, Busy, TypeOK, RankFloor, tables, NothingSeen, Steps
<1>2. ASSUME NEW h \in Handlers, NEW role \in Roles, ReadRow(h, role)
      PROVE  TypeOK' /\ RankFloor'
  <2>1. WorkKey(h, role) \in Key
    BY <1>2, WorkKeyTyped DEF ReadRow, Busy
  <2> QED
    BY <1>2, <2>1 DEF ReadRow, Busy, TypeOK, RankFloor, tables
<1>3. ASSUME NEW h \in Handlers, SkipCancel(h)
      PROVE  TypeOK' /\ RankFloor'
  BY <1>3 DEF SkipCancel, AfterCancel, Busy, TypeOK, RankFloor, tables,
              NothingSeen, Steps
<1>4. ASSUME NEW h \in Handlers, CancelVote(h)
      PROVE  TypeOK' /\ RankFloor'
  <2>1. \A u \in Users : Gain(h, u, RolledBack) \in Int
    BY RolledBackTyped DEF Gain, Roles
  <2>2. rank' \in [Users -> Int] /\ RankFloor'
    BY <1>4, <2>1, ChangeUserRankFloor DEF CancelVote, TypeOK, RankFloor
  <2>3. activity' \in [Key -> ActivityRow]
    BY <1>4, RowsTyped DEF CancelVote, TypeOK
  <2> QED
    BY <1>4, <2>2, <2>3 DEF CancelVote, AfterCancel, Busy, TypeOK,
                            NothingSeen, Steps
<1>5. ASSUME NEW h \in Handlers, SkipVote(h)
      PROVE  TypeOK' /\ RankFloor'
  BY <1>5 DEF SkipVote, Busy, TypeOK, RankFloor, tables, Steps
<1>6. ASSUME NEW h \in Handlers, Vote(h)
      PROVE  TypeOK' /\ RankFloor'
  <2>1. Busy(h)
    BY <1>6 DEF Vote, Busy
  <2>2. \A u \in Users : Gain(h, u, Granted) \in Int
    BY <2>1, GrantedTyped DEF Gain, Roles
  <2>3. rank' \in [Users -> Int] /\ RankFloor'
    BY <1>6, <2>2, ChangeUserRankFloor DEF Vote, TypeOK, RankFloor
  <2>4. activity' \in [Key -> ActivityRow]
    BY <1>6, <2>1, RowsTyped, GrantedTyped DEF Vote, TypeOK, Key
  <2> QED
    BY <1>6, <2>3, <2>4 DEF Vote, Busy, TypeOK, Steps
<1>7. ASSUME NEW h \in Handlers, Notify(h)
      PROVE  TypeOK' /\ RankFloor'
  <2>1. "vote" \in WorkRoles(h) /\ Busy(h)
    BY <1>7 DEF Notify, Busy, WorkRoles, ActRoles, Roles
  <2>2. WorkKey(h, "vote") \in Key
    BY <2>1, WorkKeyTyped
  <2> QED
    BY <1>7, <2>2 DEF Notify, Busy, TypeOK, RankFloor, Steps
<1>8. ASSUME NEW h \in Handlers, CountUp(h) \/ CountDown(h)
      PROVE  TypeOK' /\ RankFloor'
  <2>1. \A p, s : Counts(p, s) \subseteq Int
    BY CountVoteTyped DEF Counts
  <2> QED
    BY <1>8, <2>1 DEF CountUp, CountDown, Busy, TypeOK, RankFloor, tables, Steps
<1>9. ASSUME NEW h \in Handlers, UpdateVotes(h) \/ Fail(h)
      PROVE  TypeOK' /\ RankFloor'
  <2>1. Finish(h) /\ UNCHANGED <<rank, activity, inbox, received>>
    BY <1>9 DEF UpdateVotes, Fail, tables
  <2>2. voteCount' \in [Posts -> Int]
    BY <1>9 DEF UpdateVotes, Fail, tables, TypeOK
  <2> QED
    BY <2>1, <2>2 DEF Finish, Busy, TypeOK, RankFloor, NothingSeen, Steps
<1>10. ASSUME NewDay
       PROVE  TypeOK' /\ RankFloor'
  BY <1>10, RowsTyped DEF NewDay, Busy, TypeOK, RankFloor
<1>11. ASSUME UNCHANGED vars
       PROVE  TypeOK' /\ RankFloor'
  BY <1>11 DEF vars, Busy, TypeOK, RankFloor
<1> QED
  BY <1>1, <1>2, <1>3, <1>4, <1>5, <1>6, <1>7, <1>8, <1>9, <1>10, <1>11
  DEF Next, Step

(* The tables and the handlers' local state are always well typed.         *)
THEOREM TypeCorrect == Spec => []TypeOK
<1>1. TypedFloor => TypeOK
  BY DEF TypedFloor
<1> QED
  BY InitTypedFloor, StepTypedFloor, <1>1, PTL DEF Spec

(* No interleaving of votes, withdrawals, failures and days takes a user's *)
(* rank below 1.                                                           *)
THEOREM RankNeverBelowOne == Spec => []RankFloor
<1>1. TypedFloor => RankFloor
  BY DEF TypedFloor
<1> QED
  BY InitTypedFloor, StepTypedFloor, <1>1, PTL DEF Spec

-----------------------------------------------------------------------------
(***************************************************************************)
(* One stance per user and post.  A handler checks the rows it has read,  *)
(* not the rows its transaction finds, so the invariant says that with    *)
(* one vote per user and post in flight the two are the same, and that a  *)
(* handler that is about to cast a vote has withdrawn the opposite one.   *)
(***************************************************************************)
Exclusive ==
  \A g, h \in Handlers : (g # h /\ Busy(g) /\ Busy(h)) =>
    req[g].voter # req[h].voter \/ req[g].post # req[h].post

NotOwnPost ==
  \A h \in Handlers : Busy(h) => req[h].voter # Author[req[h].post]

OppositeWithdrawn ==
  \A h \in Handlers : (pc[h] = "readVote" /\ Kind[req[h].post] # "comment") =>
    ~Live(req[h].voter, req[h].post, Opposite(req[h].side))

CommentsOnlyUp ==
  \A u \in Users, p \in Posts : Kind[p] = "comment" => ~Live(u, p, "down")

StanceInv ==
  /\ Exclusive
  /\ NotOwnPost
  /\ ReadsAreCurrent
  /\ OppositeWithdrawn
  /\ CommentsOnlyUp
  /\ OneStance

Working(h) == pc[h] \in {"readCancel", "readVote"}

Current(h, role) ==
  seen[h][role].st # "unread" =>
    /\ seen[h][role].st = activity[WorkKey(h, role)].st
    /\ seen[h][role].rank = activity[WorkKey(h, role)].rank

(* A step of one handler leaves alone what the others work on.             *)
LEMMA OtherWork ==
  ASSUME NEW g \in Handlers, pc'[g] = pc[g], req'[g] = req[g]
  PROVE  /\ WorkSide(g)' = WorkSide(g)
         /\ WorkRoles(g)' = WorkRoles(g)
         /\ \A role : WorkKey(g, role)' = WorkKey(g, role)
BY DEF WorkSide, WorkRoles, WorkKey

LEMMA InitStanceInv == Init => StanceInv
<1> SUFFICES ASSUME Init PROVE StanceInv
  OBVIOUS
<1>1. \A h \in Handlers : pc[h] = "idle"
  BY DEF Init
<1>2. \A u \in Users, p \in Posts, s \in Sides : ~Live(u, p, s)
  BY DEF Init, Live, VoteKey, Key, NoActivity, Roles
<1> QED
  BY <1>1, <1>2 DEF StanceInv, Exclusive, NotOwnPost, ReadsAreCurrent,
                    OppositeWithdrawn, CommentsOnlyUp, OneStance, Busy, Sides

(* The steps that change no row's state or points.                         *)
LEMMA QuietStep ==
  ASSUME \A k \in Key : /\ activity'[k].st = activity[k].st
                         /\ activity'[k].rank = activity[k].rank
  PROVE  /\ \A u \in Users, p \in Posts, s \in Sides : Live(u, p, s)' = Live(u, p, s)
         /\ CommentsOnlyUp => CommentsOnlyUp'
         /\ OneStance => OneStance'
<1>1. \A u \in Users, p \in Posts, s \in Sides : Live(u, p, s)' = Live(u, p, s)
  BY DEF Live, VoteKey, Key, Roles
<1> QED
  BY <1>1 DEF CommentsOnlyUp, OneStance, Sides

(* Handlers that go on serving what they serve stay apart.                *)
LEMMA RequestsStayExclusive ==
  ASSUME Exclusive, NotOwnPost,
         \A g \in Handlers : Busy(g)' => Busy(g) /\ req'[g] = req[g]
  PROVE  Exclusive' /\ NotOwnPost'
<1>1. ASSUME NEW g \in Handlers, NEW h \in Handlers, g # h, Busy(g)', Busy(h)'
      PROVE  req'[g].voter # req'[h].voter \/ req'[g].post # req'[h].post
  <2>1. Busy(g) /\ Busy(h) /\ req'[g] = req[g] /\ req'[h] = req[h]
    BY <1>1
  <2>2. req[g].voter # req[h].voter \/ req[g].post # req[h].post
    BY <1>1, <2>1 DEF Exclusive
  <2> QED
    BY <2>1, <2>2
<1>2. ASSUME NEW h \in Handlers, Busy(h)'
      PROVE  req'[h].voter # Author[req'[h].post]
  BY <1>2 DEF NotOwnPost
<1> QED
  BY <1>1, <1>2 DEF Exclusive, NotOwnPost

(* The rows a transaction of handler h writes are all of its voter and     *)
(* post, so the others' reads stay current.                                *)
LEMMA OthersStayCurrent ==
  ASSUME TypeOK, StanceInv, OneAtATime, NEW h \in Handlers, Busy(h),
         \A k \in Key : (k.voter # req[h].voter \/ k.post # req[h].post) =>
                          activity'[k] = activity[k],
         NEW g \in Handlers, g # h, Working(g),
         pc'[g] = pc[g], req'[g] = req[g], seen'[g] = seen[g],
         NEW role \in WorkRoles(g)
  PROVE  Current(g, role)'
<1>1. Busy(g)
  BY DEF Working, Busy
<1>2. WorkKey(g, role) \in Key
  BY <1>1, WorkKeyTyped
<1>3. req[g].voter # req[h].voter \/ req[g].post # req[h].post
  BY <1>1 DEF StanceInv, Exclusive
<1>4. activity'[WorkKey(g, role)] = activity[WorkKey(g, role)]
  BY <1>2, <1>3 DEF WorkKey, VoteKey
<1>5. Current(g, role)
  BY DEF StanceInv, ReadsAreCurrent, Working, Current
<1> QED
  BY <1>4, <1>5, OtherWork DEF Current

LEMMA ReadsCurrentByRole ==
  ReadsAreCurrent <=> \A h \in Handlers : Working(h) =>
                        \A role \in WorkRoles(h) : Current(h, role)
BY DEF ReadsAreCurrent, Working, Current

LEMMA StepStanceInv ==
  TypeOK /\ TypeOK' /\ OneAtATime /\ StanceInv /\ [Next]_vars => StanceInv'
<1> SUFFICES ASSUME TypeOK, TypeOK', OneAtATime, StanceInv, [Next]_vars
             PROVE  StanceInv'
  OBVIOUS
<1> USE VoteAssumption
<1>0. /\ Exclusive /\ NotOwnPost /\ OppositeWithdrawn /\ CommentsOnlyUp /\ OneStance
      /\ \A h \in Handlers : Working(h) =>
           \A role \in WorkRoles(h) : Current(h, role)
  BY ReadsCurrentByRole DEF StanceInv
<1>1. ASSUME NEW h \in Handlers, NEW r \in Request, Receive(h, r)
      PROVE  StanceInv'
  <2>1. /\ \A g \in Handlers : g # h => /\ pc'[g] = pc[g] /\ req'[g] = req[g]
                                         /\ seen'[g] = seen[g]
        /\ pc'[h] = "readCancel" /\ req'[h] = r /\ seen'[h] = NothingSeen
        /\ activity' = activity
    BY <1>1 DEF Receive, TypeOK, tables
  <2>2. Exclusive' /\ NotOwnPost'
    BY <1>0, <1>1, <2>1 DEF Exclusive, NotOwnPost, Receive, Busy
  <2>3. OppositeWithdrawn'
    <3> SUFFICES ASSUME NEW g \in Handlers, pc'[g] = "readVote",
                      Kind[req'[g].post] # "comment"
                 PROVE  ~Live(req[g].voter, req[g].post, Opposite(req[g].side))'
      BY DEF OppositeWithdrawn
    <3>1. g # h /\ pc[g] = "readVote" /\ req'[g] = req[g]
      BY <2>1
    <3> QED BY <1>0, <2>1, <3>1 DEF OppositeWithdrawn, Live
  <2>4. ASSUME NEW g \in Handlers, Working(g)', NEW role \in WorkRoles(g)'
        PROVE  Current(g, role)'
    <3>1. CASE g = h
      <4>1. role \in Roles
        BY DEF WorkRoles, ActRoles, Roles
      <4> QED
        BY <2>1, <3>1, <4>1 DEF Current, NothingSeen, Unread
    <3>2. CASE g # h
      BY <1>0, <2>1, <2>4, <3>2, OtherWork DEF Working, Current
    <3> QED
      BY <3>1, <3>2
  <2>5. ReadsAreCurrent'
    BY <2>4 DEF ReadsAreCurrent, Working, Current
  <2>6. CommentsOnlyUp' /\ OneStance'
    BY <1>0, <2>1, QuietStep
  <2> QED
    BY <2>2, <2>3, <2>5, <2>6 DEF StanceInv
<1>2. ASSUME NEW h \in Handlers, NEW read \in Roles, ReadRow(h, read)
      PROVE  StanceInv'
  <2>1. /\ pc' = pc /\ req' = req /\ activity' = activity
        /\ \A g \in Handlers, role \in Roles :
             (g # h \/ role # read) => seen'[g][role] = seen[g][role]
        /\ seen'[h][read] = activity[WorkKey(h, read)]
    BY <1>2 DEF ReadRow, TypeOK, tables
  <2>2. ASSUME NEW g \in Handlers, Working(g)', NEW role \in WorkRoles(g)'
        PROVE  Current(g, role)'
    <3>1. role \in Roles /\ role \in WorkRoles(g) /\ Working(g)
      BY <2>1, <2>2 DEF WorkRoles, ActRoles, Roles, Working
    <3>2. WorkKey(g, role)' = WorkKey(g, role)
      BY <2>1, OtherWork
    <3>3. CASE g = h /\ role = read
      BY <2>1, <3>2, <3>3 DEF Current
    <3>4. CASE g # h \/ role # read
      BY <1>0, <2>1, <3>1, <3>2, <3>4 DEF Current
    <3> QED
      BY <3>3, <3>4
  <2>3. ReadsAreCurrent'
    BY <2>2 DEF ReadsAreCurrent, Working, Current
  <2>4. CommentsOnlyUp' /\ OneStance'
    BY <1>0, <2>1, QuietStep
  <2>5. Exclusive' /\ NotOwnPost' /\ OppositeWithdrawn'
    BY <1>0, <2>1 DEF Exclusive, NotOwnPost, OppositeWithdrawn, Live, Busy
  <2> QED
    BY <2>3, <2>4, <2>5 DEF StanceInv
<1>3. ASSUME NEW h \in Handlers, SkipCancel(h)
      PROVE  StanceInv'
  <2>1. /\ \A g \in Handlers : g # h => pc'[g] = pc[g] /\ seen'[g] = seen[g]
        /\ pc'[h] = AfterCancel(h) /\ seen'[h] = NothingSeen
        /\ req' = req /\ activity' = activity /\ pc[h] = "readCancel"
    BY <1>3 DEF SkipCancel, TypeOK, tables
  <2>2. ASSUME NEW g \in Handlers, Working(g)', NEW role \in WorkRoles(g)'
        PROVE  Current(g, role)'
    <3>1. CASE g = h
      <4>1. role \in Roles
        BY DEF WorkRoles, ActRoles, Roles
      <4> QED
        BY <2>1, <3>1, <4>1 DEF Current, NothingSeen, Unread
    <3>2. CASE g # h
      BY <1>0, <2>1, <2>2, <3>2, OtherWork DEF Working, Current
    <3> QED
      BY <3>1, <3>2
  <2>3. ReadsAreCurrent'
    BY <2>2 DEF ReadsAreCurrent, Working, Current
  <2>4. CommentsOnlyUp' /\ OneStance'
    BY <1>0, <2>1, QuietStep
  <2>5. Exclusive' /\ NotOwnPost'
    BY <1>0, <2>1, RequestsStayExclusive DEF Busy
  <2>6. ASSUME ~req[h].cancel, Kind[req[h].post] # "comment"
        PROVE  ~Live(req[h].voter, req[h].post, Opposite(req[h].side))
    <3>1. /\ "vote" \in WorkRoles(h)
          /\ WorkKey(h, "vote") = VoteKey(req[h].voter, req[h].post,
                                          Opposite(req[h].side), "vote")
      BY <2>1, <2>6 DEF WorkRoles, ActRoles, Roles, WorkKey, WorkSide, ActSide
    <3>2. Current(h, "vote")
      BY <1>0, <2>1, <3>1 DEF Working
    <3>3. seen[h]["vote"].st # "unread" /\ seen[h]["vote"].st # "live"
      BY <1>3, <3>1 DEF SkipCancel, SeenAll, SeenLive, Roles
    <3> QED
      BY <3>1, <3>2, <3>3 DEF Current, Live
  <2>7. OppositeWithdrawn'
    BY <1>0, <2>1, <2>6 DEF OppositeWithdrawn, AfterCancel, Live
  <2> QED
    BY <2>3, <2>4, <2>5, <2>7 DEF StanceInv
<1>4. ASSUME NEW h \in Handlers, CancelVote(h)
      PROVE  StanceInv'
  <2>1. /\ \A g \in Handlers : g # h => pc'[g] = pc[g] /\ seen'[g] = seen[g]
        /\ pc'[h] = AfterCancel(h) /\ seen'[h] = NothingSeen
        /\ req' = req /\ pc[h] = "readCancel"
    BY <1>4 DEF CancelVote, TypeOK
  <2>2. \A k \in Key : \/ activity'[k] = activity[k]
                       \/ /\ activity'[k].st = "cancelled"
                          /\ \E role \in WorkRoles(h) :
                               /\ seen[h][role].st # "none"
                               /\ k = WorkKey(h, role)
    <3>1. \A k \in Key : activity'[k] = IF k \in Found(h) THEN CancelRow(activity[k])
                                                         ELSE activity[k]
      BY <1>4 DEF CancelVote
    <3>2. \A k \in Key : CancelRow(activity[k]).st = "cancelled"
      BY DEF TypeOK, CancelRow, ActivityRow
    <3>3. \A k \in Found(h) : \E role \in WorkRoles(h) :
            seen[h][role].st # "none" /\ k = WorkKey(h, role)
      BY DEF Found
    <3> QED
      BY <3>1, <3>2, <3>3
  <2>3. \A k \in Key : (k.voter # req[h].voter \/ k.post # req[h].post) =>
                        activity'[k] = activity[k]
    BY <2>2 DEF WorkKey, VoteKey
  <2>4. \A u \in Users, p \in Posts, s \in Sides : Live(u, p, s)' => Live(u, p, s)
    BY <2>2 DEF Live, VoteKey, Key, Roles
  <2>5. CommentsOnlyUp' /\ OneStance'
    BY <1>0, <2>4 DEF CommentsOnlyUp, OneStance, Sides
  <2>6. Exclusive' /\ NotOwnPost'
    BY <1>0, <2>1, RequestsStayExclusive DEF Busy
  <2>7. ASSUME NEW g \in Handlers, Working(g)', NEW role \in WorkRoles(g)'
        PROVE  Current(g, role)'
    <3>1. CASE g = h
      <4>1. role \in Roles
        BY DEF WorkRoles, ActRoles, Roles
      <4> QED
        BY <2>1, <3>1, <4>1 DEF Current, NothingSeen, Unread
    <3>2. CASE g # h
      <4>1. Working(g) /\ role \in WorkRoles(g)
        BY <2>1, <2>7, <3>2, OtherWork DEF Working
      <4> QED
        BY <2>1, <2>3, <3>2, <4>1, OthersStayCurrent DEF Busy
    <3> QED
      BY <3>1, <3>2
  <2>8. ReadsAreCurrent'
    BY <2>7 DEF ReadsAreCurrent, Working, Current
  <2>9. ASSUME ~req[h].cancel, Kind[req[h].post] # "comment"
        PROVE  ~Live(req[h].voter, req[h].post, Opposite(req[h].side))'
    <3> DEFINE k == WorkKey(h, "vote")
    <3>1. /\ "vote" \in WorkRoles(h)
          /\ k = VoteKey(req[h].voter, req[h].post, Opposite(req[h].side), "vote")
      BY <2>1, <2>9 DEF WorkRoles, ActRoles, Roles, WorkKey, WorkSide, ActSide
    <3>2. k \in Key
      BY <2>1, <3>1, WorkKeyTyped DEF Busy
    <3>3. Current(h, "vote") /\ seen[h]["vote"].st # "unread"
      BY <1>0, <1>4, <2>1, <3>1 DEF Working, CancelVote, SeenAll
    <3>4. CASE seen[h]["vote"].st = "none"
      BY <2>2, <3>2, <3>3, <3>4, <3>1, <2>1 DEF Current, Live
    <3>5. CASE seen[h]["vote"].st # "none"
      <4>1. activity'[k].st = "cancelled"
        BY <1>4, <3>1, <3>2, <3>5, ZenonT(40) DEF CancelVote, Found, CancelRow, TypeOK, ActivityRow
      <4> QED
        BY <2>1, <3>1, <4>1 DEF Live
    <3> QED
      BY <3>4, <3>5
  <2>10. OppositeWithdrawn'
    <3>1. ASSUME NEW g \in Handlers, pc'[g] = "readVote",
                 Kind[req[g].post] # "comment"
          PROVE  ~Live(req[g].voter, req[g].post, Opposite(req[g].side))'
      <4>1. CASE g = h
        BY <2>1, <2>9, <3>1, <4>1 DEF AfterCancel
      <4>2. CASE g # h
        <5>1. ~Live(req[g].voter, req[g].post, Opposite(req[g].side))
          BY <1>0, <2>1, <3>1, <4>2 DEF OppositeWithdrawn
        <5>2. req[g] \in Request /\ Opposite(req[g].side) \in Sides
          BY <2>1, <3>1, <4>2 DEF TypeOK, Busy, Request, Opposite, Sides
        <5> QED
          BY <2>1, <2>4, <5>1, <5>2 DEF Request, Live
      <4> QED
        BY <4>1, <4>2
    <3> QED
      BY <2>1, <3>1 DEF OppositeWithdrawn, Live
  <2> QED
    BY <2>5, <2>6, <2>8, <2>10 DEF StanceInv
<1>5. ASSUME NEW h \in Handlers, Vote(h)
      PROVE  StanceInv'
  <2>1. /\ \A g \in Handlers : g # h => pc'[g] = pc[g]
        /\ ~Working(h)' /\ Busy(h)
        /\ req' = req /\ seen' = seen /\ pc[h] = "readVote"
    BY <1>5 DEF Vote, TypeOK, Busy, Working
  <2>2. \A k \in Key : \/ activity'[k] = activity[k]
                       \/ k.role \in WorkRoles(h) /\ k = WorkKey(h, k.role)
    <3>1. activity' = [k \in Key |->
             IF /\ k.role \in WorkRoles(h)
                /\ k = WorkKey(h, k.role)
                /\ activity[k].st # "live"
               THEN LiveRow(Granted(h, k.role)) ELSE activity[k]]
      BY <1>5 DEF Vote
    <3> QED
      BY <3>1, Zenon
  <2>3. \A k \in Key : (k.voter # req[h].voter \/ k.post # req[h].post) =>
                        activity'[k] = activity[k]
    BY <2>2 DEF WorkKey, VoteKey
  <2>4. \A u \in Users, p \in Posts, s \in Sides :
          Live(u, p, s)' => \/ Live(u, p, s)
                            \/ /\ u = req[h].voter /\ p = req[h].post
                               /\ s = ActSide(p, req[h].side)
    <3>1. WorkSide(h) = ActSide(req[h].post, req[h].side)
      BY <2>1 DEF WorkSide
    <3>2. TAKE u \in Users, p \in Posts, s \in Sides
    <3> DEFINE k == VoteKey(u, p, s, "vote")
    <3>3. k \in Key /\ k.voter = u /\ k.post = p /\ k.side = s /\ k.role = "vote"
      BY DEF Key, VoteKey, Roles
    <3>4. CASE activity'[k] = activity[k]
      BY <3>4 DEF Live
    <3>5. CASE k = WorkKey(h, "vote")
      BY <3>1, <3>3, <3>5 DEF WorkKey, VoteKey
    <3> HIDE DEF k
    <3> QED
      BY <2>2, <3>3, <3>4, <3>5
  <2>5. req[h] \in Request
    BY <2>1 DEF TypeOK
  <2>6. CommentsOnlyUp'
    BY <1>0, <2>4 DEF CommentsOnlyUp, Sides, ActSide
  <2>7. OneStance'
    <3>1. CASE Kind[req[h].post] = "comment"
      BY <1>0, <2>4, <3>1 DEF OneStance, CommentsOnlyUp, Sides, ActSide
    <3>2. CASE Kind[req[h].post] # "comment"
      <4>1. ~Live(req[h].voter, req[h].post, Opposite(req[h].side))
        BY <1>0, <2>1, <3>2 DEF OppositeWithdrawn
      <4>2. req[h].side = "up" \/ req[h].side = "down"
        BY <2>5 DEF Request, Sides
      <4> QED
        BY <1>0, <2>4, <3>2, <4>1, <4>2 DEF OneStance, Sides, ActSide, Opposite
    <3> QED
      BY <3>1, <3>2
  <2>8. Exclusive' /\ NotOwnPost'
    BY <1>0, <2>1, RequestsStayExclusive DEF Busy
  <2>9. ASSUME NEW g \in Handlers, Working(g)', NEW role \in WorkRoles(g)'
        PROVE  Current(g, role)'
    <3>1. g # h
      BY <2>1, <2>9
    <3>2. Working(g) /\ role \in WorkRoles(g)
      BY <2>1, <2>9, <3>1, OtherWork DEF Working
    <3> QED
      BY <2>1, <2>3, <3>1, <3>2, OthersStayCurrent
  <2>10. ReadsAreCurrent'
    BY <2>9 DEF ReadsAreCurrent, Working, Current
  <2>11. OppositeWithdrawn'
    <3>1. ASSUME NEW g \in Handlers, pc'[g] = "readVote",
                 Kind[req[g].post] # "comment"
          PROVE  ~Live(req[g].voter, req[g].post, Opposite(req[g].side))'
      <4>1. g # h /\ pc[g] = "readVote"
        BY <2>1, <3>1 DEF Working
      <4>2. ~Live(req[g].voter, req[g].post, Opposite(req[g].side))
        BY <1>0, <3>1, <4>1 DEF OppositeWithdrawn
      <4>3. req[g] \in Request /\ Opposite(req[g].side) \in Sides
        BY <4>1 DEF TypeOK, Busy, Request, Opposite, Sides
      <4>4. req[g].voter # req[h].voter \/ req[g].post # req[h].post
        BY <1>0, <2>1, <4>1 DEF Exclusive, Busy
      <4> QED
        BY <2>1, <2>4, <4>2, <4>3, <4>4 DEF Request, Live
    <3> QED
      BY <2>1, <3>1 DEF OppositeWithdrawn, Live
  <2> QED
    BY <2>6, <2>7, <2>8, <2>10, <2>11 DEF StanceInv
<1>6. ASSUME NEW h \in Handlers,
             SkipVote(h) \/ Notify(h) \/ CountUp(h) \/ CountDown(h)
      PROVE  StanceInv'
  <2>1. /\ \A g \in Handlers : g # h => pc'[g] = pc[g]
        /\ ~Working(h)' /\ Busy(h)
        /\ req' = req /\ seen' = seen /\ activity' = activity
    BY <1>6 DEF SkipVote, Notify, CountUp, CountDown, TypeOK, Busy, Working, tables
  <2>2. ReadsAreCurrent'
    BY <1>0, <2>1, OtherWork DEF ReadsAreCurrent, Working, Current
  <2>3. CommentsOnlyUp' /\ OneStance'
    BY <1>0, <2>1, QuietStep
  <2>4. Exclusive' /\ NotOwnPost' /\ OppositeWithdrawn'
    BY <1>0, <2>1 DEF Exclusive, NotOwnPost, OppositeWithdrawn, Live, Busy, Working
  <2> QED
    BY <2>2, <2>3, <2>4 DEF StanceInv
<1>7. ASSUME NEW h \in Handlers, UpdateVotes(h) \/ Fail(h)
      PROVE  StanceInv'
  <2>1. /\ \A g \in Handlers : g # h => /\ pc'[g] = pc[g] /\ req'[g] = req[g]
                                         /\ seen'[g] = seen[g]
        /\ pc'[h] = "idle" /\ activity' = activity
    BY <1>7 DEF UpdateVotes, Fail, Finish, TypeOK, tables
  <2>2. ReadsAreCurrent'
    BY <1>0, <2>1, OtherWork DEF ReadsAreCurrent, Working, Current
  <2>3. CommentsOnlyUp' /\ OneStance'
    BY <1>0, <2>1, QuietStep
  <2>4. Exclusive' /\ NotOwnPost'
    <3>1. \A g \in Handlers : Busy(g)' => Busy(g) /\ req'[g] = req[g]
      BY <2>1 DEF Busy
    <3> QED
      BY <1>0, <3>1, RequestsStayExclusive
  <2>5. OppositeWithdrawn'
    BY <1>0, <2>1 DEF OppositeWithdrawn, Live
  <2> QED
    BY <2>2, <2>3, <2>4, <2>5 DEF StanceInv
<1>8. ASSUME NewDay
      PROVE  StanceInv'
  <2>1. /\ pc' = pc /\ req' = req /\ seen' = seen
        /\ \A k \in Key : /\ activity'[k].st = activity[k].st
                           /\ activity'[k].rank = activity[k].rank
    BY <1>8 DEF NewDay, TypeOK, ActivityRow
  <2>2. ReadsAreCurrent'
    BY <1>0, <2>1, OtherWork, WorkKeyTyped
    DEF ReadsAreCurrent, Working, Current, Busy
  <2>3. CommentsOnlyUp' /\ OneStance'
    BY <1>0, <2>1, QuietStep
  <2>4. OppositeWithdrawn'
    <3>1. ASSUME NEW g \in Handlers, pc[g] = "readVote",
                 Kind[req[g].post] # "comment"
          PROVE  ~Live(req[g].voter, req[g].post, Opposite(req[g].side))'
      <4>1. req[g] \in Request /\ Opposite(req[g].side) \in Sides
        BY <3>1 DEF TypeOK, Busy, Request, Opposite, Sides
      <4> QED
        BY <1>0, <2>1, <3>1, <4>1, QuietStep, ZenonT(40) DEF OppositeWithdrawn, Request, Live
    <3> QED
      BY <2>1, <3>1 DEF OppositeWithdrawn, Live
  <2>5. Exclusive' /\ NotOwnPost'
    BY <1>0, <2>1, RequestsStayExclusive DEF Busy
  <2> QED
    BY <2>2, <2>3, <2>4, <2>5 DEF StanceInv
<1>9. ASSUME UNCHANGED vars
      PROVE  StanceInv'
  BY <1>9, ReadsCurrentByRole
  DEF vars, StanceInv, Exclusive, NotOwnPost, ReadsAreCurrent, OppositeWithdrawn,
      CommentsOnlyUp, OneStance, Live, Busy, WorkKey, WorkRoles, WorkSide
<1> QED
  BY <1>1, <1>2, <1>3, <1>4, <1>5, <1>6, <1>7, <1>8, <1>9 DEF Next, Step

LEMMA StanceInvariant == OneAtATime => (Spec => [](TypeOK /\ StanceInv))
<1> SUFFICES ASSUME OneAtATime PROVE Spec => [](TypeOK /\ StanceInv)
  OBVIOUS
<1>1. TypedFloor => TypeOK
  BY DEF TypedFloor
<1>2. TypedFloor /\ TypedFloor' /\ StanceInv /\ [Next]_vars => StanceInv'
  BY StepStanceInv DEF TypedFloor
<1> QED
  BY InitTypedFloor, StepTypedFloor, InitStanceInv, <1>1, <1>2, PTL DEF Spec

(* With one vote per user and post in flight, an up and a down vote of the *)
(* same user never count together, even when requests fail half way.       *)
THEOREM StanceIsUnique == OneAtATime => (Spec => []OneStance)
<1>1. StanceInv => OneStance
  BY DEF StanceInv
<1> QED
  BY StanceInvariant, <1>1, PTL

(* With one vote per user and post in flight, the rows a handler read      *)
(* outside its transaction are still what the transaction finds.           *)
THEOREM ReadsStayCurrent == OneAtATime => (Spec => []ReadsAreCurrent)
<1>1. StanceInv => ReadsAreCurrent
  BY DEF StanceInv
<1> QED
  BY StanceInvariant, <1>1, PTL

-----------------------------------------------------------------------------
(***************************************************************************)
(* A withdrawal takes back what the row holds.                             *)
(***************************************************************************)
ExactStep ==
  \A k \in Key : Cancelled(k) =>
    rank'[KeyUser(k)] = ChangeUserRank(rank[KeyUser(k)], -activity[k].rank)

(* Only the transaction of CancelVote turns a counting row into a          *)
(* cancelled one.                                                          *)
LEMMA OnlyCancelVoteCancels ==
  ASSUME TypeOK, [Next]_vars, NEW k \in Key, Cancelled(k)
  PROVE  \E h \in Handlers : CancelVote(h)
<1>1. CASE activity' = activity
  BY <1>1 DEF Cancelled
<1>2. ASSUME NEW h \in Handlers, Vote(h) PROVE FALSE
  <2>1. activity' = [j \in Key |->
             IF /\ j.role \in WorkRoles(h)
                /\ j = WorkKey(h, j.role)
                /\ activity[j].st # "live"
               THEN LiveRow(Granted(h, j.role)) ELSE activity[j]]
    BY <1>2 DEF Vote
  <2>2. activity'[k] = activity[k]
    BY <2>1 DEF Cancelled
  <2> QED
    BY <2>2 DEF Cancelled
<1>3. CASE NewDay
  BY <1>3 DEF NewDay, Cancelled, TypeOK, ActivityRow
<1> QED
  BY <1>1, <1>2, <1>3
  DEF Next, Step, Receive, ReadRow, SkipCancel, SkipVote, Notify, CountUp,
      CountDown, UpdateVotes, Fail, tables, vars

LEMMA ExactRollback ==
  TypeOK /\ StanceInv /\ [Next]_vars => ExactStep
<1> SUFFICES ASSUME TypeOK, StanceInv, [Next]_vars, NEW k \in Key, Cancelled(k)
             PROVE  rank'[KeyUser(k)] =
                      ChangeUserRank(rank[KeyUser(k)], -activity[k].rank)
  BY DEF ExactStep
<1>1. PICK h \in Handlers : CancelVote(h)
  BY OnlyCancelVoteCancels
<1>2. pc[h] = "readCancel" /\ req[h] \in Request
  BY <1>1 DEF CancelVote, TypeOK, Busy
<1>3. PICK role \in WorkRoles(h) : k = WorkKey(h, role)
  <2>1. activity' = [j \in Key |-> IF j \in Found(h) THEN CancelRow(activity[j])
                                                      ELSE activity[j]]
    BY <1>1 DEF CancelVote
  <2>2. k \in Found(h)
    BY <2>1 DEF Cancelled
  <2> QED
    BY <2>2 DEF Found
<1>4. role \in Roles /\ k.role = role /\ k.voter = req[h].voter /\ k.post = req[h].post
  BY <1>3 DEF WorkRoles, ActRoles, Roles, WorkKey, VoteKey
<1>5. seen[h][role].st # "unread"
  BY <1>1, <1>3 DEF CancelVote, SeenAll
<1>6. seen[h][role].st = "live" /\ seen[h][role].rank = activity[k].rank
  BY <1>2, <1>3, <1>5 DEF StanceInv, ReadsAreCurrent, Cancelled
<1>7. RolledBack(h, role) = -activity[k].rank
  BY <1>3, <1>6 DEF RolledBack, SeenLive, Cancelled
<1>8. Gain(h, KeyUser(k), RolledBack) = RolledBack(h, role)
  BY <1>2, <1>4 DEF StanceInv, NotOwnPost, Busy, KeyUser, Roles, Gain
<1>9. KeyUser(k) \in Users
  BY VoteAssumption DEF Key, KeyUser
<1>10. rank' = [u \in Users |-> ChangeUserRank(rank[u], Gain(h, u, RolledBack))]
  BY <1>1 DEF CancelVote
<1> QED
  BY <1>7, <1>8, <1>9, <1>10

(* With one vote per user and post in flight, a withdrawn vote costs its   *)
(* user the points its row holds, however the limit and the floor cut it.  *)
THEOREM RollbackIsExact == OneAtATime => (Spec => RollbackExact)
<1> SUFFICES ASSUME OneAtATime PROVE Spec => RollbackExact
  OBVIOUS
<1>1. TypeOK /\ StanceInv /\ [Next]_vars => [ExactStep]_vars
  BY ExactRollback
<1>2. RollbackExact <=> [][ExactStep]_vars
  BY DEF RollbackExact, ExactStep
<1> QED
  BY StanceInvariant, <1>1, <1>2, PTL DEF Spec

-----------------------------------------------------------------------------
(***************************************************************************)
(* Voting implements VoteStance: the transaction of a vote takes a stance *)
(* or confirms it, the one of a cancellation withdraws it, nothing else   *)
(* changes a stance.                                                       *)
(***************************************************************************)
Stances == [u \in Users |-> [p \in Posts |-> Stance(u, p)]]

SameLive == \A u \in Users, p \in Posts, s \in Sides :
              Live(u, p, s)' <=> Live(u, p, s)

LEMMA SameStances ==
  ASSUME SameLive
  PROVE  Stances' = Stances
BY DEF SameLive, Stances, Stance, Sides

LEMMA StanceUpdate ==
  ASSUME NEW u \in Users, NEW p \in Posts, NEW s, Stance(u, p)' = s,
         \A v \in Users, q \in Posts :
           (v # u \/ q # p) => Stance(v, q)' = Stance(v, q)
  PROVE  Stances' = [Stances EXCEPT ![u][p] = s]
<1> DEFINE after(v, q) == IF v = u /\ q = p THEN s ELSE Stance(v, q)
<1>1. Stances' = [v \in Users |-> [q \in Posts |-> after(v, q)]]
  BY DEF Stances
<1> HIDE DEF Stance
<1> QED
  BY <1>1 DEF Stances

LEMMA VoteTakes ==
  ASSUME TypeOK, StanceInv, StanceInv', NEW h \in Handlers, Vote(h)
  PROVE  [Ideal!Next]_Stances
<1>0. Busy(h) /\ req[h] \in Request /\ WorkSide(h) \in Sides
  BY DEF Vote, TypeOK, Busy, WorkSide, ActSide, Request, Sides
<1>1. PICK u \in Users, p \in Posts, s \in Sides :
        u = req[h].voter /\ p = req[h].post /\ s = WorkSide(h) /\ u # Author[p]
  BY <1>0 DEF Request, StanceInv, NotOwnPost
<1>2. s = "up" \/ s = "down"
  BY DEF Sides
<1>3. "vote" \in WorkRoles(h) /\ WorkKey(h, "vote") = VoteKey(u, p, s, "vote")
  BY <1>1 DEF WorkRoles, ActRoles, Roles, WorkKey
<1>4. \A k \in Key : activity'[k] = IF /\ k.role \in WorkRoles(h)
                                       /\ k = WorkKey(h, k.role)
                                       /\ activity[k].st # "live"
                                      THEN LiveRow(Granted(h, k.role))
                                      ELSE activity[k]
  BY DEF Vote
<1>5. \A v \in Users, q \in Posts, t \in Sides :
        Live(v, q, t)' <=> Live(v, q, t) \/ (v = u /\ q = p /\ t = s)
  <2> SUFFICES ASSUME NEW v \in Users, NEW q \in Posts, NEW t \in Sides
               PROVE  Live(v, q, t)' <=> Live(v, q, t) \/ (v = u /\ q = p /\ t = s)
    OBVIOUS
  <2> DEFINE k == VoteKey(v, q, t, "vote")
  <2>1. k \in Key /\ k.role = "vote"
    BY DEF VoteKey, Key, Roles
  <2>2. k = WorkKey(h, "vote") <=> (v = u /\ q = p /\ t = s)
    BY <1>3 DEF VoteKey
  <2>3. LiveRow(Granted(h, "vote")).st = "live"
    BY DEF LiveRow
  <2> QED
    BY <1>3, <1>4, <2>1, <2>2, <2>3 DEF Live
<1>6. CASE Live(u, p, s)
  BY <1>5, <1>6, SameStances DEF SameLive
<1>7. CASE ~Live(u, p, s)
  <2>1. Stance(u, p) = "none"
    <3>1. ~Live(u, p, "up") /\ ~Live(u, p, "down")
      BY <1>1, <1>2, <1>5, <1>7
      DEF StanceInv, OneStance, Sides
    <3> QED
      BY <3>1 DEF Stance
  <2>2. Stance(u, p)' = s
    BY <1>1, <1>2, <1>5 DEF StanceInv, OneStance, Stance, Sides
  <2>3. \A v \in Users, q \in Posts :
          (v # u \/ q # p) => Stance(v, q)' = Stance(v, q)
    BY <1>5 DEF Stance, Sides
  <2>4. Stances' = [Stances EXCEPT ![u][p] = s]
    BY <2>2, <2>3, StanceUpdate
  <2>5. Stances[u][p] = "none"
    BY <1>1, <2>1 DEF Stances
  <2>6. Ideal!Take(u, p, s)
    BY <1>1, <2>4, <2>5 DEF Ideal!Take, Stances
  <2> QED
    BY <1>1, <1>2, <2>6 DEF Ideal!Next, Sides
<1> QED
  BY <1>6, <1>7

LEMMA CancelVoteWithdraws ==
  ASSUME TypeOK, StanceInv, NEW h \in Handlers, CancelVote(h)
  PROVE  [Ideal!Next]_Stances
<1>0. /\ pc[h] = "readCancel" /\ req[h] \in Request /\ WorkSide(h) \in Sides
  BY DEF CancelVote, TypeOK, Busy, WorkSide, ActSide, Request, Sides, Opposite
<1>1. PICK u \in Users, p \in Posts, s \in Sides :
        u = req[h].voter /\ p = req[h].post /\ s = WorkSide(h)
  BY <1>0 DEF Request
<1>2. s = "up" \/ s = "down"
  BY DEF Sides
<1>3. "vote" \in WorkRoles(h) /\ WorkKey(h, "vote") = VoteKey(u, p, s, "vote")
  BY <1>1 DEF WorkRoles, ActRoles, Roles, WorkKey
<1>4. \A k \in Key : activity'[k] = IF k \in Found(h) THEN CancelRow(activity[k])
                                                       ELSE activity[k]
  BY DEF CancelVote
<1>5. \A k \in Key : CancelRow(activity[k]).st = "cancelled"
  BY DEF TypeOK, CancelRow, ActivityRow
<1>6. VoteKey(u, p, s, "vote") \in Found(h) \/ ~Live(u, p, s)
  <2>1. seen[h]["vote"].st # "unread"
    BY <1>3 DEF CancelVote, SeenAll
  <2>2. seen[h]["vote"].st = activity[WorkKey(h, "vote")].st
    BY <1>0, <1>3, <2>1 DEF StanceInv, ReadsAreCurrent
  <2> QED
    BY <1>3, <2>2 DEF Live, Found
<1>7. \A v \in Users, q \in Posts, t \in Sides :
        VoteKey(v, q, t, "vote") \in Found(h) => v = u /\ q = p /\ t = s
  BY <1>1 DEF WorkKey, VoteKey, Found
<1>8. \A v \in Users, q \in Posts, t \in Sides :
        Live(v, q, t)' <=> Live(v, q, t) /\ ~(v = u /\ q = p /\ t = s)
  BY <1>4, <1>5, <1>6, <1>7 DEF Live, VoteKey, Key, Roles
<1>9. CASE ~Live(u, p, s)
  BY <1>8, <1>9, SameStances DEF SameLive
<1>10. CASE Live(u, p, s)
  <2>1. Stance(u, p) # "none"
    BY <1>2, <1>10 DEF Stance, Sides
  <2>2. Stance(u, p)' = "none"
    BY <1>1, <1>2, <1>8, <1>10 DEF StanceInv, OneStance, Stance, Sides
  <2>3. \A v \in Users, q \in Posts :
          (v # u \/ q # p) => Stance(v, q)' = Stance(v, q)
    BY <1>8 DEF Stance, Sides
  <2>4. Stances' = [Stances EXCEPT ![u][p] = "none"]
    BY <2>2, <2>3, StanceUpdate
  <2>5. Stances[u][p] # "none"
    BY <1>1, <2>1 DEF Stances
  <2>6. Ideal!Withdraw(u, p)
    BY <2>4, <2>5 DEF Ideal!Withdraw, Stances
  <2> QED
    BY <1>1, <2>6 DEF Ideal!Next
<1> QED
  BY <1>9, <1>10

LEMMA StanceStep ==
  TypeOK /\ StanceInv /\ StanceInv' /\ [Next]_vars => [Ideal!Next]_Stances
<1> SUFFICES ASSUME TypeOK, StanceInv, StanceInv', [Next]_vars
             PROVE  [Ideal!Next]_Stances
  OBVIOUS
<1>1. CASE activity' = activity
  BY <1>1, SameStances DEF SameLive, Live
<1>2. CASE NewDay
  <2>1. \A k \in Key : activity'[k].st = activity[k].st
    BY <1>2 DEF NewDay, TypeOK, ActivityRow
  <2>2. SameLive
    BY <2>1 DEF SameLive, Live, VoteKey, Key, Roles
  <2> QED
    BY <2>2, SameStances
<1> QED
  BY <1>1, <1>2, VoteTakes, CancelVoteWithdraws
  DEF Next, Step, Receive, ReadRow, SkipCancel, SkipVote, Notify, CountUp,
      CountDown, UpdateVotes, Fail, tables, vars

(* With one vote per user and post in flight, the two-row, two-transaction *)
(* votes implement the single stance VoteStance promises.                  *)
THEOREM VotesImplementStance == OneAtATime => (Spec => ImplementsStance)
<1> SUFFICES ASSUME OneAtATime PROVE Spec => ImplementsStance
  OBVIOUS
<1>1. Init => Ideal!Init
  <2> SUFFICES ASSUME Init PROVE Ideal!Init
    OBVIOUS
  <2>1. \A u \in Users, p \in Posts, s \in Sides : ~Live(u, p, s)
    BY DEF Init, Live, VoteKey, Key, NoActivity, Roles
  <2> QED
    BY <2>1 DEF Ideal!Init, Stance, Sides
<1>2. TypeOK /\ StanceInv /\ StanceInv' /\ [Next]_vars => [Ideal!Next]_Stances
  BY StanceStep
<1>3. ImplementsStance <=> Ideal!Init /\ [][Ideal!Next]_Stances
  BY DEF ImplementsStance, Ideal!Spec, Stances
<1> QED
  BY StanceInvariant, <1>1, <1>2, <1>3, PTL DEF Spec
-----------------------------------------------------------------------------
(***************************************************************************)
(* One announcement of a vote.  A handler announces after its transaction, *)
(* and whether it does was decided inside: when it found a row of the vote *)
(* missing.  No row is ever missing again, so it is the only one.          *)
(***************************************************************************)
Recorded(k) ==
  \A role \in ActRoles(k.post) :
    activity[VoteKey(k.voter, k.post, k.side, role)].st # "none"

Telling(h) == pc[h] = "notify"

ToldOfRecorded == \A k \in Key : inbox[k] <= 1 /\ (inbox[k] # 0 => Recorded(k))

TellingFirst ==
  \A h \in Handlers : Telling(h) =>
    Recorded(WorkKey(h, "vote")) /\ inbox[WorkKey(h, "vote")] = 0

TellingApart ==
  \A g, h \in Handlers : g # h /\ Telling(g) /\ Telling(h) =>
    WorkKey(g, "vote") # WorkKey(h, "vote")

AnnounceInv == ToldOfRecorded /\ TellingFirst /\ TellingApart

LEMMA InitAnnounceInv == Init => AnnounceInv
BY DEF Init, AnnounceInv, ToldOfRecorded, TellingFirst, TellingApart, Telling

(* No step makes a row disappear.                                          *)
LEMMA RowsStay ==
  ASSUME TypeOK, [Next]_vars
  PROVE  \A k \in Key : activity[k].st # "none" => activity'[k].st # "none"
<1>1. ASSUME NEW h \in Handlers, CancelVote(h)
      PROVE  \A k \in Key : activity[k].st # "none" => activity'[k].st # "none"
  BY <1>1 DEF CancelVote, CancelRow, TypeOK, ActivityRow
<1>2. ASSUME NEW h \in Handlers, Vote(h)
      PROVE  \A k \in Key : activity[k].st # "none" => activity'[k].st # "none"
  BY <1>2 DEF Vote, LiveRow
<1>3. CASE NewDay
  BY <1>3 DEF NewDay, TypeOK, ActivityRow
<1> QED
  BY <1>1, <1>2, <1>3
  DEF Next, Step, Receive, ReadRow, SkipCancel, SkipVote, Notify, CountUp,
      CountDown, UpdateVotes, Fail, tables, vars

LEMMA RecordedStays ==
  ASSUME TypeOK, [Next]_vars, NEW k \in Key, Recorded(k)
  PROVE  Recorded(k)'
<1> SUFFICES ASSUME NEW role \in ActRoles(k.post)
             PROVE  activity'[VoteKey(k.voter, k.post, k.side, role)].st # "none"
  BY DEF Recorded
<1>1. VoteKey(k.voter, k.post, k.side, role) \in Key
  BY DEF VoteKey, Key, ActRoles, Roles
<1> QED
  BY <1>1, RowsStay DEF Recorded

LEMMA VoteKeyTyped ==
  ASSUME TypeOK, NEW h \in Handlers, Busy(h)
  PROVE  /\ WorkKey(h, "vote") \in Key
         /\ Recorded(WorkKey(h, "vote")) <=>
              \A role \in WorkRoles(h) : activity[WorkKey(h, role)].st # "none"
<1>1. "vote" \in WorkRoles(h)
  BY DEF WorkRoles, ActRoles, Roles
<1> QED
  BY <1>1, WorkKeyTyped DEF Recorded, WorkRoles, WorkKey, VoteKey

(* What is left to show when nobody new is about to announce.              *)
LEMMA NobodyNewTells ==
  ASSUME TypeOK, AnnounceInv, [Next]_vars, inbox' = inbox,
         \A h \in Handlers : Telling(h)' =>
            Telling(h) /\ req'[h] = req[h]
  PROVE  AnnounceInv'
<1>1. ToldOfRecorded'
  BY RecordedStays DEF AnnounceInv, ToldOfRecorded
<1>2. \A h \in Handlers : Telling(h)' => WorkKey(h, "vote")' = WorkKey(h, "vote")
  BY DEF WorkKey, WorkSide, Telling
<1>3. ASSUME NEW h \in Handlers, Telling(h)'
      PROVE  Recorded(WorkKey(h, "vote"))' /\ inbox'[WorkKey(h, "vote")'] = 0
  <2>1. Telling(h) /\ Busy(h)
    BY <1>3 DEF Telling, Busy
  <2>2. WorkKey(h, "vote") \in Key /\ Recorded(WorkKey(h, "vote"))
        /\ inbox[WorkKey(h, "vote")] = 0
    BY <2>1, VoteKeyTyped DEF AnnounceInv, TellingFirst
  <2> DEFINE k == WorkKey(h, "vote")
  <2>3. \A j \in Key : Recorded(j) => Recorded(j)'
    BY RecordedStays
  <2>4. WorkKey(h, "vote")' = k
    BY <1>2, <1>3
  <2>5. \A j : j \in Key /\ Recorded(j) /\ WorkKey(h, "vote")' = j
               => Recorded(WorkKey(h, "vote"))'
    BY <2>3 DEF Recorded
  <2> QED
    BY <2>2, <2>4, <2>5
<1>4. TellingApart'
  BY <1>2 DEF AnnounceInv, TellingApart
<1> QED
  BY <1>1, <1>3, <1>4 DEF AnnounceInv, TellingFirst

LEMMA StepAnnounceInv == TypeOK /\ AnnounceInv /\ [Next]_vars => AnnounceInv'
<1> SUFFICES ASSUME TypeOK, AnnounceInv, [Next]_vars PROVE AnnounceInv'
  OBVIOUS
<1>1. ASSUME NEW h \in Handlers, Vote(h) PROVE AnnounceInv'
  <2>1. /\ pc[h] = "readVote" /\ Busy(h)
        /\ inbox' = inbox /\ req' = req
        /\ \A g \in Handlers \ {h} : pc'[g] = pc[g]
        /\ pc'[h] = IF Announced(h) THEN "notify" ELSE "countUp"
    BY <1>1 DEF Vote, Busy, TypeOK
  <2>2. CASE ~Announced(h)
    <3>1. \A g \in Handlers : Telling(g)' => Telling(g) /\ req'[g] = req[g]
      BY <2>1, <2>2 DEF Telling
    <3> QED
      BY <3>1, <2>1, NobodyNewTells
  <2>3. CASE Announced(h)
    <3> DEFINE k == WorkKey(h, "vote")
    <3>1. k \in Key /\ ~Recorded(k)
      BY <2>1, <2>3, VoteKeyTyped DEF Announced
    <3>2. inbox[k] = 0
      BY <3>1 DEF AnnounceInv, ToldOfRecorded
    <3>3. \A g \in Handlers : WorkKey(g, "vote")' = WorkKey(g, "vote")
          /\ (\A role : WorkKey(g, role)' = WorkKey(g, role))
          /\ WorkRoles(g)' = WorkRoles(g)
      BY <2>1 DEF WorkKey, WorkSide, WorkRoles, Telling
    <3>4. \A role \in WorkRoles(h) : activity'[WorkKey(h, role)].st # "none"
      <4> SUFFICES ASSUME NEW role \in WorkRoles(h)
                   PROVE  activity'[WorkKey(h, role)].st # "none"
        OBVIOUS
      <4>1. WorkKey(h, role) \in Key /\ WorkKey(h, role).role = role
        BY <2>1, WorkKeyTyped DEF WorkKey, VoteKey
      <4> QED
        BY <4>1, <1>1 DEF Vote, LiveRow
    <3>5. Recorded(WorkKey(h, "vote"))'
      BY <3>3, <3>4 DEF Recorded, WorkRoles, WorkKey, VoteKey
    <3>6. ToldOfRecorded'
      BY <2>1, RecordedStays DEF AnnounceInv, ToldOfRecorded
    <3>7. ASSUME NEW g \in Handlers \ {h}, Telling(g)'
          PROVE  /\ WorkKey(g, "vote") # k
                 /\ Recorded(WorkKey(g, "vote"))'
                 /\ inbox'[WorkKey(g, "vote")'] = 0
      <4>1. Telling(g) /\ Busy(g)
        BY <2>1, <3>7 DEF Telling, Busy
      <4>2. WorkKey(g, "vote") \in Key /\ Recorded(WorkKey(g, "vote"))
            /\ inbox[WorkKey(g, "vote")] = 0
        BY <4>1, VoteKeyTyped DEF AnnounceInv, TellingFirst
      <4>3. \A j \in Key : Recorded(j) => Recorded(j)'
        BY RecordedStays
      <4>4. \A j : j \in Key /\ Recorded(j) /\ WorkKey(g, "vote")' = j
                   => Recorded(WorkKey(g, "vote"))'
        BY <4>3 DEF Recorded
      <4> QED
        BY <2>1, <3>1, <3>3, <4>2, <4>4
    <3>8. TellingFirst'
      BY <2>1, <3>2, <3>3, <3>5, <3>7 DEF TellingFirst
    <3>9. TellingApart'
      <4> SUFFICES ASSUME NEW f \in Handlers, NEW g \in Handlers, f # g,
                          Telling(f)', Telling(g)'
                   PROVE  WorkKey(f, "vote")' # WorkKey(g, "vote")'
        BY DEF TellingApart
      <4>1. CASE f = h
        BY <4>1, <3>3, <3>7
      <4>2. CASE g = h
        BY <4>2, <3>3, <3>7
      <4>3. CASE f # h /\ g # h
        BY <4>3, <2>1, <3>3 DEF AnnounceInv, TellingApart, Telling
      <4> QED
        BY <4>1, <4>2, <4>3
    <3> QED
      BY <3>6, <3>8, <3>9 DEF AnnounceInv
  <2> QED
    BY <2>2, <2>3
<1>2. ASSUME NEW h \in Handlers, Notify(h) PROVE AnnounceInv'
  <2> DEFINE k == WorkKey(h, "vote")
  <2>1. /\ Telling(h) /\ Busy(h)
        /\ inbox' = [inbox EXCEPT ![k] = @ + 1]
        /\ activity' = activity /\ req' = req
        /\ pc'[h] = "countUp" /\ \A g \in Handlers \ {h} : pc'[g] = pc[g]
    BY <1>2 DEF Notify, Telling, Busy, TypeOK
  <2>2. k \in Key /\ Recorded(k) /\ inbox[k] = 0
    BY <2>1, VoteKeyTyped DEF AnnounceInv, TellingFirst
  <2>3. \A j \in Key : inbox'[j] = IF j = k THEN 1 ELSE inbox[j]
    BY <2>1, <2>2 DEF TypeOK
  <2>4. \A j : Recorded(j)' = Recorded(j)
    BY <2>1 DEF Recorded
  <2>5. ToldOfRecorded'
    BY <2>2, <2>3, <2>4 DEF AnnounceInv, ToldOfRecorded
  <2>6. \A g \in Handlers : Telling(g)' =>
          g # h /\ Telling(g) /\ Busy(g) /\ WorkKey(g, "vote")' = WorkKey(g, "vote")
    BY <2>1 DEF Telling, Busy, WorkKey, WorkSide
  <2>7. ASSUME NEW g \in Handlers, Telling(g)'
        PROVE  Recorded(WorkKey(g, "vote"))' /\ inbox'[WorkKey(g, "vote")'] = 0
    <3>1. g # h /\ Telling(g) /\ Busy(g) /\ WorkKey(g, "vote")' = WorkKey(g, "vote")
      BY <2>6, <2>7
    <3>2. WorkKey(g, "vote") \in Key /\ WorkKey(g, "vote") # k
      BY <2>1, <3>1, VoteKeyTyped DEF AnnounceInv, TellingApart
    <3>3. Recorded(WorkKey(g, "vote")) /\ inbox[WorkKey(g, "vote")] = 0
      BY <3>1 DEF AnnounceInv, TellingFirst
    <3>4. Recorded(WorkKey(g, "vote"))'
      BY <2>1, <3>1, <3>3 DEF Recorded
    <3> QED
      BY <2>3, <3>1, <3>2, <3>3, <3>4
  <2>8. TellingApart'
    BY <2>6 DEF AnnounceInv, TellingApart
  <2> QED
    BY <2>5, <2>7, <2>8 DEF AnnounceInv, TellingFirst
<1>3. CASE (\E h \in Handlers : \/ \E r \in Request : Receive(h, r)
                                \/ \E role \in Roles : ReadRow(h, role)
                                \/ SkipCancel(h) \/ CancelVote(h) \/ SkipVote(h)
                                \/ CountUp(h) \/ CountDown(h) \/ UpdateVotes(h)
                                \/ Fail(h))
           \/ NewDay \/ UNCHANGED vars
  <2>1. inbox' = inbox
    BY <1>3 DEF Receive, ReadRow, SkipCancel, CancelVote, SkipVote, CountUp,
                CountDown, UpdateVotes, Fail, NewDay, tables, vars
  <2>2. \A h \in Handlers : Telling(h)' => Telling(h) /\ req'[h] = req[h]
    BY <1>3 DEF Receive, ReadRow, SkipCancel, CancelVote, SkipVote, CountUp,
                CountDown, UpdateVotes, Fail, Finish, NewDay, AfterCancel,
                tables, vars, Telling, TypeOK
  <2> QED
    BY <2>1, <2>2, NobodyNewTells
<1> QED
  BY <1>1, <1>2, <1>3 DEF Next, Step

(* However votes on a post overlap, fail and are withdrawn and cast again, *)
(* the author is sent one notification of a user's first vote of a kind.   *)
THEOREM FirstVoteAnnouncedOnce == Spec => []AnnouncedOnce
<1>1. TypedFloor /\ AnnounceInv /\ [Next]_vars => AnnounceInv'
  BY StepAnnounceInv DEF TypedFloor
<1>2. AnnounceInv => AnnouncedOnce
  BY DEF AnnounceInv, ToldOfRecorded, AnnouncedOnce
<1> QED
  BY InitTypedFloor, StepTypedFloor, InitAnnounceInv, <1>1, <1>2, PTL DEF Spec
-----------------------------------------------------------------------------
(***************************************************************************)
(* The two rows of a vote.  A transaction writes them together, and while  *)
(* the reads before it are current it treats them alike.                   *)
(***************************************************************************)
Paired(u, p, s) ==
  activity[VoteKey(u, p, s, "vote")].st = activity[VoteKey(u, p, s, "voted")].st

LEMMA PairedIsPaired ==
  PairedRows <=> \A u \in Users, p \in Posts, s \in Sides :
                   Kind[p] # "comment" => Paired(u, p, s)
BY DEF PairedRows, Paired

(* The keys of the two rows of a vote on a question or an answer, and which *)
(* of them are the rows handler h works on.                                *)
LEMMA PairOfRows ==
  ASSUME TypeOK, NEW h \in Handlers, Busy(h),
         NEW u \in Users, NEW p \in Posts, NEW s \in Sides, Kind[p] # "comment"
  PROVE  /\ \A role \in Roles : /\ VoteKey(u, p, s, role) \in Key
                                /\ VoteKey(u, p, s, role).role = role
         /\ \/ /\ u = req[h].voter /\ p = req[h].post /\ s = WorkSide(h)
               /\ WorkRoles(h) = Roles
               /\ \A role \in Roles : VoteKey(u, p, s, role) = WorkKey(h, role)
            \/ \A role, other \in Roles : VoteKey(u, p, s, role) # WorkKey(h, other)
<1>1. \A role \in Roles : /\ VoteKey(u, p, s, role) \in Key
                          /\ VoteKey(u, p, s, role).role = role
  BY DEF VoteKey, Key
<1>2. CASE u = req[h].voter /\ p = req[h].post /\ s = WorkSide(h)
  BY <1>1, <1>2 DEF WorkRoles, ActRoles, WorkKey
<1>3. CASE u # req[h].voter \/ p # req[h].post \/ s # WorkSide(h)
  BY <1>1, <1>3 DEF WorkKey, VoteKey
<1> QED
  BY <1>1, <1>2, <1>3

LEMMA CancelKeepsPairs ==
  ASSUME TypeOK, ReadsAreCurrent, PairedRows, NEW h \in Handlers, CancelVote(h)
  PROVE  PairedRows'
<1> SUFFICES ASSUME NEW u \in Users, NEW p \in Posts, NEW s \in Sides,
                    Kind[p] # "comment"
             PROVE  Paired(u, p, s)'
  BY DEF PairedRows, Paired
<1> DEFINE k(role) == VoteKey(u, p, s, role)
<1>1. activity' = [j \in Key |-> IF j \in Found(h) THEN CancelRow(activity[j])
                                                    ELSE activity[j]]
  BY DEF CancelVote
<1>2. \A j \in Key : CancelRow(activity[j]).st = "cancelled"
  BY DEF TypeOK, CancelRow, ActivityRow
<1>3. Busy(h) /\ pc[h] = "readCancel" /\ Paired(u, p, s)
  BY PairedIsPaired DEF CancelVote, Busy
<1>4. \A role \in Roles : k(role) \in Key
  BY <1>3, PairOfRows
<1>5. CASE /\ WorkRoles(h) = Roles
           /\ \A role \in Roles : k(role) = WorkKey(h, role)
  <2>1. \A role \in Roles : seen[h][role].st = activity[k(role)].st
    BY <1>3, <1>5 DEF CancelVote, SeenAll, ReadsAreCurrent
  <2>2. \A role \in Roles : k(role) \in Found(h) <=> activity[k(role)].st # "none"
    BY <1>5, <2>1 DEF Found, WorkKey, VoteKey
  <2>3. activity[k("vote")].st = activity[k("voted")].st
    BY <1>3 DEF Paired
  <2>4. activity'[k("vote")].st = activity'[k("voted")].st
    BY <1>1, <1>2, <1>4, <2>2, <2>3 DEF Roles
  <2> QED BY <2>4 DEF Paired
<1>6. CASE \A role, other \in Roles : k(role) # WorkKey(h, other)
  <2>1. \A role \in Roles : k(role) \notin Found(h)
    BY <1>6 DEF Found, WorkRoles, ActRoles, Roles
  <2>2. \A role \in Roles : activity'[k(role)] = activity[k(role)]
    BY <1>1, <1>4, <2>1
  <2> QED BY <1>3, <2>2 DEF Paired, Roles
<1> QED BY <1>3, <1>5, <1>6, PairOfRows

LEMMA VoteKeepsPairs ==
  ASSUME TypeOK, PairedRows, NEW h \in Handlers, Vote(h)
  PROVE  PairedRows'
<1> SUFFICES ASSUME NEW u \in Users, NEW p \in Posts, NEW s \in Sides,
                    Kind[p] # "comment"
             PROVE  Paired(u, p, s)'
  BY DEF PairedRows, Paired
<1> DEFINE k(role) == VoteKey(u, p, s, role)
<1>1. activity' = [j \in Key |->
         IF /\ j.role \in WorkRoles(h)
            /\ j = WorkKey(h, j.role)
            /\ activity[j].st # "live"
           THEN LiveRow(Granted(h, j.role)) ELSE activity[j]]
  BY DEF Vote
<1>2. Busy(h) /\ Paired(u, p, s)
  BY PairedIsPaired DEF Vote, Busy
<1>3. \A role \in Roles : k(role) \in Key /\ k(role).role = role
  BY <1>2, PairOfRows
<1>4. \A points : LiveRow(points).st = "live"
  BY DEF LiveRow
<1>5. CASE /\ WorkRoles(h) = Roles
           /\ \A role \in Roles : k(role) = WorkKey(h, role)
  <2>1. \A role \in Roles : activity'[k(role)].st = "live"
    BY <1>1, <1>3, <1>4, <1>5
  <2> QED BY <2>1 DEF Paired, Roles
<1>6. CASE \A role, other \in Roles : k(role) # WorkKey(h, other)
  <2>1. \A role \in Roles : activity'[k(role)] = activity[k(role)]
    BY <1>1, <1>3, <1>6
  <2> QED BY <1>2, <2>1 DEF Paired, Roles
<1> QED BY <1>2, <1>5, <1>6, PairOfRows

LEMMA StepPairedRows ==
  TypeOK /\ StanceInv /\ PairedRows /\ [Next]_vars => PairedRows'
<1> SUFFICES ASSUME TypeOK, StanceInv, PairedRows, [Next]_vars PROVE PairedRows'
  OBVIOUS
<1>1. CASE activity' = activity
  BY <1>1 DEF PairedRows
<1>2. CASE NewDay
  <2>1. \A k \in Key : activity'[k].st = activity[k].st
    BY <1>2 DEF NewDay, TypeOK, ActivityRow
  <2>2. \A u \in Users, p \in Posts, s \in Sides, role \in Roles :
          VoteKey(u, p, s, role) \in Key
    BY DEF VoteKey, Key
  <2> QED BY <2>1, <2>2 DEF PairedRows, Roles
<1> QED
  BY <1>1, <1>2, CancelKeepsPairs, VoteKeepsPairs
  DEF StanceInv, Next, Step, Receive, ReadRow, SkipCancel, SkipVote, Notify, CountUp,
      CountDown, UpdateVotes, Fail, tables, vars

(* With one vote per user and post in flight, the row of the voter and the *)
(* row of the author count or are cancelled together, also when a request  *)
(* fails half way.                                                         *)
THEOREM RowsArePaired == OneAtATime => (Spec => []PairedRows)
<1> SUFFICES ASSUME OneAtATime PROVE Spec => []PairedRows
  OBVIOUS
<1>1. Init => PairedRows
  BY DEF Init, PairedRows, VoteKey, Key, Roles
<1> QED
  BY StanceInvariant, StepPairedRows, <1>1, PTL DEF Spec
-----------------------------------------------------------------------------
(***************************************************************************)
(* Sums over finite sets: the integers f[x] of the elements x of a set, as *)
(* MapThenSumSet adds them up.                                             *)
(***************************************************************************)
SumOver(f, S) == MapThenSumSet(LAMBDA k : f[k], S)

First(S) == CHOOSE x \in S : TRUE

Adds(f, S, g) ==
  g = [T \in SUBSET S |-> IF T = {} THEN 0 ELSE f[First(T)] + g[T \ {First(T)}]]

LEMMA SumUnfold ==
  ASSUME NEW f, NEW S
  PROVE  SumOver(f, S) = (CHOOSE g : Adds(f, S, g))[S]
BY DEF SumOver, MapThenSumSet, MapThenFoldSet, Adds, First

(* Induction over the natural numbers in a set of them: the successor would *)
(* be an injection of a finite set into itself that misses 0.               *)
LEMMA InductiveSet ==
  ASSUME NEW N, 0 \in N, \A n \in Nat : n \in N => n + 1 \in N
  PROVE  \A n \in Nat : n \in N
<1> SUFFICES ASSUME NEW m \in Nat, m \notin N PROVE FALSE
  OBVIOUS
<1> DEFINE S == {n \in 0..m : n \in N}
           f == [n \in S |-> n + 1]
<1>1. IsFiniteSet(S)
  <2>1. IsFiniteSet(0..m)
    BY FS_Interval
  <2>2. S \in SUBSET (0..m)
    OBVIOUS
  <2> HIDE DEF S
  <2> QED BY <2>1, <2>2, FS_Subset
<1>2. f \in [S -> S]
  OBVIOUS
<1>3. f \in Injection(S, S)
  <2>1. \A a, b \in S : f[a] = f[b] => a = b
    OBVIOUS
  <2>2. DOMAIN f = S
    OBVIOUS
  <2> HIDE DEF S, f
  <2> QED BY <1>2, <2>1, <2>2 DEF Injection, IsInjective
<1>4. f \in Surjection(S, S)
  <2> HIDE DEF S, f
  <2> QED BY <1>1, <1>3, FS_Injection
<1>5. 0 \in S
  OBVIOUS
<1>6. PICK n \in S : f[n] = 0
  <2> HIDE DEF S, f
  <2> QED BY <1>4, <1>5 DEF Surjection
<1> QED BY <1>6

(* The recursive function that MapThenSumSet chooses exists...             *)
AddsUpTo(f, S, n, g) ==
  \A T \in SUBSET S : Cardinality(T) <= n =>
    g[T] = IF T = {} THEN 0 ELSE f[First(T)] + g[T \ {First(T)}]

LEMMA FirstOf ==
  ASSUME NEW S, IsFiniteSet(S), NEW T \in SUBSET S, T # {}
  PROVE  /\ First(T) \in T
         /\ T \ {First(T)} \in SUBSET S
         /\ IsFiniteSet(T)
         /\ Cardinality(T) \in Nat /\ Cardinality(T \ {First(T)}) \in Nat
         /\ Cardinality(T \ {First(T)}) = Cardinality(T) - 1
<1>1. IsFiniteSet(T) /\ First(T) \in T
  BY FS_Subset DEF First
<1>2. IsFiniteSet(T \ {First(T)}) /\ Cardinality(T \ {First(T)}) = Cardinality(T) - 1
  BY <1>1, FS_RemoveElement
<1> QED BY <1>1, <1>2, FS_CardinalityType

LEMMA AddsExists ==
  ASSUME NEW S, IsFiniteSet(S), NEW D, S \subseteq D, NEW f \in [D -> Int]
  PROVE  \E g \in [SUBSET S -> Int] : Adds(f, S, g)
<1> DEFINE G == [SUBSET S -> Int]
           N == {n \in Nat : \E g \in G : AddsUpTo(f, S, n, g)}
<1>1. \A T \in SUBSET S : IsFiniteSet(T) /\ Cardinality(T) \in Nat
  BY FS_Subset, FS_CardinalityType
<1>2. \A T \in SUBSET S : Cardinality(T) = 0 <=> T = {}
  BY <1>1, FS_EmptySet
<1>3. 0 \in N
  <2> DEFINE g == [T \in SUBSET S |-> 0]
  <2>1. g \in G
    OBVIOUS
  <2>2. AddsUpTo(f, S, 0, g)
    BY <1>1, <1>2 DEF AddsUpTo
  <2> QED BY <2>1, <2>2
<1>4. ASSUME NEW n \in Nat, n \in N PROVE n + 1 \in N
  <2>1. PICK g \in G : AddsUpTo(f, S, n, g)
    BY <1>4
  <2> DEFINE e == [T \in SUBSET S |->
                     IF Cardinality(T) = n + 1 THEN f[First(T)] + g[T \ {First(T)}]
                                               ELSE g[T]]
  <2>2. e \in G
    <3> SUFFICES ASSUME NEW T \in SUBSET S, Cardinality(T) = n + 1
                 PROVE  f[First(T)] + g[T \ {First(T)}] \in Int
      OBVIOUS
    <3>1. T # {}
      BY <1>1, <1>2
    <3> QED BY <3>1, FirstOf
  <2>3. AddsUpTo(f, S, n + 1, e)
    <3> SUFFICES ASSUME NEW T \in SUBSET S, Cardinality(T) <= n + 1
                 PROVE  e[T] = IF T = {} THEN 0 ELSE f[First(T)] + e[T \ {First(T)}]
      BY DEF AddsUpTo
    <3>1. CASE T = {}
      <4>1. Cardinality(T) = 0 /\ Cardinality(T) <= n
        BY <3>1, FS_EmptySet
      <4>2. e[T] = g[T] /\ g[T] = 0
        BY <2>1, <3>1, <4>1 DEF AddsUpTo
      <4> QED BY <3>1, <4>2
    <3>2. CASE T # {}
      <4> DEFINE R == T \ {First(T)}
      <4>1. R \in SUBSET S /\ Cardinality(R) = Cardinality(T) - 1
            /\ Cardinality(T) \in Nat
        BY <3>2, FirstOf
      <4> HIDE DEF R
      <4>2. e[R] = g[R]
        BY <4>1
      <4>3. e[T] = f[First(T)] + g[R]
        <5>1. CASE Cardinality(T) = n + 1
          BY <5>1 DEF R
        <5>2. CASE Cardinality(T) # n + 1
          <6>1. Cardinality(T) <= n
            BY <4>1, <5>2
          <6>2. g[T] = f[First(T)] + g[R]
            BY <2>1, <3>2, <6>1 DEF AddsUpTo, R
          <6> QED BY <5>2, <6>2
        <5> QED BY <5>1, <5>2
      <4> QED BY <3>2, <4>2, <4>3 DEF R
    <3> QED BY <3>1, <3>2
  <2> HIDE DEF e
  <2> QED BY <2>2, <2>3
<1>5. Cardinality(S) \in N
  <2> HIDE DEF N
  <2>1. \A n \in Nat : n \in N
    BY <1>3, <1>4, InductiveSet
  <2>2. Cardinality(S) \in Nat
    BY <1>1
  <2> QED BY <2>1, <2>2
<1>6. PICK g \in G : AddsUpTo(f, S, Cardinality(S), g)
  BY <1>5
<1>7. Adds(f, S, g)
  <2>1. \A T \in SUBSET S : Cardinality(T) <= Cardinality(S)
    BY FS_Subset
  <2>2. \A T \in SUBSET S :
          g[T] = IF T = {} THEN 0 ELSE f[First(T)] + g[T \ {First(T)}]
    BY <1>6, <2>1 DEF AddsUpTo
  <2> QED BY <2>2 DEF Adds
<1> QED BY <1>7

(* ... and there is one only: it depends on the terms and not on the set    *)
(* it is defined over.                                                     *)
LEMMA AddsUnique ==
  ASSUME NEW S, IsFiniteSet(S), NEW f, NEW g, NEW T \in SUBSET S, NEW e, NEW d,
         \A x \in T : f[x] = e[x], Adds(f, S, g), Adds(e, T, d)
  PROVE  g[T] = d[T]
<1> DEFINE N == {n \in Nat : \A R \in SUBSET T : Cardinality(R) = n => g[R] = d[R]}
<1>1. IsFiniteSet(T) /\ \A R \in SUBSET T : IsFiniteSet(R) /\ Cardinality(R) \in Nat
  BY FS_Subset, FS_CardinalityType
<1>2. \A R \in SUBSET T : Cardinality(R) = 0 <=> R = {}
  BY <1>1, FS_EmptySet
<1>3. \A R \in SUBSET T :
        /\ g[R] = IF R = {} THEN 0 ELSE f[First(R)] + g[R \ {First(R)}]
        /\ d[R] = IF R = {} THEN 0 ELSE e[First(R)] + d[R \ {First(R)}]
  BY DEF Adds
<1>4. 0 \in N
  BY <1>2, <1>3
<1>5. ASSUME NEW n \in Nat, n \in N PROVE n + 1 \in N
  <2> SUFFICES ASSUME NEW R \in SUBSET T, Cardinality(R) = n + 1 PROVE g[R] = d[R]
    OBVIOUS
  <2>1. R # {}
    BY <1>2
  <2>2. /\ First(R) \in R /\ R \ {First(R)} \in SUBSET T
        /\ Cardinality(R \ {First(R)}) = n
    BY <1>1, <2>1, FirstOf
  <2>3. g[R \ {First(R)}] = d[R \ {First(R)}]
    BY <1>5, <2>2
  <2> QED BY <1>3, <2>1, <2>2, <2>3
<1>6. Cardinality(T) \in N
  <2> HIDE DEF N
  <2>1. \A n \in Nat : n \in N
    BY <1>4, <1>5, InductiveSet
  <2> QED BY <1>1, <2>1
<1> QED BY <1>6

(* So the sum over a part of S can be read off the function of S.           *)
LEMMA SumOfPart ==
  ASSUME NEW S, IsFiniteSet(S), NEW D, S \subseteq D, NEW f \in [D -> Int],
         NEW g, Adds(f, S, g), NEW T \in SUBSET S
  PROVE  SumOver(f, T) = g[T]
<1>1. IsFiniteSet(T) /\ T \subseteq D
  BY FS_Subset
<1>2. \E d : Adds(f, T, d)
  BY <1>1, AddsExists
<1> DEFINE d == CHOOSE d : Adds(f, T, d)
<1>3. Adds(f, T, d)
  BY <1>2
<1>4. SumOver(f, T) = d[T]
  BY SumUnfold
<1> HIDE DEF d
<1>5. \A x \in T : f[x] = f[x]
  OBVIOUS
<1> QED BY <1>3, <1>4, <1>5, AddsUnique

(* A sum of integers is an integer; it depends on the terms it sums.        *)
LEMMA SumTyped ==
  ASSUME NEW D, NEW f \in [D -> Int], NEW S \in SUBSET D, IsFiniteSet(S)
  PROVE  SumOver(f, S) \in Int
<1>1. PICK g \in [SUBSET S -> Int] : Adds(f, S, g)
  BY AddsExists
<1>2. SumOver(f, S) = g[S]
  BY <1>1, SumOfPart
<1> QED BY <1>2

LEMMA SumSame ==
  ASSUME NEW D, NEW f \in [D -> Int], NEW C, NEW e \in [C -> Int],
         NEW S \in SUBSET (D \cap C), IsFiniteSet(S), \A x \in S : f[x] = e[x]
  PROVE  SumOver(f, S) = SumOver(e, S)
<1>1. PICK g \in [SUBSET S -> Int] : Adds(f, S, g)
  BY AddsExists
<1>2. PICK d \in [SUBSET S -> Int] : Adds(e, S, d)
  BY AddsExists
<1>3. g[S] = d[S]
  BY <1>1, <1>2, AddsUnique
<1>4. SumOver(f, S) = g[S]
  BY <1>1, SumOfPart
<1>5. SumOver(e, S) = d[S]
  BY <1>2, SumOfPart
<1> QED BY <1>3, <1>4, <1>5

LEMMA SumEmpty ==
  ASSUME NEW D, NEW f \in [D -> Int]
  PROVE  SumOver(f, {}) = 0
<1>1. IsFiniteSet({})
  BY FS_EmptySet
<1>2. PICK g \in [SUBSET {} -> Int] : Adds(f, {}, g)
  BY <1>1, AddsExists
<1>3. SumOver(f, {}) = g[{}]
  BY <1>1, <1>2, SumOfPart
<1> QED BY <1>2, <1>3 DEF Adds

(* Any term can be taken out of a sum.                                     *)
LEMMA SumRemove ==
  ASSUME NEW D, NEW f \in [D -> Int], NEW S \in SUBSET D, IsFiniteSet(S), NEW x \in S
  PROVE  SumOver(f, S) = f[x] + SumOver(f, S \ {x})
<1>1. PICK g \in [SUBSET S -> Int] : Adds(f, S, g)
  BY AddsExists
<1> DEFINE N == {n \in Nat : \A T \in SUBSET S : \A y \in T :
                               Cardinality(T) = n => g[T] = f[y] + g[T \ {y}]}
<1>2. \A T \in SUBSET S : IsFiniteSet(T) /\ Cardinality(T) \in Nat
  BY FS_Subset, FS_CardinalityType
<1>3. \A T \in SUBSET S : Cardinality(T) = 0 <=> T = {}
  BY <1>2, FS_EmptySet
<1>4. \A T \in SUBSET S :
        g[T] = IF T = {} THEN 0 ELSE f[First(T)] + g[T \ {First(T)}]
  BY <1>1 DEF Adds
<1>5. 0 \in N
  BY <1>3
<1>6. ASSUME NEW n \in Nat, n \in N PROVE n + 1 \in N
  <2> SUFFICES ASSUME NEW T \in SUBSET S, NEW y \in T, Cardinality(T) = n + 1
               PROVE  g[T] = f[y] + g[T \ {y}]
    OBVIOUS
  <2> DEFINE z == First(T)
  <2>1. z \in T /\ g[T] = f[z] + g[T \ {z}]
    BY <1>4, FirstOf
  <2>2. CASE y = z
    BY <2>1, <2>2
  <2>3. CASE y # z
    <3>1. /\ T \ {z} \in SUBSET S /\ y \in T \ {z} /\ Cardinality(T \ {z}) = n
          /\ T \ {y} \in SUBSET S /\ z \in T \ {y} /\ Cardinality(T \ {y}) = n
      <4> HIDE DEF z
      <4>1. IsFiniteSet(T) /\ Cardinality(T) - 1 = n
        BY <1>2
      <4>2. Cardinality(T \ {z}) = n /\ Cardinality(T \ {y}) = n
        BY <2>1, <4>1, FS_RemoveElement
      <4> QED BY <2>1, <2>3, <4>2
    <3> HIDE DEF z
    <3>2. g[T \ {z}] = f[y] + g[(T \ {z}) \ {y}]
      BY <1>6, <3>1
    <3>3. g[T \ {y}] = f[z] + g[(T \ {y}) \ {z}]
      BY <1>6, <3>1
    <3>4. (T \ {z}) \ {y} = (T \ {y}) \ {z}
      OBVIOUS
    <3>5. (T \ {z}) \ {y} \in SUBSET S
      BY <3>1
    <3> DEFINE c == g[(T \ {z}) \ {y}]
    <3>6. f[y] \in Int /\ f[z] \in Int /\ c \in Int
      BY <1>1, <2>1, <3>5
    <3>7. g[T] = f[z] + (f[y] + c) /\ g[T \ {y}] = f[z] + c
      BY <2>1, <3>2, <3>3, <3>4
    <3> HIDE DEF c
    <3> QED BY <3>6, <3>7
  <2> QED BY <2>2, <2>3
<1>7. Cardinality(S) \in N
  <2> HIDE DEF N
  <2>1. \A n \in Nat : n \in N
    BY <1>5, <1>6, InductiveSet
  <2> QED BY <1>2, <2>1
<1>8. g[S] = f[x] + g[S \ {x}]
  BY <1>7
<1>9. S \in SUBSET S /\ S \ {x} \in SUBSET S
  OBVIOUS
<1>10. SumOver(f, S) = g[S] /\ SumOver(f, S \ {x}) = g[S \ {x}]
  BY <1>1, <1>9, SumOfPart
<1> QED BY <1>8, <1>10

-----------------------------------------------------------------------------
(***************************************************************************)
(* The rank and the rows that count.  The points of a user are a sum over  *)
(* rows; a transaction changes one row of a user, and so the sum by what   *)
(* that row is worth after it less what it was worth before.               *)
(***************************************************************************)
Counting(table, u) == {k \in Key : KeyUser(k) = u /\ table[k].st = "live"}

PointsOf(table, u) == MapThenSumSet(LAMBDA k : table[k].rank, Counting(table, u))

PointsIn(table) == [k \in Key |-> table[k].rank]

Worth(row) == IF row.st = "live" THEN row.rank ELSE 0

LEMMA PointsAreSum ==
  ASSUME NEW table \in [Key -> ActivityRow], NEW u, IsFiniteSet(Counting(table, u))
  PROVE  PointsOf(table, u) = SumOver(PointsIn(table), Counting(table, u))
<1> DEFINE C == Counting(table, u)
           AddsRows(g) ==
             g = [T \in SUBSET C |->
                    IF T = {} THEN 0 ELSE table[First(T)].rank + g[T \ {First(T)}]]
           d == CHOOSE g : AddsRows(g)
<1>1. PointsOf(table, u) = d[C]
  BY DEF PointsOf, MapThenSumSet, MapThenFoldSet, First
<1>2. C \subseteq Key /\ PointsIn(table) \in [Key -> Int]
  BY DEF Counting, PointsIn, ActivityRow
<1>3. \A T \in SUBSET C : T # {} => PointsIn(table)[First(T)] = table[First(T)].rank
  BY <1>2 DEF First, PointsIn
<1>4. \A g : Adds(PointsIn(table), C, g) <=> AddsRows(g)
  BY <1>3 DEF Adds
<1>5. \E g : Adds(PointsIn(table), C, g)
  BY <1>2, AddsExists
<1> HIDE DEF AddsRows
<1>6. AddsRows(d)
  BY <1>4, <1>5
<1> HIDE DEF d
<1>7. Adds(PointsIn(table), C, d) /\ C \in SUBSET C
  BY <1>4, <1>6
<1>8. SumOver(PointsIn(table), C) = d[C]
  BY <1>2, <1>7, SumOfPart
<1> QED BY <1>1, <1>8

(* The points of u are those of all rows but k, and what k is worth.       *)
LEMMA PointsWithout ==
  ASSUME NEW table \in [Key -> ActivityRow], NEW u, IsFiniteSet(Counting(table, u)),
         NEW k \in Key, KeyUser(k) = u
  PROVE  /\ PointsOf(table, u) = SumOver(PointsIn(table), Counting(table, u) \ {k})
                                   + Worth(table[k])
         /\ SumOver(PointsIn(table), Counting(table, u) \ {k}) \in Int
<1> DEFINE C == Counting(table, u)
           f == PointsIn(table)
<1>1. C \in SUBSET Key /\ f \in [Key -> Int] /\ f[k] = table[k].rank
  BY DEF Counting, PointsIn, ActivityRow
<1>2. k \in C <=> table[k].st = "live"
  BY DEF Counting
<1>3. IsFiniteSet(C \ {k}) /\ C \ {k} \in SUBSET Key
  BY <1>1, FS_RemoveElement
<1>4. PointsOf(table, u) = SumOver(f, C)
  BY PointsAreSum
<1>5. SumOver(f, C \ {k}) \in Int
  BY <1>1, <1>3, SumTyped
<1>6. CASE k \in C
  <2>1. SumOver(f, C) = f[k] + SumOver(f, C \ {k})
    BY <1>1, <1>6, SumRemove
  <2>2. f[k] \in Int /\ Worth(table[k]) = f[k]
    BY <1>1, <1>2, <1>6 DEF Worth
  <2> HIDE DEF f, C
  <2> QED BY <1>4, <1>5, <2>1, <2>2 DEF f, C
<1>7. CASE k \notin C
  <2>1. C \ {k} = C
    BY <1>7
  <2>2. Worth(table[k]) = 0
    BY <1>2, <1>7 DEF Worth
  <2>3. SumOver(f, C \ {k}) = SumOver(f, C)
    BY <2>1
  <2>4. PointsOf(table, u) = SumOver(f, C \ {k}) + Worth(table[k])
    <3> HIDE DEF f, C
    <3> QED BY <1>4, <1>5, <2>2, <2>3
  <2> QED BY <1>5, <2>4
<1> QED BY <1>6, <1>7

LEMMA PointsChange ==
  ASSUME NEW table \in [Key -> ActivityRow], NEW next \in [Key -> ActivityRow], NEW u,
         IsFiniteSet(Counting(table, u)), NEW k \in Key, KeyUser(k) = u,
         \A j \in Key : (KeyUser(j) = u /\ j # k) =>
           next[j].st = table[j].st /\ next[j].rank = table[j].rank
  PROVE  /\ PointsOf(next, u) = PointsOf(table, u) + (Worth(next[k]) - Worth(table[k]))
         /\ IsFiniteSet(Counting(next, u))
<1> DEFINE C == Counting(table, u) \ {k}
<1>1. C = Counting(next, u) \ {k}
  BY DEF Counting
<1>2. IsFiniteSet(C) /\ C \in SUBSET Key
  BY FS_RemoveElement DEF Counting
<1>3. IsFiniteSet(Counting(next, u))
  <2>1. IsFiniteSet(C \cup {k})
    BY <1>2, FS_AddElement
  <2>2. Counting(next, u) \in SUBSET (C \cup {k})
    BY <1>1
  <2> QED BY <2>1, <2>2, FS_Subset
<1>4. SumOver(PointsIn(table), C) = SumOver(PointsIn(next), C)
  <2>1. PointsIn(table) \in [Key -> Int] /\ PointsIn(next) \in [Key -> Int]
    BY DEF PointsIn, ActivityRow
  <2>2. \A x \in C : PointsIn(table)[x] = PointsIn(next)[x]
    BY DEF PointsIn, Counting
  <2>3. C \in SUBSET (Key \cap Key)
    BY <1>2
  <2> QED BY <1>2, <2>1, <2>2, <2>3, SumSame
<1>5. /\ PointsOf(table, u) = SumOver(PointsIn(table), C) + Worth(table[k])
      /\ SumOver(PointsIn(table), C) \in Int
  BY PointsWithout
<1>6. PointsOf(next, u) = SumOver(PointsIn(next), C) + Worth(next[k])
  BY <1>1, <1>3, PointsWithout
<1>7. Worth(table[k]) \in Int /\ Worth(next[k]) \in Int
  BY DEF Worth, ActivityRow
<1> HIDE DEF C
<1> QED BY <1>3, <1>4, <1>5, <1>6, <1>7

LEMMA PointsSame ==
  ASSUME NEW table \in [Key -> ActivityRow], NEW next \in [Key -> ActivityRow], NEW u,
         IsFiniteSet(Counting(table, u)),
         \A j \in Key : KeyUser(j) = u =>
           next[j].st = table[j].st /\ next[j].rank = table[j].rank
  PROVE  /\ PointsOf(next, u) = PointsOf(table, u)
         /\ IsFiniteSet(Counting(next, u))
<1> DEFINE C == Counting(table, u)
<1>1. C = Counting(next, u) /\ C \in SUBSET (Key \cap Key)
  BY DEF Counting
<1>2. PointsIn(table) \in [Key -> Int] /\ PointsIn(next) \in [Key -> Int]
  BY DEF PointsIn, ActivityRow
<1>3. \A x \in C : PointsIn(table)[x] = PointsIn(next)[x]
  BY DEF PointsIn, Counting
<1>4. SumOver(PointsIn(table), C) = SumOver(PointsIn(next), C)
  BY <1>1, <1>2, <1>3, SumSame
<1>5. PointsOf(table, u) = SumOver(PointsIn(table), C)
  BY PointsAreSum
<1>6. PointsOf(next, u) = SumOver(PointsIn(next), C)
  BY <1>1, PointsAreSum
<1> QED BY <1>1, <1>4, <1>5, <1>6

(* A transaction of handler h changes what its two rows are worth, one row  *)
(* of the voter and one of the author.                                     *)
LEMMA PointsOfWork ==
  ASSUME TypeOK, NotOwnPost, NEW h \in Handlers, Busy(h),
         NEW next \in [Key -> ActivityRow], NEW delta \in [Roles -> Int],
         \A role \in Roles \ WorkRoles(h) : delta[role] = 0,
         \A role \in WorkRoles(h) :
           Worth(next[WorkKey(h, role)]) - Worth(activity[WorkKey(h, role)]) = delta[role],
         \A k \in Key : (\A role \in WorkRoles(h) : k # WorkKey(h, role)) =>
                          next[k] = activity[k],
         NEW u \in Users, IsFiniteSet(Counting(activity, u))
  PROVE  /\ IsFiniteSet(Counting(next, u))
         /\ PointsOf(next, u) = PointsOf(activity, u)
              + (IF u = req[h].voter THEN delta["vote"]
                 ELSE IF u = Author[req[h].post] THEN delta["voted"] ELSE 0)
<1>1. activity \in [Key -> ActivityRow] /\ req[h].voter # Author[req[h].post]
  BY DEF TypeOK, NotOwnPost
<1>2. \A role \in WorkRoles(h) :
        /\ role \in Roles /\ WorkKey(h, role) \in Key
        /\ KeyUser(WorkKey(h, role)) = IF role = "vote" THEN req[h].voter
                                       ELSE Author[req[h].post]
  BY WorkKeyTyped DEF WorkKey, VoteKey, KeyUser
<1> DEFINE At(role) == u = IF role = "vote" THEN req[h].voter ELSE Author[req[h].post]
<1>3. PointsOf(activity, u) \in Int
  <2>1. Counting(activity, u) \in SUBSET Key /\ PointsIn(activity) \in [Key -> Int]
    BY <1>1 DEF Counting, PointsIn, ActivityRow
  <2>2. SumOver(PointsIn(activity), Counting(activity, u)) \in Int
    BY <2>1, SumTyped
  <2> QED BY <1>1, <2>2, PointsAreSum
<1>4. ASSUME NEW role \in WorkRoles(h), At(role)
      PROVE  /\ PointsOf(next, u) = PointsOf(activity, u) + delta[role]
             /\ IsFiniteSet(Counting(next, u))
  <2> DEFINE k == WorkKey(h, role)
  <2>1. k \in Key /\ KeyUser(k) = u
    BY <1>2, <1>4
  <2>2. \A j \in Key : KeyUser(j) = u /\ j # k => next[j] = activity[j]
    BY <1>1, <1>2, <1>4 DEF Roles
  <2> HIDE DEF k
  <2>3. /\ PointsOf(next, u) = PointsOf(activity, u) + (Worth(next[k]) - Worth(activity[k]))
        /\ IsFiniteSet(Counting(next, u))
    BY <1>1, <2>1, <2>2, PointsChange
  <2> QED BY <2>3 DEF k
<1>5. ASSUME \A role \in WorkRoles(h) : ~At(role)
      PROVE  PointsOf(next, u) = PointsOf(activity, u) /\ IsFiniteSet(Counting(next, u))
  <2>1. \A j \in Key : KeyUser(j) = u => next[j] = activity[j]
    BY <1>2, <1>5
  <2> QED BY <1>1, <2>1, PointsSame
<1>6. "vote" \in WorkRoles(h) /\ WorkRoles(h) \subseteq Roles
  BY DEF WorkRoles, ActRoles, Roles
<1>7. CASE u = req[h].voter
  BY <1>4, <1>6, <1>7
<1>8. CASE u = Author[req[h].post]
  <2>1. CASE "voted" \in WorkRoles(h)
    BY <1>1, <1>4, <1>8, <2>1
  <2>2. CASE "voted" \notin WorkRoles(h)
    <3>1. \A role \in WorkRoles(h) : ~At(role)
      BY <1>1, <1>6, <1>8, <2>2 DEF Roles
    <3>2. delta["voted"] = 0
      BY <2>2 DEF Roles
    <3> QED BY <1>1, <1>3, <1>5, <1>8, <3>1, <3>2
  <2> QED BY <2>1, <2>2
<1>9. CASE u # req[h].voter /\ u # Author[req[h].post]
  BY <1>3, <1>5, <1>9
<1> QED BY <1>7, <1>8, <1>9

Covered ==
  \A u \in Users :
    /\ IsFiniteSet(Counting(activity, u))
    /\ ~RankAgentEnabled => rank[u] >= InitialRank + PointsOf(activity, u)

LEMMA PointsTyped ==
  ASSUME TypeOK, NEW u, IsFiniteSet(Counting(activity, u))
  PROVE  PointsOf(activity, u) \in Int
<1>1. activity \in [Key -> ActivityRow]
  BY DEF TypeOK
<1>2. Counting(activity, u) \in SUBSET Key /\ PointsIn(activity) \in [Key -> Int]
  BY <1>1 DEF Counting, PointsIn, ActivityRow
<1>3. SumOver(PointsIn(activity), Counting(activity, u)) \in Int
  BY <1>2, SumTyped
<1> QED BY <1>1, <1>3, PointsAreSum

Follows(u) ==
  /\ IsFiniteSet(Counting(activity', u))
  /\ \E gain \in Int : /\ PointsOf(activity', u) = PointsOf(activity, u) + gain
                       /\ rank'[u] = ChangeUserRank(rank[u], gain)

LEMMA RankFollows ==
  ASSUME TypeOK, Covered, \A u \in Users : Follows(u)
  PROVE  Covered'
<1> SUFFICES ASSUME NEW u \in Users
             PROVE  /\ IsFiniteSet(Counting(activity', u))
                    /\ ~RankAgentEnabled => rank'[u] >= InitialRank + PointsOf(activity', u)
  BY DEF Covered
<1>1. PICK gain \in Int : /\ PointsOf(activity', u) = PointsOf(activity, u) + gain
                         /\ rank'[u] = ChangeUserRank(rank[u], gain)
  BY DEF Follows
<1>2. PointsOf(activity, u) \in Int /\ rank[u] \in Int /\ InitialRank \in Int
  BY PointsTyped, VoteAssumption DEF Covered, TypeOK
<1>3. IsFiniteSet(Counting(activity', u))
  BY DEF Follows
<1>4. ~RankAgentEnabled => rank'[u] >= rank[u] + gain
  BY <1>1, <1>2 DEF ChangeUserRank
<1>5. ~RankAgentEnabled => rank[u] >= InitialRank + PointsOf(activity, u)
  BY DEF Covered
<1>6. rank'[u] \in Int
  BY <1>1, <1>2, ChangeUserRankFloor
<1> QED BY <1>1, <1>2, <1>3, <1>4, <1>5, <1>6

LEMMA VoteCovered ==
  ASSUME TypeOK, TypeOK', NotOwnPost, Covered, NEW h \in Handlers, Vote(h)
  PROVE  Covered'
<1> DEFINE delta == [role \in Roles |-> Granted(h, role)]
<1>1. Busy(h)
  BY DEF Vote, Busy
<1>2. delta \in [Roles -> Int]
  BY <1>1, GrantedTyped
<1>3. \A k \in Key : activity'[k] = IF /\ k.role \in WorkRoles(h)
                                       /\ k = WorkKey(h, k.role)
                                       /\ activity[k].st # "live"
                                      THEN LiveRow(Granted(h, k.role))
                                      ELSE activity[k]
  BY DEF Vote
<1>4. \A role \in WorkRoles(h) :
        /\ role \in Roles /\ WorkKey(h, role) \in Key /\ WorkKey(h, role).role = role
  BY <1>1, WorkKeyTyped DEF WorkKey, VoteKey
<1>5. ASSUME NEW role \in WorkRoles(h)
      PROVE  Worth(activity'[WorkKey(h, role)]) - Worth(activity[WorkKey(h, role)])
               = delta[role]
  <2> DEFINE k == WorkKey(h, role)
  <2>1. k \in Key /\ k.role = role /\ Worth(activity[k]) \in Int
    BY <1>4 DEF Worth, TypeOK, ActivityRow
  <2>2. CASE activity[k].st = "live"
    <3>1. activity'[k] = activity[k] /\ delta[role] = 0
      BY <1>3, <1>4, <2>1, <2>2 DEF Granted
    <3> QED BY <2>1, <3>1
  <2>3. CASE activity[k].st # "live"
    <3>1. activity'[k] = LiveRow(Granted(h, role)) /\ Worth(activity[k]) = 0
      BY <1>3, <2>1, <2>3 DEF Worth
    <3>2. Worth(activity'[k]) = Granted(h, role) /\ Granted(h, role) \in Int
      BY <1>1, <1>4, <3>1, GrantedTyped DEF Worth, LiveRow
    <3> QED BY <1>4, <3>1, <3>2
  <2> QED BY <2>2, <2>3
<1>6. \A k \in Key : (\A role \in WorkRoles(h) : k # WorkKey(h, role)) =>
                      activity'[k] = activity[k]
  BY <1>3
<1>7. \A role \in Roles \ WorkRoles(h) : delta[role] = 0
  BY DEF Granted
<1>8. ASSUME NEW u \in Users PROVE Follows(u)
  <2> DEFINE gain == IF u = req[h].voter THEN delta["vote"]
                     ELSE IF u = Author[req[h].post] THEN delta["voted"] ELSE 0
  <2>1. activity' \in [Key -> ActivityRow] /\ IsFiniteSet(Counting(activity, u))
    BY DEF TypeOK, Covered
  <2>2. rank'[u] = ChangeUserRank(rank[u], gain)
    BY DEF Vote, Gain, Roles
  <2>3. gain \in Int
    BY <1>2 DEF Roles
  <2> HIDE DEF delta
  <2>4. /\ IsFiniteSet(Counting(activity', u))
        /\ PointsOf(activity', u) = PointsOf(activity, u) + gain
    BY <1>1, <1>2, <1>5, <1>6, <1>7, <2>1, PointsOfWork
  <2> HIDE DEF gain
  <2> QED BY <2>2, <2>3, <2>4 DEF Follows
<1> QED BY <1>8, RankFollows

LEMMA CancelCovered ==
  ASSUME TypeOK, TypeOK', NotOwnPost, ReadsAreCurrent, Covered,
         NEW h \in Handlers, CancelVote(h)
  PROVE  Covered'
<1> DEFINE delta == [role \in Roles |-> RolledBack(h, role)]
<1>1. Busy(h) /\ pc[h] = "readCancel"
  BY DEF CancelVote, Busy
<1>2. delta \in [Roles -> Int]
  BY RolledBackTyped
<1>3. \A k \in Key : activity'[k] = IF k \in Found(h) THEN CancelRow(activity[k])
                                                       ELSE activity[k]
  BY DEF CancelVote
<1>4. \A role \in WorkRoles(h) :
        /\ role \in Roles /\ WorkKey(h, role) \in Key /\ WorkKey(h, role).role = role
  BY <1>1, WorkKeyTyped DEF WorkKey, VoteKey
<1>5. ASSUME NEW role \in WorkRoles(h)
      PROVE  Worth(activity'[WorkKey(h, role)]) - Worth(activity[WorkKey(h, role)])
               = delta[role]
  <2> DEFINE k == WorkKey(h, role)
  <2>1. k \in Key /\ role \in Roles /\ activity[k] \in ActivityRow
    BY <1>4 DEF TypeOK
  <2>2. seen[h][role].st = activity[k].st /\ seen[h][role].rank = activity[k].rank
    BY <1>1 DEF CancelVote, SeenAll, ReadsAreCurrent
  <2>3. k \in Found(h) <=> activity[k].st # "none"
    BY <1>4, <2>2 DEF Found
  <2>4. Worth(CancelRow(activity[k])) = 0
    BY <2>1 DEF Worth, CancelRow, ActivityRow
  <2>5. delta[role] = IF activity[k].st = "live" THEN -activity[k].rank ELSE 0
    BY <2>1, <2>2 DEF RolledBack, SeenLive
  <2>6. activity[k].rank \in Int
    BY <2>1 DEF ActivityRow
  <2> HIDE DEF k, delta
  <2>7. CASE activity[k].st = "live"
    <3>1. Worth(activity'[k]) = 0 /\ Worth(activity[k]) = activity[k].rank
      BY <1>3, <2>1, <2>3, <2>4, <2>7 DEF Worth
    <3> QED BY <2>5, <2>6, <2>7, <3>1 DEF k
  <2>8. CASE activity[k].st # "live"
    <3>1. Worth(activity'[k]) = 0 /\ Worth(activity[k]) = 0
      BY <1>3, <2>1, <2>3, <2>4, <2>8 DEF Worth
    <3> QED BY <2>5, <2>8, <3>1 DEF k
  <2> QED BY <2>7, <2>8
<1>6. \A k \in Key : (\A role \in WorkRoles(h) : k # WorkKey(h, role)) =>
                      activity'[k] = activity[k]
  BY <1>3 DEF Found
<1>7. \A role \in Roles \ WorkRoles(h) : delta[role] = 0
  BY DEF RolledBack, SeenLive
<1>8. ASSUME NEW u \in Users PROVE Follows(u)
  <2> DEFINE gain == IF u = req[h].voter THEN delta["vote"]
                     ELSE IF u = Author[req[h].post] THEN delta["voted"] ELSE 0
  <2>1. activity' \in [Key -> ActivityRow] /\ IsFiniteSet(Counting(activity, u))
    BY DEF TypeOK, Covered
  <2>2. rank'[u] = ChangeUserRank(rank[u], gain)
    BY DEF CancelVote, Gain, Roles
  <2>3. gain \in Int
    BY <1>2 DEF Roles
  <2> HIDE DEF delta
  <2>4. /\ IsFiniteSet(Counting(activity', u))
        /\ PointsOf(activity', u) = PointsOf(activity, u) + gain
    BY <1>1, <1>2, <1>5, <1>6, <1>7, <2>1, PointsOfWork
  <2> HIDE DEF gain
  <2> QED BY <2>2, <2>3, <2>4 DEF Follows
<1> QED BY <1>8, RankFollows

LEMMA StepCovered ==
  TypeOK /\ TypeOK' /\ StanceInv /\ Covered /\ [Next]_vars => Covered'
<1> SUFFICES ASSUME TypeOK, TypeOK', StanceInv, Covered, [Next]_vars PROVE Covered'
  OBVIOUS
<1>1. CASE activity' = activity /\ rank' = rank
  BY <1>1 DEF Covered
<1>2. CASE NewDay
  <2>1. \A k \in Key : activity'[k].st = activity[k].st /\ activity'[k].rank = activity[k].rank
    BY <1>2 DEF NewDay, TypeOK, ActivityRow
  <2>2. activity \in [Key -> ActivityRow] /\ activity' \in [Key -> ActivityRow]
    BY DEF TypeOK
  <2>3. \A u \in Users : /\ PointsOf(activity', u) = PointsOf(activity, u)
                         /\ IsFiniteSet(Counting(activity', u))
    BY <2>1, <2>2, PointsSame DEF Covered
  <2>4. rank' = rank
    BY <1>2 DEF NewDay
  <2> QED BY <2>3, <2>4 DEF Covered
<1> QED
  BY <1>1, <1>2, VoteCovered, CancelCovered
  DEF StanceInv, Next, Step, Receive, ReadRow, SkipCancel, SkipVote, Notify, CountUp,
      CountDown, UpdateVotes, Fail, tables, vars

LEMMA InitCovered == Init => Covered
<1> SUFFICES ASSUME Init, NEW u \in Users
             PROVE  /\ IsFiniteSet(Counting(activity, u))
                    /\ rank[u] >= InitialRank + PointsOf(activity, u)
  BY DEF Covered
<1>1. Counting(activity, u) = {}
  BY DEF Init, Counting, NoActivity
<1>2. IsFiniteSet({}) /\ activity \in [Key -> ActivityRow]
  BY FS_EmptySet DEF Init, NoActivity, ActivityRow, RowStates
<1>3. PointsIn(activity) \in [Key -> Int]
  BY <1>2 DEF PointsIn, ActivityRow
<1>4. PointsOf(activity, u) = 0
  <2>1. PointsOf(activity, u) = SumOver(PointsIn(activity), Counting(activity, u))
    BY <1>1, <1>2, PointsAreSum
  <2>2. \A S : S = {} => SumOver(PointsIn(activity), S) = 0
    BY <1>3, SumEmpty
  <2> QED BY <1>1, <2>1, <2>2
<1>5. IsFiniteSet(Counting(activity, u))
  BY <1>1, <1>2, Zenon
<1>6. rank[u] = InitialRank
  BY DEF Init
<1> QED BY <1>4, <1>5, <1>6, VoteAssumption

(* With one vote per user and post in flight, every rank covers the points *)
(* of the rows that count: what is withdrawn is what was granted, and the  *)
(* daily limit and the floor only ever leave a user with more.             *)
THEOREM RankCoversTheRows == OneAtATime => (Spec => []RankCoversRows)
<1> SUFFICES ASSUME OneAtATime PROVE Spec => []RankCoversRows
  OBVIOUS
<1>1. Covered => RankCoversRows
  BY DEF Covered, RankCoversRows, LivePoints, PointsOf, Counting
<1> QED
  BY StanceInvariant, InitCovered, StepCovered, <1>1, PTL DEF Spec

-----------------------------------------------------------------------------
(***************************************************************************)
(* What makes a rank go up.                                                *)
(***************************************************************************)
MayRise(u) ==
  \/ ~ReachLimit(u)
  \/ \E k \in Key : KeyUser(k) = u /\ Cancelled(k) /\ activity[k].rank < 0

DailyStep == \A u \in Users : rank'[u] > rank[u] => MayRise(u)

LEMMA RiseIsGain ==
  ASSUME NEW current \in Int, NEW gain \in Int, current >= 1,
         ChangeUserRank(current, gain) > current
  PROVE  gain > 0
BY DEF ChangeUserRank

(* An award within the daily limit: a loss that is cut never turns into one. *)
LEMMA VoteRises ==
  ASSUME TypeOK, RankFloor, NotOwnPost, NEW h \in Handlers, Vote(h),
         NEW u \in Users, rank'[u] > rank[u]
  PROVE  ~ReachLimit(u)
<1> DEFINE gain == IF u = req[h].voter THEN Granted(h, "vote")
                   ELSE IF u = Author[req[h].post] THEN Granted(h, "voted") ELSE 0
<1>1. Busy(h)
  BY DEF Vote, Busy
<1>2. gain \in Int
  BY <1>1, GrantedTyped DEF Roles
<1>3. rank'[u] = ChangeUserRank(rank[u], gain)
  BY DEF Vote, Gain
<1>4. rank[u] \in Int /\ rank[u] >= 1
  BY DEF TypeOK, RankFloor
<1>5. gain > 0
  <2> HIDE DEF gain
  <2> QED BY <1>2, <1>3, <1>4, RiseIsGain
<1>6. PICK role \in Roles : Granted(h, role) > 0 /\ u = IF role = "vote" THEN req[h].voter
                                                       ELSE Author[req[h].post]
  BY <1>5 DEF Roles
<1> DEFINE k == WorkKey(h, role)
           points == Points[Kind[k.post]][k.side][role]
<1>7. role \in WorkRoles(h) /\ activity[k].st # "live"
  BY <1>6 DEF Granted
<1>8. KeyUser(k) = u /\ points \in Int
  <2>1. k \in Key
    BY <1>1, <1>7, WorkKeyTyped
  <2>2. points \in Int
    BY <2>1, VoteAssumption DEF Key
  <2> QED BY <1>6, <2>2 DEF WorkKey, VoteKey, KeyUser
<1>9. GrantedPoints(u, points) > 0
  BY <1>6, <1>7, <1>8 DEF Granted
<1> HIDE DEF points
<1> QED BY <1>4, <1>8, <1>9 DEF GrantedPoints

LEMMA CancelRises ==
  ASSUME TypeOK, RankFloor, NotOwnPost, ReadsAreCurrent, NEW h \in Handlers, CancelVote(h),
         NEW u \in Users, rank'[u] > rank[u]
  PROVE  \E k \in Key : KeyUser(k) = u /\ Cancelled(k) /\ activity[k].rank < 0
<1> DEFINE gain == IF u = req[h].voter THEN RolledBack(h, "vote")
                   ELSE IF u = Author[req[h].post] THEN RolledBack(h, "voted") ELSE 0
<1>1. Busy(h) /\ pc[h] = "readCancel"
  BY DEF CancelVote, Busy
<1>2. gain \in Int
  BY RolledBackTyped DEF Roles
<1>3. rank'[u] = ChangeUserRank(rank[u], gain)
  BY DEF CancelVote, Gain
<1>4. rank[u] \in Int /\ rank[u] >= 1
  BY DEF TypeOK, RankFloor
<1>5. gain > 0
  <2> HIDE DEF gain
  <2> QED BY <1>2, <1>3, <1>4, RiseIsGain
<1>6. PICK role \in Roles : RolledBack(h, role) > 0 /\ u = IF role = "vote" THEN req[h].voter
                                                          ELSE Author[req[h].post]
  BY <1>5 DEF Roles
<1> DEFINE k == WorkKey(h, role)
<1>7. /\ role \in WorkRoles(h) /\ seen[h][role].st = "live"
      /\ -seen[h][role].rank > 0
  BY <1>6 DEF RolledBack, SeenLive
<1>8. activity[k].st = "live" /\ activity[k].rank = seen[h][role].rank
  BY <1>1, <1>7 DEF ReadsAreCurrent
<1>9. k \in Key /\ KeyUser(k) = u
  BY <1>1, <1>6, <1>7, WorkKeyTyped DEF WorkKey, VoteKey, KeyUser
<1>10. k \in Found(h)
  BY <1>7 DEF Found
<1>11. activity[k] \in ActivityRow
  BY <1>9 DEF TypeOK
<1> HIDE DEF k
<1>12. activity'[k] = CancelRow(activity[k])
  BY <1>9, <1>10 DEF CancelVote
<1>13. Cancelled(k)
  BY <1>8, <1>11, <1>12 DEF Cancelled, CancelRow, ActivityRow
<1>14. activity[k].rank < 0
  <2>1. activity[k].rank \in Int
    BY <1>11 DEF ActivityRow
  <2> QED BY <1>7, <1>8, <2>1
<1> QED BY <1>9, <1>13, <1>14

(* With one vote per user and post in flight, a user who has reached the   *)
(* daily limit gains by votes only what a withdrawn penalty gives back.    *)
THEOREM DailyLimitHolds == OneAtATime => (Spec => DailyLimit)
<1> SUFFICES ASSUME OneAtATime PROVE Spec => DailyLimit
  OBVIOUS
<1>1. TypeOK /\ RankFloor /\ StanceInv /\ [Next]_vars => [DailyStep]_vars
  <2> SUFFICES ASSUME TypeOK, RankFloor, StanceInv, Next PROVE DailyStep
    OBVIOUS
  <2>1. CASE rank' = rank
    BY <2>1 DEF DailyStep, TypeOK
  <2>2. ASSUME NEW h \in Handlers, Vote(h) PROVE DailyStep
    BY <2>2, VoteRises DEF DailyStep, MayRise, StanceInv
  <2>3. ASSUME NEW h \in Handlers, CancelVote(h) PROVE DailyStep
    BY <2>3, CancelRises DEF DailyStep, MayRise, StanceInv
  <2> QED
    BY <2>1, <2>2, <2>3
    DEF Next, Step, Receive, ReadRow, SkipCancel, SkipVote, Notify, CountUp,
        CountDown, UpdateVotes, Fail, NewDay, tables
<1>2. DailyLimit <=> [][DailyStep]_vars
  BY DEF DailyLimit, DailyStep, MayRise
<1> QED
  BY StanceInvariant, RankNeverBelowOne, <1>1, <1>2, PTL DEF Spec

-----------------------------------------------------------------------------
(***************************************************************************)
(* vote_count.  Requests that are served one after the other and do not    *)
(* fail leave it right: while one is served, only the post it is about may *)
(* be out of step, and what the handler has counted of it still holds.     *)
(***************************************************************************)
OneHandler == \A g, h \in Handlers : g = h

Voters(table, p, s) == {u \in Users : table[VoteKey(u, p, s, "vote")].st = "live"}

Counted(p) == voteCount[p] = CountVote(p, "up") - CountVote(p, "down")

CountInv ==
  /\ \A p \in Posts : Counted(p) \/ \E h \in Handlers : Busy(h) /\ req[h].post = p
  /\ \A h \in Handlers :
       /\ pc[h] = "countDown" => tally[h] = CountVote(req[h].post, "up")
       /\ pc[h] = "save" =>
            tally[h] = CountVote(req[h].post, "up") - CountVote(req[h].post, "down")

LEMMA SameVoters ==
  ASSUME NEW p \in Posts,
         \A k \in Key : k.post = p => activity'[k].st = activity[k].st
  PROVE  \A s \in Sides : CountVote(p, s)' = CountVote(p, s)
<1> SUFFICES ASSUME NEW s \in Sides PROVE CountVote(p, s)' = CountVote(p, s)
  OBVIOUS
<1>1. \A u \in Users : VoteKey(u, p, s, "vote") \in Key /\ VoteKey(u, p, s, "vote").post = p
  BY DEF VoteKey, Key, Roles
<1>2. Voters(activity', p, s) = Voters(activity, p, s)
  BY <1>1 DEF Voters
<1>3. CountVote(p, s) = Cardinality(Voters(activity, p, s))
  BY DEF CountVote, Voters
<1>4. CountVote(p, s)' = Cardinality(Voters(activity', p, s))
  BY DEF CountVote, Voters
<1> QED BY <1>2, <1>3, <1>4

(* The steps of a handler before it counts touch its own post only.        *)
LEMMA CountBeforeCounting ==
  ASSUME OneHandler, CountInv, NEW h \in Handlers, Busy(h), Busy(h)',
         req'[h] = req[h], voteCount' = voteCount, pc'[h] \notin {"countDown", "save"},
         \A k \in Key : k.post # req[h].post => activity'[k].st = activity[k].st
  PROVE  CountInv'
<1>1. \A g \in Handlers : g = h
  BY DEF OneHandler
<1>2. ASSUME NEW p \in Posts, p # req[h].post PROVE Counted(p)'
  <2>1. Counted(p)
    BY <1>1, <1>2 DEF CountInv
  <2>2. \A s \in Sides : CountVote(p, s)' = CountVote(p, s)
    BY <1>2, SameVoters
  <2> QED BY <2>1, <2>2 DEF Counted, Sides
<1>3. \A p \in Posts : Counted(p)' \/ \E g \in Handlers : Busy(g)' /\ req'[g].post = p
  BY <1>2
<1> QED BY <1>1, <1>3 DEF CountInv

(* The steps that leave the votes alone.                                   *)
LEMMA CountsKept ==
  ASSUME \A k \in Key : activity'[k].st = activity[k].st
  PROVE  \A p \in Posts, s \in Sides : CountVote(p, s)' = CountVote(p, s)
BY SameVoters

LEMMA StepCountInv ==
  OneHandler /\ ~StatementsFail /\ ~CountsFail /\ TypeOK /\ CountInv /\ [Next]_vars => CountInv'
<1> SUFFICES ASSUME OneHandler, ~StatementsFail, ~CountsFail, TypeOK, CountInv, [Next]_vars
             PROVE  CountInv'
  OBVIOUS
<1>0. \A g, h \in Handlers : g = h
  BY DEF OneHandler
<1>1. ASSUME NEW h \in Handlers, NEW r \in Request, Receive(h, r) PROVE CountInv'
  <2>1. /\ ~Busy(h) /\ pc'[h] = "readCancel" /\ Busy(h)' /\ req'[h] = r
        /\ voteCount' = voteCount /\ activity' = activity
    BY <1>1 DEF Receive, Busy, tables, TypeOK
  <2>2. \A p \in Posts : Counted(p)
    BY <1>0, <2>1 DEF CountInv
  <2>3. \A p \in Posts : Counted(p)'
    BY <2>1, <2>2 DEF Counted, CountVote
  <2> QED BY <1>0, <2>1, <2>3 DEF CountInv
<1>2. ASSUME NEW h \in Handlers,
             (\E role \in Roles : ReadRow(h, role)) \/ SkipCancel(h) \/ SkipVote(h) \/ Notify(h)
      PROVE  CountInv'
  <2>1. /\ Busy(h) /\ Busy(h)' /\ req' = req /\ voteCount' = voteCount
        /\ activity' = activity /\ pc'[h] \notin {"countDown", "save"}
    BY <1>2 DEF ReadRow, SkipCancel, SkipVote, Notify, AfterCancel, Busy, tables, TypeOK
  <2> QED BY <2>1, CountBeforeCounting
<1>3. ASSUME NEW h \in Handlers, CancelVote(h) PROVE CountInv'
  <2>1. /\ Busy(h) /\ Busy(h)' /\ req' = req /\ voteCount' = voteCount
        /\ pc'[h] \notin {"countDown", "save"}
    BY <1>3 DEF CancelVote, AfterCancel, Busy, TypeOK
  <2>2. \A k \in Key : k.post # req[h].post => activity'[k] = activity[k]
    <3>1. \A k \in Found(h) : k.post = req[h].post
      BY DEF Found, WorkKey, VoteKey
    <3> QED BY <1>3, <3>1 DEF CancelVote
  <2> QED BY <2>1, <2>2, CountBeforeCounting
<1>4. ASSUME NEW h \in Handlers, Vote(h) PROVE CountInv'
  <2>1. /\ Busy(h) /\ Busy(h)' /\ req' = req /\ voteCount' = voteCount
        /\ pc'[h] \notin {"countDown", "save"}
    BY <1>4 DEF Vote, Busy, TypeOK
  <2>2. \A k \in Key : k.post # req[h].post => activity'[k] = activity[k]
    <3>1. \A k \in Key : k = WorkKey(h, k.role) => k.post = req[h].post
      BY DEF WorkKey, VoteKey
    <3>2. activity' = [k \in Key |->
             IF /\ k.role \in WorkRoles(h)
                /\ k = WorkKey(h, k.role)
                /\ activity[k].st # "live"
               THEN LiveRow(Granted(h, k.role)) ELSE activity[k]]
      BY <1>4 DEF Vote
    <3> QED BY <3>1, <3>2
  <2> QED BY <2>1, <2>2, CountBeforeCounting
<1>5. ASSUME NEW h \in Handlers, CountUp(h) \/ CountDown(h) PROVE CountInv'
  <2>1. /\ Busy(h) /\ Busy(h)' /\ req' = req /\ voteCount' = voteCount /\ activity' = activity
    BY <1>5 DEF CountUp, CountDown, Busy, tables, TypeOK
  <2>2. \A p, s : CountVote(p, s)' = CountVote(p, s)
    BY <2>1 DEF CountVote
  <2>3. /\ pc'[h] = "countDown" => tally'[h] = CountVote(req[h].post, "up")
        /\ pc'[h] = "save" =>
             tally'[h] = CountVote(req[h].post, "up") - CountVote(req[h].post, "down")
    BY <1>5 DEF CountUp, CountDown, Counts, TypeOK, CountInv
  <2>4. \A p \in Posts : Counted(p)' \/ (Busy(h)' /\ req'[h].post = p)
    BY <1>0, <2>1, <2>2 DEF CountInv, Counted
  <2> QED BY <1>0, <2>1, <2>2, <2>3, <2>4 DEF CountInv
<1>6. ASSUME NEW h \in Handlers, UpdateVotes(h) PROVE CountInv'
  <2>1. /\ pc[h] = "save" /\ Busy(h) /\ pc'[h] = "idle" /\ activity' = activity
        /\ voteCount' = [voteCount EXCEPT ![req[h].post] = tally[h]]
    BY <1>6 DEF UpdateVotes, Finish, Busy, TypeOK
  <2>2. \A p, s : CountVote(p, s)' = CountVote(p, s)
    BY <2>1 DEF CountVote
  <2>3. tally[h] = CountVote(req[h].post, "up") - CountVote(req[h].post, "down")
    BY <2>1 DEF CountInv
  <2>4. \A p \in Posts : Counted(p)'
    BY <1>0, <2>1, <2>2, <2>3 DEF CountInv, Counted, TypeOK
  <2> QED BY <1>0, <2>1, <2>4 DEF CountInv
<1>7. CASE NewDay
  <2>1. /\ \A k \in Key : activity'[k].st = activity[k].st
        /\ voteCount' = voteCount /\ pc' = pc /\ req' = req /\ tally' = tally
    BY <1>7 DEF NewDay, TypeOK, ActivityRow
  <2>2. \A p \in Posts, s \in Sides : CountVote(p, s)' = CountVote(p, s)
    BY <2>1, CountsKept
  <2>3. \A h \in Handlers : Busy(h) => req[h].post \in Posts
    BY DEF TypeOK, Request
  <2> QED BY <2>1, <2>2, <2>3 DEF CountInv, Counted, Sides, Busy
<1>8. CASE UNCHANGED vars
  BY <1>8 DEF vars, CountInv, Counted, CountVote, Busy
<1> QED
  BY <1>1, <1>2, <1>3, <1>4, <1>5, <1>6, <1>7, <1>8 DEF Next, Step, Fail

(* Served one request after the other and with no failure, vote_count is   *)
(* in the end the votes that count, for any number of users, posts and     *)
(* requests.                                                               *)
THEOREM CountIsSettled ==
  OneHandler /\ ~StatementsFail /\ ~CountsFail => (Spec => []VoteCountSettled)
<1> SUFFICES ASSUME OneHandler, ~StatementsFail, ~CountsFail PROVE Spec => []VoteCountSettled
  OBVIOUS
<1>1. Init => CountInv
  <2> SUFFICES ASSUME Init PROVE CountInv
    OBVIOUS
  <2>1. \A p \in Posts, s \in Sides : Voters(activity, p, s) = {}
    BY DEF Init, Voters, VoteKey, Key, Roles, NoActivity
  <2>2. \A S : S = {} => Cardinality(S) = 0
    BY FS_EmptySet
  <2>3. \A p \in Posts, s \in Sides : CountVote(p, s) = 0
    BY <2>1, <2>2 DEF CountVote, Voters
  <2> QED BY <2>3 DEF Init, CountInv, Counted, Sides
<1>2. TypedFloor /\ CountInv /\ [Next]_vars => CountInv'
  BY StepCountInv DEF TypedFloor
<1>3. CountInv => VoteCountSettled
  BY DEF CountInv, VoteCountSettled, Counted, CountVote, Live
<1> QED
  BY InitTypedFloor, StepTypedFloor, <1>1, <1>2, <1>3, PTL DEF Spec
=============================================================================
