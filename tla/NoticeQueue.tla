---------------------------- MODULE NoticeQueue ----------------------------
(***************************************************************************)
(* How the author of a post and those who follow it are told of what       *)
(* happens to it.  Requests commit and then send messages over a bounded   *)
(* channel to one worker; the worker writes notifications, and for some    *)
(* messages starts a goroutine that sends one more to every follower over  *)
(* the same channel, while users go on to follow and to cancel.  Nothing   *)
(* of the messages survives the process.  The queues for activities and    *)
(* for mails are the same code around other handlers.  Red dots, read      *)
(* marks and the texts of notifications are left out.                      *)
(***************************************************************************)
EXTENDS Integers, Sequences, FiniteSets

CONSTANTS
  Posts, Senders,
  Author,         \* who is told first: the author of the posts
  Users,          \* who may follow a post, maybe the author too
  InitialFollowers,
  Nothing,        \* what the worker has in hand when it waits
  Capacity,       \* the size of the channel, 128 in the code
  MaxEvents,      \* bound: how many requests send messages
  MaxFollows,     \* bound: how often somebody starts or ends to follow a post
  MaxCrashes,     \* bound: how often the process is stopped from outside
  HandlerFails    \* the worker's handler may return an error

Events == 1..MaxEvents
Readers == {Author} \cup Users
Kinds == {"vote", "cancelVote", "answer", "comment"}

\* A message: an achievement names a post, what goes to an inbox a reader.
Messages == [type : {"achievement", "inbox"}, event : Events, post : Posts,
             to : Readers, push : BOOLEAN]
\* The worker with a message, what it has found and where it is.
Working == [msg : Messages, found : BOOLEAN, rank : 0..MaxEvents,
            stage : {"look", "save", "sync"}]

ASSUME QueueAssumption ==
  /\ IsFiniteSet(Users) /\ InitialFollowers \subseteq Users
  /\ Capacity \in Nat \ {0}
  /\ MaxEvents \in Nat /\ MaxFollows \in Nat /\ MaxCrashes \in Nat
  /\ HandlerFails \in BOOLEAN
  /\ Nothing \notin Working

VARIABLES
  rank,      \* the reputation a post has earned its author
  shown,     \* the reputation its achievement notification shows, 0 if there is none
  kind,      \* what every event was, "none" before it happens
  removed,   \* the comments deleted since
  told,      \* how many notifications of an event a reader got in the inbox
  events,
  follow,    \* the row of a user who follows a post: "none", "on" or "off" (cancelled)
  follows,   \* question.follow_count
  changes, crashes,
  queue,     \* the channel
  outbox,    \* of every handler: the messages it has still to send
  worker,
  starting,  \* the messages whose goroutine has still to look up the followers
  pushes,    \* the copies that goroutines have still to send
  behind,    \* history: posts whose last message was lost
  lost,      \* history: events that lost a message
  always, ever, \* history: who followed all the time, and at some time, from an event
                \* to the look-up of its followers
  panicked   \* history: the process died of a panic

following == <<follow, follows, changes>>
history == <<behind, lost, always, ever, panicked>>
queueVars == <<rank, shown, kind, removed, told, events, following, crashes, queue, outbox,
          worker, starting, pushes, history>>

-----------------------------------------------------------------------------
\* Which inbox messages are passed on to followers (SendNotificationToAllFollower).
Pushed(k) == k = "answer"

Achievement(e, p) ==
  [type |-> "achievement", event |-> e, post |-> p, to |-> Author, push |-> FALSE]
Inbox(e, p, k) ==
  [type |-> "inbox", event |-> e, post |-> p, to |-> Author, push |-> Pushed(k)]

\* Mutant: the copy is passed on to the followers again.
CopyAgain(m, u) == [m EXCEPT !.to = u]

\* The copy of a message that one follower gets.
CopyFor(m, u) == [m EXCEPT !.to = u, !.push = FALSE]

\* Mutant: the rank is told without asking for it again, one vote at a time.
RankOfMessage(m) == shown[m.post] + 1

\* GetUserIDObjectIDActivitySum, when the message is handled.
RankNow(m) == rank[m.post]

\* What a request sends after its transaction.
ToSend(e, p, k) ==
  CASE k = "vote" -> <<Achievement(e, p), Inbox(e, p, k)>>
    [] k = "cancelVote" -> <<Achievement(e, p)>>
    [] k \in {"answer", "comment"} -> <<Inbox(e, p, k)>>

Following(p) == {u \in Users : follow[p][u] = "on"}

QueueInit ==
  /\ rank = [p \in Posts |-> 0]
  /\ shown = [p \in Posts |-> 0]
  /\ kind = [e \in Events |-> "none"]
  /\ removed = {}
  /\ told = [e \in Events |-> [u \in Readers |-> 0]]
  /\ events = 0 /\ changes = 0 /\ crashes = 0
  /\ follow = [p \in Posts |->
                 [u \in Users |-> IF u \in InitialFollowers THEN "on" ELSE "none"]]
  /\ follows = [p \in Posts |-> Cardinality(InitialFollowers)]
  /\ queue = <<>>
  /\ outbox = [h \in Senders |-> <<>>]
  /\ worker = Nothing
  /\ starting = {} /\ pushes = {}
  /\ behind = {} /\ lost = {}
  /\ always = [e \in Events |-> {}] /\ ever = [e \in Events |-> {}]
  /\ panicked = FALSE

-----------------------------------------------------------------------------
(* Requests *)

Commit(h, k, p) ==
  LET e == events + 1 IN
  /\ outbox[h] = <<>>
  /\ events < MaxEvents
  /\ k = "cancelVote" => rank[p] > 0
  /\ events' = e
  /\ kind' = [kind EXCEPT ![e] = k]
  /\ rank' = [rank EXCEPT ![p] = CASE k = "vote" -> @ + 1
                                   [] k = "cancelVote" -> @ - 1
                                   [] OTHER -> @]
  /\ outbox' = [outbox EXCEPT ![h] = ToSend(e, p, k)]
  /\ always' = [always EXCEPT ![e] = IF Pushed(k) THEN Following(p) ELSE {}]
  /\ ever' = [ever EXCEPT ![e] = IF Pushed(k) THEN Following(p) ELSE {}]
  /\ UNCHANGED <<shown, removed, told, following, crashes, queue, worker, starting, pushes,
                 behind, lost, panicked>>

\* A comment is deleted by a request that sends no notification.
RemoveComment(e) ==
  /\ kind[e] = "comment" /\ e \notin removed
  /\ removed' = removed \cup {e}
  /\ UNCHANGED <<rank, shown, kind, told, events, following, crashes, queue, outbox, worker,
                 starting, pushes, history>>

Elements(s) == {s[i] : i \in DOMAIN s}
InHand == IF worker = Nothing THEN {} ELSE {worker.msg}
Pending == Elements(queue) \cup InHand \cup UNION {Elements(outbox[h]) : h \in Senders}

\* The events about p whose followers have not been looked up yet.
Unlisted(p) ==
  {e \in Events : \E m \in Pending \cup starting : m.event = e /\ m.post = p /\ m.push}

\* Mutant: whoever does not follow may cancel.
MayChangeAnyway(p, u, to) == follow[p][u] # to

\* Follow and FollowCancel return at once when nothing is to change; who never
\* followed has no row to cancel.
MayChange(p, u, to) ==
  /\ follow[p][u] # to
  /\ to = "off" => follow[p][u] = "on"

\* One transaction writes the row and adds to the count.  A user sends one request
\* about a post at a time.
Follow(p, u) ==
  /\ changes < MaxFollows
  /\ MayChange(p, u, "on")
  /\ follow' = [follow EXCEPT ![p][u] = "on"]
  /\ follows' = [follows EXCEPT ![p] = @ + 1]
  /\ changes' = changes + 1
  /\ ever' = [e \in Events |-> IF e \in Unlisted(p) THEN ever[e] \cup {u} ELSE ever[e]]
  /\ UNCHANGED <<rank, shown, kind, removed, told, events, crashes, queue, outbox, worker,
                 starting, pushes, behind, lost, always, panicked>>

FollowCancel(p, u) ==
  /\ changes < MaxFollows
  /\ MayChange(p, u, "off")
  /\ follow' = [follow EXCEPT ![p][u] = "off"]
  /\ follows' = [follows EXCEPT ![p] = @ - 1]
  /\ changes' = changes + 1
  /\ always' = [e \in Events |-> IF e \in Unlisted(p) THEN always[e] \ {u} ELSE always[e]]
  /\ UNCHANGED <<rank, shown, kind, removed, told, events, crashes, queue, outbox, worker,
                 starting, pushes, behind, lost, ever, panicked>>

Room == Len(queue) < Capacity

\* A sender waits while the channel is full.
Send(h) ==
  /\ outbox[h] # <<>> /\ Room
  /\ queue' = Append(queue, Head(outbox[h]))
  /\ outbox' = [outbox EXCEPT ![h] = Tail(@)]
  /\ UNCHANGED <<rank, shown, kind, removed, told, events, following, crashes, worker,
                 starting, pushes, history>>

-----------------------------------------------------------------------------
(* The goroutines of SendNotificationToAllFollower *)

ListFollowers(e) ==
  \E m \in starting :
    /\ m.event = e
    /\ pushes' = pushes \cup {CopyFor(m, u) : u \in Following(m.post)}
    /\ starting' = starting \ {m}
    /\ UNCHANGED <<rank, shown, kind, removed, told, events, following, crashes, queue,
                   outbox, worker, history>>

\* The followers cannot be read: that is logged, and none is told.
FailList(e) ==
  \E m \in starting :
    /\ HandlerFails
    /\ m.event = e
    /\ starting' = starting \ {m}
    /\ lost' = lost \cup {e}
    /\ UNCHANGED <<rank, shown, kind, removed, told, events, following, crashes, queue,
                   outbox, worker, pushes, behind, always, ever, panicked>>

\* A goroutine sends to one follower after the other.
Push(e) ==
  \E m \in pushes :
    /\ m.event = e /\ Room
    /\ queue' = Append(queue, m)
    /\ pushes' = pushes \ {m}
    /\ UNCHANGED <<rank, shown, kind, removed, told, events, following, crashes, outbox,
                   worker, starting, history>>

-----------------------------------------------------------------------------
(* The worker: AddNotification for one message after the other *)

\* Mutant: the worker itself sends to the followers before it goes on.
FreeAfterPushing == worker = Nothing /\ starting = {} /\ pushes = {}

Free == worker = Nothing

Take ==
  /\ Free /\ queue # <<>>
  /\ worker' = [msg |-> Head(queue), found |-> FALSE, rank |-> 0, stage |-> "look"]
  /\ queue' = Tail(queue)
  /\ UNCHANGED <<rank, shown, kind, removed, told, events, following, crashes, outbox,
                 starting, pushes, history>>

WorkerAt(stage) == worker # Nothing /\ worker.stage = stage

\* GetInfo finds no comment that was deleted; its error is written to the log.
Look ==
  /\ WorkerAt("look")
  /\ worker' = [worker EXCEPT !.stage = "save",
                              !.found = worker.msg.event \notin removed,
                              !.rank = IF worker.msg.type = "achievement"
                                         THEN RankNow(worker.msg) ELSE 0]
  /\ UNCHANGED <<rank, shown, kind, removed, told, events, following, crashes, queue, outbox,
                 starting, pushes, history>>

\* The achievement of a post is inserted or rewritten.
SaveAchievement ==
  /\ WorkerAt("save") /\ worker.msg.type = "achievement"
  /\ shown' = [shown EXCEPT ![worker.msg.post] = worker.rank]
  /\ behind' = behind \ {worker.msg.post}
  /\ worker' = Nothing
  /\ UNCHANGED <<rank, kind, removed, told, events, following, crashes, queue, outbox,
                 starting, pushes, lost, always, ever, panicked>>

\* A row in the inbox, and the goroutine for the followers.
SaveInbox ==
  LET m == worker.msg IN
  /\ WorkerAt("save") /\ m.type = "inbox"
  /\ told' = [told EXCEPT ![m.event][m.to] = @ + 1]
  /\ starting' = IF m.push THEN starting \cup {m} ELSE starting
  /\ worker' = [worker EXCEPT !.stage = "sync"]
  /\ UNCHANGED <<rank, shown, kind, removed, events, following, crashes, queue, outbox,
                 pushes, history>>

\* The notification is handed to the plugins.
Sync ==
  /\ WorkerAt("sync") /\ worker.found
  /\ worker' = Nothing
  /\ UNCHANGED <<rank, shown, kind, removed, told, events, following, crashes, queue, outbox,
                 starting, pushes, history>>

\* The handler's error is written to the log, and the message is gone.
FailHandle ==
  /\ HandlerFails
  /\ WorkerAt("save")
  /\ worker' = Nothing
  /\ behind' = IF worker.msg.type = "achievement" THEN behind \cup {worker.msg.post} ELSE behind
  /\ lost' = lost \cup {worker.msg.event}
  /\ UNCHANGED <<rank, shown, kind, removed, told, events, following, crashes, queue, outbox,
                 starting, pushes, always, ever, panicked>>

-----------------------------------------------------------------------------
(* The end of the process *)

\* Channel, goroutines and requests are gone; what was committed stays.
Stop ==
  /\ queue' = <<>>
  /\ outbox' = [h \in Senders |-> <<>>]
  /\ worker' = Nothing
  /\ starting' = {} /\ pushes' = {}
  /\ behind' = behind \cup {m.post : m \in {n \in Pending : n.type = "achievement"}}
  /\ lost' = lost \cup {m.event : m \in Pending \cup starting \cup pushes}
  /\ UNCHANGED <<rank, shown, kind, removed, told, events, following, always, ever>>

Crash ==
  /\ crashes < MaxCrashes
  /\ crashes' = crashes + 1
  /\ Stop
  /\ UNCHANGED panicked

\* syncNotificationToPlugin reads fields of the object that was not found: the
\* worker's goroutine panics, nobody recovers and the process ends.
Panic ==
  /\ WorkerAt("sync") /\ ~worker.found
  /\ panicked' = TRUE
  /\ Stop
  /\ UNCHANGED crashes

Worker == Take \/ Look \/ SaveAchievement \/ SaveInbox \/ Sync \/ FailHandle \/ Panic

QueueNext ==
  \/ \E h \in Senders :
       \/ \E k \in Kinds, p \in Posts : Commit(h, k, p)
       \/ Send(h)
  \/ \E e \in Events : RemoveComment(e) \/ ListFollowers(e) \/ FailList(e) \/ Push(e)
  \/ \E p \in Posts, u \in Users : Follow(p, u) \/ FollowCancel(p, u)
  \/ Worker
  \/ Crash

QueueSpec == QueueInit /\ [][QueueNext]_queueVars

\* The worker never rests, and a channel serves those who wait for it in turn: a
\* sender that finds room again and again gets its message in.
Fairness ==
  /\ WF_queueVars(Worker)
  /\ \A h \in Senders : SF_queueVars(Send(h))
  /\ \A e \in Events : WF_queueVars(ListFollowers(e)) /\ SF_queueVars(Push(e))

FairSpec == QueueSpec /\ Fairness

-----------------------------------------------------------------------------
(* Properties *)

QueueTypeOK ==
  /\ rank \in [Posts -> 0..MaxEvents] /\ shown \in [Posts -> 0..MaxEvents]
  /\ kind \in [Events -> Kinds \cup {"none"}]
  /\ removed \subseteq Events
  /\ told \in [Events -> [Readers -> Nat]]
  /\ events \in 0..MaxEvents /\ changes \in 0..MaxFollows /\ crashes \in 0..MaxCrashes
  /\ follow \in [Posts -> [Users -> {"none", "on", "off"}]]
  /\ follows \in [Posts -> 0..Cardinality(Users)]
  /\ queue \in Seq(Messages) /\ Len(queue) <= Capacity
  /\ outbox \in [Senders -> Seq(Messages)]
  /\ worker \in Working \cup {Nothing}
  /\ starting \subseteq Messages /\ pushes \subseteq Messages
  /\ behind \subseteq Posts /\ lost \subseteq Events
  /\ always \in [Events -> SUBSET Users] /\ ever \in [Events -> SUBSET Users]
  /\ panicked \in BOOLEAN

\* The achievement notification of a post shows what the post has earned as soon
\* as no message about it is under way, though messages carry no number and votes
\* go on while one is handled (AddNotification asks for the sum itself).
RankShown ==
  \A p \in Posts :
    p \in behind \/ shown[p] = rank[p]
      \/ \E m \in Pending : m.type = "achievement" /\ m.post = p

\* How many notifications of an event a reader is due, when among is who follows.
Due(e, u, among) ==
  (IF u = Author /\ kind[e] \notin {"none", "cancelVote"} THEN 1 ELSE 0)
    + (IF u \in among THEN 1 ELSE 0)

Underway(e) ==
  \E m \in Pending \cup starting \cup pushes : m.event = e /\ m.type = "inbox"

\* Everyone is told of an event as often as due, whoever sends the messages, in
\* whatever order they arrive and whoever follows and cancels meanwhile: the author
\* once, a follower once more (NoNeedPushAllFollow) and nobody else, and whoever
\* followed all the time is not left out unless a message was lost.
ToldAsDue ==
  \A e \in Events, u \in Readers :
    /\ told[e][u] <= Due(e, u, ever[e])
    /\ ~Underway(e) /\ e \notin lost => told[e][u] >= Due(e, u, always[e])

Idle == queue = <<>> /\ worker = Nothing /\ starting = {} /\ pushes = {}
        /\ \A h \in Senders : outbox[h] = <<>>

\* A full channel never stands still: the worker does not wait for room in the
\* channel that only it empties (AddNotification starts a goroutine for the
\* followers), and so every message that was sent is handled.
Drains == []<>Idle

\* "get info" may fail and is only written to the log: the worker goes on.
WorkerSurvives == ~panicked
=============================================================================
