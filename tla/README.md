# A TLA+ model of Answer

Answer is a question-and-answer server: a Go program over a relational database
(`src/internal/repo`) and an in-memory cache, with services
(`src/internal/service`) behind HTTP controllers (`src/internal/controller`).
This directory holds TLA+ models of the parts of it where several requests,
several tables or several days meet, the TLC runs that check them on small
instances, and theorems about them that TLAPS proves for every instance.

Every HTTP request is served by a goroutine of its own. Few operations use a
transaction; most are a sequence of statements, each atomic, with the
statements of other requests in between. That is what the models are about: a
*handler* stands for a goroutine, a database statement outside a transaction or
a call of the cache is one step of it, and a transaction that locks the rows it
will write before it reads them is one step as a whole.

Contents: 1 the system, 2 the modules, 3 the runs, 4 findings, 5 what is proved,
6 what is only model-checked, 7 what is left to do, 8 what is not modelled and
why, 9 how to run it.

## 1. The system

| component | state | operations | module |
|---|---|---|---|
| Voting and reputation (`vote_service.go`, `repo/activity/vote_repo.go`, `repo/rank/user_rank_repo.go`) | `activity` rows, `users.rank`, `vote_count`, inbox | vote up, vote down, withdraw | `VoteRank` |
| Accepting answers (`answer_service.go`, `repo/activity/answer_repo.go`) | `answer.adopted`, `question.accepted_answer_id`, `activity`, `users.rank` | accept, accept another, withdraw | `AcceptAnswer` |
| Answer lifecycle (`answer_service.go`), reports (`report_handle.go`) | `answer.status`, `review`, `report`, `question.answer_count`, `users.answer_count` | add, delete, recover, review, report, handle a report, remove all of a user | `AnswerLifecycle` |
| Question lifecycle (`question_service.go`, `tag_common.go`, `tag_rel_repo.go`), content review (`review_service.go`) | `question.status`, `.pin`, `.show`, `tag_rel`, `review`, `tag.question_count`, `users.question_count` | ask, edit, delete, recover, close, reopen, pin, unlist, set status, approve, reject, remove all of a user | `QuestionLifecycle` |
| Revisions and edit audit (`revision_service.go`, `revision_repo.go`) | `revision` rows, `revision_id`, texts and tags | edit at once or for an audit, approve, reject | `RevisionAudit` |
| Tags and synonyms (`tag_service.go`, `tag_common.go`) | `tag.main_tag_id`, `.main_tag_slug_name`, `.slug_name`, `.status` | add, edit, approve an edit, delete, recover, change synonyms | `TagSynonym` |
| Sessions, users, user administration (`service/auth`, `user_service.go`, `user_backyard.go`), first point (`user_active_repo.go`) | `users.status`, `.mail_status`; cache: token to user, user to tokens, status of a user; the file of the cache | log in, confirm or change the address, use, log out, end all sessions, suspend, restore | `AccountSession` |
| Queues and notifications (`notice_queue`, `service/notification*`), following (`follow_repo.go`) | bounded channel in memory, `notification` rows, `activity` rows and counts of followers | send, work, push to followers, follow, cancel | `NoticeQueue` |
| Comments (`comment_service.go`), and the requests of all contributing controllers behind the repetition record, the action limit and the captcha (`middleware/rate_limit.go`, `captcha_service.go`) | rows of posts; cache: records, counts, codes | add, edit, remove questions, answers and comments; vote, report, invite | `RequestGate`, `Contributing` |
| External login (`user_external_login_service.go`), accounts and mail codes (`user_service.go`, `user_backyard.go`, `email_repo.go`) | `users.e_mail`, `.mail_status`, `.pass`, `user_external_login` rows; cache: codes of mails, half-made logins | register, add, log in through a provider, bind and unbind, change and confirm the address, set a password, edit, change the status | `UserIdentity` |
| Roles and ranks, bookmarks, reactions, ids, search, site configuration, plugins, cron, installation, dashboard, HTTP layer, data layer, uploads, web interface, translations | | | none, see section 8 |

How they interact:

* Voting, accepting, the first point and the editor's reward all write
  `activity` and `users.rank`; the first two through the same arithmetic
  (`ChangeUserRank`, module `Reputation`), so the points of one must survive the
  other.
* Accepting spans the answer, question, activity and user tables; nothing but
  the order of its statements keeps them together.
* Reviewing writes the status a post was created with, while its author and
  moderators go on deleting, recovering, pinning and editing it.
* Editing, deleting, listing and recovering a question all rewrite its tag rows
  and then count the tags again; counters are recomputed, never added to.
* An edit that waits is a revision; approving it runs the same statements on the
  question, the answer or the tag that an immediate edit runs.
* The status of an account is in its row; open sessions learn of it only through
  a key of the cache, which is in memory and saved to a file once a minute.
* An account is found by its address or by an identity of a provider; both are
  looked for in one statement and stored in another, by services that do not know
  of each other, and a mail may be answered long after it was sent.
* Whatever happens is announced through in-memory queues after it is committed,
  and the worker of the queue looks the objects up anew.

What is hard: two requests of one user on one post; a value read before a
transaction and used in it; a count taken in one statement and saved in another;
a request that stops half way and cannot be repeated; operations on posts in a
status nobody thought of when they were written; a reputation that is bounded
below and by day while its parts are withdrawn and given again; a cache that
forgets; a worker that feeds the channel it drains. `PROJECT.json` lists these
as hazards, at the lines where they bite, with the properties that cover each.

What makes each component correct:

* *Voting*: a user has one stance on a post; a vote that is withdrawn costs what
  it had earned; a rank never falls below 1 and never passes the daily limit;
  the saved count is the number of votes that count; the author hears of it once.
* *Accepting*: one adopted answer per question, the one the question points to,
  awarded once and alone; a rank always covers the awards that count.
* *Answers*: counters are right again after a request that was not disturbed; an
  answer that waits can be decided; a report is not closed over a visible answer.
* *Questions*: a readable question has a tag and a deleted one none; counts equal
  what they count; nothing is pinned and unlisted; a pending question can still
  be decided.
* *Revisions*: one edit of an object waits at most; what is approved is shown
  with its tags and what is rejected is not; the object shows the last edit that
  was accepted.
* *Tags*: the two columns that make a tag a synonym agree; after a change of
  synonyms they are those that were asked for.
* *Sessions*: what was ended stays ended; a suspended user is not let in; the
  first point is given once and not forgotten.
* *Accounts*: an address and an identity lead to one account; a confirmed address
  was vouched for; unbinding leaves a way in.
* *Notifications*: the reputation shown is the reputation earned; everybody is
  told as often as due; the channel always empties.
* *Contributing*: a request that is repeated stores one post, one that failed can
  be repeated; nobody passes the limit without a code, and a code serves once.

## 2. The modules

| module | what it is |
|---|---|
| `Reputation` | `ChangeUserRank` and the rows of the `activity` table, shared by the two components that award points |
| `VoteStance` | abstract: every user has one stance on a post, taken from "none" and withdrawn to it |
| `VoteRank` | `VoteUp` and `VoteDown` down to their statements; implements `VoteStance` |
| `AcceptAnswer` | accepting an answer down to its statements |
| `AnswerLifecycle` | answers, their reviews, reports and counters |
| `QuestionLifecycle` | questions, their tags, counters and reviews |
| `Handling` | what handlers have left to do and what they serve, for the two components below whose requests are lists of statements and whose theorems share a module |
| `RevisionHistory` | abstract: an object shows a text, at most one proposal waits, it is accepted or rejected |
| `RevisionAudit` | edits and audits down to their statements; implements `RevisionHistory` |
| `TagSynonym` | tags and their synonyms down to their statements |
| `AccountSession` | one account: row, sessions, cache and file |
| `UserIdentity` | accounts, their addresses, the identities bound to them, and mail codes |
| `NoticeQueue` | channel, worker, goroutines, notifications and followers |
| `RequestGate` | the record against repetition, the count of actions and the captcha codes, as cache entries that lapse |
| `Contributing` | the handlers of questions, answers, comments, votes, reports and invitations through `RequestGate`, from arrival to answer |
| `VoteRankProofs`, `AcceptProofs`, `AnswerProofs`, `QuestionProofs`, `AccountProofs`, `ContributeProofs` | theorems about the module of that name |
| `RevisionIdentityProofs` | theorems about `RevisionAudit` (`Spec`) and, in its second half, about `UserIdentity` (`IdentitySpec`) |
| `TagNoticeProofs` | theorems about `TagSynonym` (`Spec`) and, in its second half, about `NoticeQueue` (`QueueSpec`) |
| `MC...` | the instances TLC checks |

`AcceptAnswer`, `AnswerLifecycle`, `RevisionAudit` and `QuestionLifecycle` are four
views of the same tables, cut where the operations do not read what the others
write; each says at its head what it leaves to which other one.

A convention runs through all of them. `todo[h]` (or `pc[h]`) is what handler `h`
has left to do, `req[h]` what it serves with whatever it has read so far.
`Receive` takes a request that passed the checks in front of it, there is an
action per statement, `Fail` is a failed statement, a cancelled context or the
end of the process, and variables marked *history* only record what has
happened, for the properties: no action reads them.

### VoteRank

`activity` is keyed as the code looks rows up: voter (the trigger), post, side
and role, where "vote" is the row of the voter and "voted" that of the author.
A row is absent, counting or cancelled, has the points it was granted, and
says whether `updated_at` is of today. `seen` are the rows a handler has read
outside its transactions, `tally` the count it is about to save.

| action | code |
|---|---|
| `Receive` | the request passes the checks of `VoteUp`/`VoteDown` (one's own post is refused) |
| `ReadRow` | one query of `getExistActivity` |
| `SkipCancel`, `CancelVote` | `CancelVote`: early return, or the transaction (lock users, `cancelActivities`, `rollbackUserRank`) |
| `SkipVote`, `Vote` | `Vote`: `votePreCheck`, or the transaction (lock users, limit and floor, `saveActivitiesAvailable`, `changeUserRank`) |
| `Notify` | the inbox notification sent after the commit |
| `CountUp`, `CountDown`, `UpdateVotes` | `GetAndSaveVoteResult`; a count that fails is logged and taken as 0 (`Counts`, `CountsFail`) |
| `Fail` | a statement fails, the context of the request is cancelled, or the process dies; a transaction rolls back |
| `NewDay` | midnight passes: nothing was earned today |

Left out: the refusal to vote on a deleted post, errors of the configuration,
and the pages that list votes.

### AcceptAnswer

`previous` is `accepted_answer_id` as a handler has read it, `seen` the rows
`getExistActivity` found. `ReadQuestion`, `ClearAdopted`, `Adopt`,
`UpdateAccepted`, `ReadAcceptRows`, `ReadAcceptedRows`, `CancelAccept` and `Award`
follow the code statement by statement; `SkipAccepted` and `SkipCancel` are its
early returns; `Tolerate` is a failure the code only logs, `Fail` one that ends
the request. `Penalise` belongs to the environment: a down vote takes a point
meanwhile, which is what brings the floor of 1 into play. `serial` and `whole`
remember on which questions requests have never overlapped and never failed.

Requests name an answer of their own question, as the pages send them (the code
does not check it). Who may accept is a constant: the asker, and whoever the
rank rules permit.

### AnswerLifecycle

Operations are lists of statements, as in `QuestionLifecycle`. `add` covers the
restriction to one answer per user, the insertion as pending, the reviewer's
verdict and the status written afterwards; handling a report is deletion, edit
or neither, with the error of the deletion dropped as the code drops it.
`RemoveAllUserAnswer` is the one statement behind removing a user's content.
`tally` is the count a handler is about to save; `Die` ends a request between
two statements; `Tolerate` is a refresh whose error is only logged. Any number of
requests may be on one answer at a time. `overtaken` are the answers that were
decided while the request that adds them had their status yet to write,
`restored` the handlers whose answer another request has made visible since they
began or deleted it, `broken` the answers a request on which failed, `exact` the
counters that a request alone has refreshed.

### QuestionLifecycle

No operation here uses a transaction, so an operation *is* a list of statements:
`Programs` gives it for each operation in the order the code issues them.
`plan` are the tags a handler has yet to treat (`ChangeTag` compares rows with
what is wanted, then drops, creates and enables), `seen` the columns an
operation will write back, `tally` the count it will save.

`RemoveAllUserQuestion`, behind removing all that a user wrote, is one statement
that sets the status of every question of a user and leaves tag rows and counters
as they are. Four histories say what the properties have to leave out: `clean` (no
requests have overlapped and none failed), `overtaken` (questions decided while
they were being added), `unqueued` (questions whose review, or whose status after
it, could not be saved) and `revived` (questions whose status somebody took back
from deleted otherwise than by recovering them, and whose tag rows nobody has
written since). `Overlapping` are the operations an instance lets run while others
are in flight: a bound of the runs, which the theorems do not assume anything of.

`add` inserts the question as pending and asks the reviewer plugins (`Verdicts`);
`applyEdit` is an edit made when its revision is approved. A question that needs
a review has one row in `review`. Reads whose result is not used are no steps.
Permissions, contents, links, notifications and the state of answers that can
forbid a deletion are left out: a request the code refuses for such a reason is
a request that is not sent.

### RevisionAudit and RevisionHistory

Texts are numbered by the request that brings them, so a revision is its number
and a status. An edit by somebody trusted is written and recorded as reviewed;
another is recorded only, after a look for one that waits; `approve` reads the
revision, writes it over the object, changes the tags, decides the revision and
rewards the editor, each a step; `reject` decides it. `ToggleDeleted` belongs to
the environment. `FailTags` is the change of tags that stops half way (`Mixed`),
after which an edit goes on as if it had not. `RevisionHistory` has `Propose`,
`Accept` and `Reject`; the mapping takes the text an object shows, the revision
that waits, and those rejected.

### TagSynonym

A row has a name, a status, a main tag by id and one by name. An edit reads the
row and writes all of it back; `UpdateTagSynonym` looks names up one after the
other, inserts or revives what is missing, drops the synonyms that are no longer
asked for and links the others, with names compared as the code compares them,
each loop one step per round. `question` brings tags along for a question and
`used` are those it has. `alone` says that no other request was served
meanwhile.

### AccountSession

One account suffices, for nothing here relates two. `cache` is the sessions, the
map from the user to tokens (read in one call and written in another) and the
status key; `saved` the cache as last written to its file. The lists `LoginUser`,
`VerifyEmail`, `GetUserCacheInfo`, `RemoveUserTokens`, `UpdateUserStatus` are the
calls in the order of the code; closing all sessions goes through the map token
by token, in any order, as ranging over a Go map does. `Save` and `Crash` are the
file and the loss of everything since. A request is `clean` when none that
conflicts with it (`Harmless`) was in flight at the same time. `ended` are the
sessions that a request has meant to close: the one logged out, or, for who
changes or has forgotten a password, every session opened before (but the one
that is spared). Which of them the code really closes is split in two: `firm` are
the sessions opened by clean requests, which are in the map from the user to
tokens; `loose` those that may be missing from it, because a change of password
spared them and dropped the map with their entry in it, or because a conflicting
request met them (two overlapping logins lose a token from the map, a request in
flight writes back the session it has read). `EndedStaysEnded` speaks of `ended`
without `loose`, `AllTokensInvalid` of all of `ended`, as the comment of
`UpdatePasswordWhenForgot` does; the code breaks the second without any overlap
(section 4).

### UserIdentity

Users and bindings are rows that appear one after the other; no index makes an
address or an identity unique. `mail` is what was sent, `valid` the codes still in
the cache, `latest` the code that counts for a user, `login` the half-made logins
of who came from a provider without an address. `StatementsOf` lists the statements
of each operation; a step that finds something may end the request or choose how
it goes on.

| action | code |
|---|---|
| `LookMail` | `GetByEmail`, `GetUserInfoByEmail`, and what each caller makes of the answer |
| `LookUser`, `LookIdentity`, `LookOwner` | `GetByUserID`, `GetByExternalID`, the user of the binding found |
| `Insert` | `AddUser` behind registering, adding and `registerNewUser` |
| `Confirm` | `UpdateEmailStatus`, behind a link and behind an external login (`activeUser`) |
| `WriteMail`, `WriteProfile`, `WritePassword`, `WriteStatus` | the updates of these columns; the last one also of the two it has only read |
| `LookBinding`, `Bind` | `bindOldUser` |
| `List`, `Unbind` | `ExternalLoginUnbinding` |
| `SaveLogin`, `ReadLogin` | the half-made login in the cache |
| `Send` | `SendAndSaveCode`: both entries of `SetCode`, and the mail |
| `ReadCode`, `BurnCode`, `CompareCode` | `VerifyCode` |
| `GiveUp` | a statement fails, or the request is cancelled |

Who opens a link has read a mail to its address and opens it where the mail
points to. An entry that lapses is a link nobody opens any more, or a request
that fails. Left out: names, the domains a site allows, avatars, the first point
and the sessions (both in `AccountSession`), and the plugin of a user centre, which
registers its users itself and switches the rest off.

### NoticeQueue

`Commit` is a request that commits and has messages to send; `Send` blocks while
the channel holds `Capacity` messages. `Worker` takes, looks the object up, saves
the notification (an achievement is summed up anew, an inbox row is added) and
for some messages starts a goroutine, which reads the followers (`ListFollowers`)
and sends each a copy over the same channel (`Push`). `Follow` and `FollowCancel`
are one transaction each. `Crash` loses channel, worker and goroutines. `lost`,
`behind`, `always`, `ever` record what a property has to excuse or to insist on.

### RequestGate and Contributing

Cache entries are present or not; time is the actions `LapseRecord`, `LapseActs`
and `LapseCode` (an entry expires) and `Cool` (so much time has passed that an
action is no longer too fast). The captcha plugin is taken as enabled.

The controllers share a skeleton and differ in what they hang on it; `Contributing`
has the skeleton as actions and the differences as sets of operations.

| action | code | who differs |
|---|---|---|
| `Arrive`, `ArriveUnrecorded`, `Reject`, `Record` | `DuplicateRequestRejection` | only questions, answers and comments that are added are recorded (`Recorded`) |
| `Forbid`, `Unable` | permissions, before and after the captcha | `CheckedFirst`, `CheckedLater` |
| `GoThrough`, `Verify`, `TakeBack`, `TakeBackFails` | `ActionRecordVerifyCaptcha` | admins and moderators need no code; for editing comments admins only (`Exempt`) |
| `Look`, `Skip`, `ServiceFails` | what the service reads, its early returns and errors | `Served`, `Missing`, `AfterRefusal`, `AfterError` |
| `Insert`, `Change`, `React`, `Finish`, `FinishFails` | the row is written, and what follows it | `Storing`, `Finishing` |
| `ReadCount`, `SaveCount`, `CountFails` | `ActionRecordAdd`: read, then write | a vote is counted before it is served, a question with an answer between the two, some only when they succeed (`CountedIfDone`) |
| `InsertAnswer`, `AnswerFails` | the answer that comes with a question | `AddQuestionByAnswer` |
| `ReadBackFails`, `Reply`, `ReplyUncleared` | the reply, and `DuplicateRequestClear` | an answer is read again first |

What is not kept here (whether the post above is there, an edit waits, votes
forbid a deletion, the deadline for edits has passed) is a free choice of the
step that looks. `excused`, `abandoned`, `shared` and `hurried` record the
requests, codes and counts of which the code keeps no promise: a record lapsed,
or the request failed once its row was stored; a record could not be cleared; two
handlers compared one code at once; two counts overlapped or one failed.

## 3. The runs

Twelve runs, one per question. None checks for deadlock, because an instance
serves at most `MaxRequests` requests (or events, or arrivals) and then rests;
between them the passing runs take every action and every disjunct. Points,
limits and capacities are scaled down so that they are met within a few
requests: the code only adds, compares and negates them.

| run | what it shows | instance |
|---|---|---|
| `vote_one_at_a_time` | `OneStance`, `PairedRows`, `RollbackExact` and the refinement `ImplementsStance` while votes of *different* users or posts interleave and fail; `RankFloor` and `AnnouncedOnce` | a question and a comment, 3 users, 2 handlers, 3 requests |
| `vote_serial` | long sequences over days, no failures, fair: `RankCoversRows`, `VoteCountSettled`, `VoteTakesEffect` | 1 question, 1 handler, 5 requests |
| `accept` | `RankCoversAwards` always; `OneAdopted`, `AcceptedIsAdopted`, `AwardsFollowAccepted` on the questions whose own requests neither overlapped nor failed, whatever happens on the other | 2 questions sharing their users, 3 answers, 2 handlers, 3 requests, 1 down vote, failures |
| `answer_lifecycle` | `CountsRepaired`, `PendingIsQueued`, `ReportedIsDeleted` | 2 users, 2 answers of 1 question, 2 handlers, 4 requests, on one answer or two, failures |
| `question_review` | `TagCountSettled`, `LiveIsTagged` as long as requests come one by one and none fails; `PendingIsQueued` and `PinnedNotHidden` also when they overlap and fail | 1 question, all operations, 2 tags, 2 handlers, 5 requests; adding, deciding, pinning and listing overlap, failures |
| `revision_audit` | `OneUnreviewed`, `TagsFollowText`, `RejectedNotShown` and the refinement `ImplementsHistory` | a question, an answer and a tag, 2 handlers, 4 requests, failures; one edit and one audit of an object at a time |
| `tag_synonym` | `NameHasMain` whatever overlaps; `SynonymsAsAsked`, `NoFormerName`: a request served alone repairs what others left | 3 tags, 3 names, 2 handlers, 3 requests, failures |
| `account_session` | `EndedStaysEnded`, `SuspendedIsRefused`, `FirstPointOnce` | 2 tokens, 2 handlers, 4 requests, 1 save and 1 crash, failures |
| `user_identity` | `OneAccountEach`, `VerifiedIsProven`, `KeepsAWayIn`, from an empty site | 2 addresses, 2 identities, 2 users, 2 bindings, 2 codes, 1 half-made login, 2 handlers, 4 requests, failures |
| `notice_queue` | `RankShown`, `ToldAsDue` and, under fairness, `Drains` | the author and a follower of 1 post, a channel of 1, 2 events, 2 changes of following, a crash, failing handlers |
| `contributing` | `PostedOnce`, `RetryAllowed`, `FreeWithinLimit`, `CodeTriedOnce` | 5 requests of 2 users (comment, answer, question with an answer, vote, edit), 1 code, 2 handlers, 3 arrivals, 2 posts, 1 failure, entries that lapse |
| `notice_panic` | finding: `WorkerSurvives` fails | 1 post, 2 events, no crash, no failures |

Why the bounds are enough to be interesting: a race needs two handlers; casting,
withdrawing and casting again, which is what reuses a row, needs three requests;
losing to the floor, reaching the limit and withdrawing both needs five;
adding, deleting, recovering and editing a question with the same tags needs
four, adding, deciding, deleting, setting the status and recovering it five; binding an
identity by mail (log in without an address, give one, answer the mail) and
unbinding it needs four. Two tags tell a dropped row from a kept one, a comment
(one kind of vote, no row for its author) differs from a question, two questions
tell "its" from "the". A channel of one place is full whenever anything is in it. Two tokens
tell the session that is spared from those that are ended, and one save with one
crash brings back an older cache. A third handler adds nothing to properties
that relate a read to one write in between, and where it might the theorems
speak of any number of handlers.

**Which assumption each property needs.** `OneAtATime` says that one user has no
two votes on one post in flight, or one object no two edits and no two audits.
It describes the usual client, not something the server enforces: without it
the code does leave an up and a down vote standing, unpaired rows, two waiting
edits, and a revision that is shown and reads rejected. In `AcceptAnswer`,
`AnswerLifecycle`, `QuestionLifecycle`, `TagSynonym`, `AccountSession`,
`UserIdentity` and `Contributing` any requests may overlap on any object (the
instance of `QuestionLifecycle` bounds which operations do, by `Overlapping`; its
theorems do not): history variables note what was disturbed and how, and the
property speaks of the rest, and of a disturbed object again as soon as the code
has repaired it. Thirteen configurations that are no runs of
the list show what happens beyond these lines, see section 4.

`TypeOK` and `ReadsAreCurrent` are checked by no run where a theorem has them
for every instance (section 5).

**Fairness.** `vote_serial` has weak fairness of the steps of each handler: a
goroutine that can go on is scheduled again, and no step waits for another
handler outside the database's locks, which are held within one step. Requests
need not arrive, days need not end, and nothing fails in that run.
`notice_queue` has weak fairness of the worker, which never rests, and of the
goroutine that only reads the followers; a send has strong fairness, since a Go
channel serves the senders that wait in turn, so one that finds room again and
again gets its message in. Commits, follows and crashes need not happen.

**Instances that leave operations out.** `question_review` has all operations, on
one question. Closing, reopening, setting the status and removing all of a user's
questions write a status and count nobody, so they really break the count of a
user's questions: `UserCountSettled` is checked without them, on two questions
that share their asker and their tags, in `QuestionCounts.cfg`, which has
`TagCountSettled` there too. `account_session` leaves out deleting and
deactivating an account, which are the statements of suspending it with other
values, and changing the address, which has those of confirming it: of the three
ways to the first point two race in the run, and all three in the theorem. `vote_one_at_a_time` and `vote_serial` have no count of votes that fails:
a failed count only makes the saved number wrong (`VoteRace.cfg` has it).

## 4. Findings

One disagreement between the code and what it says of itself has a run:

* `notice_panic`: the worker of the notification queue logs the error of looking
  an object up and goes on (`notification.go:123-125`), with a result that is nil
  when the comment has been deleted since; line 263 assigns to it, and nothing
  recovers the panic, so that the process ends.

Others have a configuration, but no place in the list of runs. TLC finds each
within a minute:

| configuration, module | property | what the code does |
|---|---|---|
| `VoteStaleRank.cfg`, `MCVoteRank` | `RollbackExact` | `cancelActivities` says that "the activity rank will be correct for update user rank" (`vote_repo.go:357-359`), but re-reads only whether a row is cancelled: a row revived since it was read is cancelled with the points of its earlier life |
| `AcceptBelowFloor.cfg`, `MCAcceptAnswer` | `RankFloor` | `rollbackUserRank` rolls every row back against the rank read before the first one: of an answer that two users accepted at once both rows are withdrawn, and the rank ends below 1 |
| `QuestionUntagged.cfg`, `MCQuestionLifecycle` | `ReadableHasTag` | "at least one tag is required" of a question that is asked or edited, but deleting marks its tag rows deleted and only recovering brings them back: closing, reopening and approving it, and the administrator's status (`question_service.go:1363`), write a status over "deleted" and leave a readable question without tags |
| `AnswerReviewRace.cfg`, `MCAnswerLifecycle` | `DecisionStands` | `Insert` writes the status of a new answer after it has queued its review (`answer_service.go:244-245`) and overwrites a decision in between: the answer waits and nobody can decide it any more |
| `SessionSpared.cfg`, `MCAccountSession` | `AllTokensInvalid` | "when the user changes the password, all the current user's tokens are invalid" (`user_service.go:257-258`), but changing a known password spares the session it is made from and drops the map with its entry in it (`repo/auth/auth.go:235`); whoever then says to have forgotten the password leaves that session open |
| `QuestionReviewRace.cfg`, `MCQuestionLifecycle` | `ApprovedIsVisible` | `AddQuestion` writes the pending status after it has queued the review and overwrites an approval in between |
| `AnswerRestricted.cfg`, `MCAnswerLifecycle` | `OneAnswerEach` | the restriction to one answer looks for visible answers only: while one waits for its review another can be written |
| `RevisionIdUnreviewed.cfg`, `MCRevisionAudit` | `RevisionIdIsReviewed` | "the revision_id will be updated when admin approved" (`revision_repo.go:57`), but recording an edit that waits sets it |
| `TagUsed.cfg`, `MCTagSynonym` | `UsedIsAvailable` | "If the tag has associated problems, it cannot be deleted" (`tag_service.go:78`): its questions are counted in one statement and it is deleted in another |
| `TagRename.cfg`, `MCTagSynonym` | `SynonymIsNamed` | after an edit of a main tag, `UpdateTag` (`tag_common.go:891`) and `revisionAuditTag` (`revision_service.go:318`) give its synonyms the name of *its* main tag, which it has not, instead of its own; "if main tag slug name is not empty, this tag is synonymous with the main tag" (`tag_schema.go:86`), and now it is empty |
| `IdentityUnbind.cfg`, `MCUserIdentity` | `KeepsAWayIn` | "If user has only one external login and never set password, he can't unbind it" (`user_external_login_service.go:355`), but unbinding deletes by the external id without its provider: two providers that give one user the same id are both unbound |

In the configuration of `tag_synonym`, `NoSelfSynonym` fails with two handlers
and `OriginalIsMain` already with one (chains of synonyms). Two configurations
hold: `VoteRace.cfg` (`RankFloor`, `AnnouncedOnce` and `DailyLimit` without
`OneAtATime`, with counts that fail) and `QuestionCounts.cfg`.

Met while reading, and modelled as the code has them: the two status fields are
passed in the wrong order at `user_service.go:541`; somebody mentioned twice in a
comment is told twice (`notificationMention`).

## 5. What is proved

All theorems are for every value of the constants: any sets of users, posts,
tags, tokens and handlers, any points, any number of requests. Assumptions are
those named in the modules (`VoteAssumption`, `SessionAssumption`, ...), which
TLC evaluates for every instance. What only some theorems need is a hypothesis
of theirs: `OneAtATime` (one vote per user and post in flight), `OneHandler` and
`~StatementsFail` (requests one by one, none fails; with `~CountsFail`, no count
of votes either), `AwardsNotNegative` (the installed configuration has 2 and 15),
`StatusKept` (nobody closes, reopens or sets the status of a question or removes
all of a user's: of `UserCountsAreSettled` only), and that
providers give different ids (`UnbindingLeavesAWay`; `IdentityUnbind.cfg` shows
what happens when they do not). Any other
failure that matters is in the property itself.

Every proof module begins with an inductive typing invariant (`Typed`, or
`TypeOK` itself) and its theorem `TypeCorrect` (`QueueTypeCorrect`, `IdentityTypeCorrect`). It says more than the types:
which statements can be left of a request, and what a handler has read by then.

| theorem | property | argument |
|---|---|---|
| `VoteRankProofs!RankNeverBelowOne` | `RankFloor` | `ChangeUserRank` never goes below 1 from 1 or more, whatever stale points it is given |
| `VoteRankProofs!FirstVoteAnnouncedOnce` | `AnnouncedOnce` | `AnnounceInv`: whoever is told of is recorded (`ToldOfRecorded`), a handler that is telling has inserted the row (`TellingFirst`), and no two tell of the same one (`TellingApart`); rows are never removed |
| `VoteRankProofs!StanceIsUnique`, `ReadsStayCurrent` | `OneStance` | under `OneAtATime`: a handler's reads stay true because no other handler has a request with its voter and post, and so the opposite side is gone when a vote is written |
| `VoteRankProofs!RollbackIsExact` | `RollbackExact` | from the reads being current |
| `VoteRankProofs!VotesImplementStance` | `ImplementsStance` | each step maps to `Take`, `Withdraw` or a stutter |
| `VoteRankProofs!RowsArePaired` | `PairedRows` | a transaction writes both rows of a vote, and by the reads being current it finds both in the same state |
| `VoteRankProofs!RankCoversTheRows` | `RankCoversRows` | `Covered`: the rank is at least what the rows that count add up to; a transaction moves the sum by the points of the rows it writes and the rank by no less |
| `VoteRankProofs!DailyLimitHolds` | | `DailyLimit`: a rank goes up only below the limit, or a penalty is withdrawn |
| `VoteRankProofs!CountIsSettled` | `VoteCountSettled` | under `OneHandler`, `~StatementsFail` and `~CountsFail`, `CountInv`: a post whose `vote_count` is off is being voted on, and what the handler has counted of it by then is right |
| `AcceptProofs!OneAnswerAdopted` | `OneAdopted` | two handlers are never on one undisturbed question, and one about to adopt has cleared every flag of it |
| `AcceptProofs!PointerMatchesFlag`, `AwardsMatchPointer` | `AcceptedIsAdopted`, `AwardsFollowAccepted` | `SettledInv` says, for every step a handler can be at, which of the four tables already tell of the new answer and which still of the old; on a question that was disturbed it says nothing (`SettledUnclean`), and its handlers touch no other question |
| `AcceptProofs!RankCoversTheAwards` | `RankCoversAwards` | under `AwardsNotNegative`, `AwardInv`: a row found cancelled before a transaction may count again within it, and is then cancelled at no loss, which leaves the rank above the sum only if an award is not negative |
| `AnswerProofs!WaitingIsQueued` | `PendingIsQueued` | `Waiting`, for each answer apart: the review is there before the status that needs it, or the one request that adds the answer is in flight and owes it; a decision closes the review after it has written the status, so the answer waits again only if the adding request writes later (`overtaken`) or the answer is in `broken` |
| `AnswerProofs!CountersAreRepaired` | `CountsRepaired` | `Counting`: what a clean handler has counted is still the count when it saves it |
| `AnswerProofs!ReportedAnswerIsDeleted` | `ReportedIsDeleted` | a handler past its deletion finds the answer deleted as long as nobody else writes another status, and who does is noted in `restored` of every handler on that answer |
| `QuestionProofs!PinnedNeverHidden` | `PinnedNotHidden` | `ReadPairs`: what a handler has read and will write back is never a pair its operation makes illegal |
| `QuestionProofs!TagCountsAreSettled`, `UserCountsAreSettled` | `TagCountSettled`, `UserCountSettled` | `Settling`, as long as requests come one by one and none fails: what the program has left (`AllChained`) and has planned includes a count of every tag and of the asker whose saved number is off (`Off`, `Owes`); the second under `StatusKept` |
| `QuestionProofs!ReadableIsTagged` | `LiveIsTagged` | `Tagging` in `Settling`: for every statement an edit, a deletion, a recovery or a change of status can be at, which rows the question has and which it is to get, or that it is in `revived` |
| `QuestionProofs!PendingHasReview` | `PendingIsQueued` | `Waiting`: a question has its adding request to itself until its row is there (`QuestionWaits`); from then on a decision finds it either with its status for good or still being added, and has overtaken it (`WorkWaits`) |
| `RevisionIdentityProofs!OneEditWaits` | `OneUnreviewed` | under `OneAtATime`, `QueueInv`: between the look for a waiting edit and its recording nobody else records one |
| `RevisionIdentityProofs!TagsAreOfText` | `TagsFollowText` | `TagInv`: who has written a text and not yet its tags is in flight, or failed |
| `RevisionIdentityProofs!RejectedStaysOut` | `RejectedNotShown` | `ShownInv`: a revision that is being approved is decided by nobody else |
| `RevisionIdentityProofs!EditsImplementHistory` | `ImplementsHistory` | `QueueInv`, `TextInv` and `ShownInv` give the mapping of every step |
| `RevisionIdentityProofs!AvailableIsVouchedFor` | `VerifiedIsProven` | `ProofInv`: an account that may be confirmed is `Sure` (somebody vouched for its address, or a change of status was lost over it), and what a request `Knows` by each statement left to it is enough to see that whom it confirms is: a mail that was read, an address from a provider, a binding, which only a sure account has |
| `RevisionIdentityProofs!LeadsToOneAccount` | `OneAccountEach` | `OwnersInv` with `ProofInv`: between looking for an address or an identity and storing it, a handler that is alone with it still finds nobody (`FoundAlone`), because whoever stores it ends the solitude of the others (`Stored`); so no address and no identity outside `contested` gets a second row (`Unique`) |
| `RevisionIdentityProofs!UnbindingLeavesAWay` | `KeepsAWayIn` | if the ids of different providers differ: who is about to unbind has a password or was shown two bindings (`Knows`), passwords are never taken away, and by `Unique` the bindings that go are rows of one identity, hence one row |
| `TagNoticeProofs!NameNeverWithoutMain` | `NameHasMain` | `Known`: every row a handler holds and may write back has the two columns in step |
| `TagNoticeProofs!SynonymsBecomeAsAsked`, `FormerNameIsGone` | `SynonymsAsAsked`, `NoFormerName` | `Informed`, by the stage a request served alone has reached: which names are found, which are still to be looked up, inserted, dropped or linked |
| `AccountProofs!FirstPointGivenOnce` | `FirstPointOnce` | `PointsOK`: a confirmed address has its point, or a request that will give it is in flight, or it was missed for a recorded reason |
| `AccountProofs!SessionsStayEnded` | `EndedStaysEnded` | `SessionInv`: a request on a firm session has only met harmless ones (`Meeting`, with `Apart`), so firm sessions are in the map and in every map about to be written (`MapRead`); who ends sessions, disturbed or not, has closed the firm ones it has passed (`Closing`); nobody refreshes one that is over and not loose (`Refreshing`) |
| `AccountProofs!SuspendedIsNotLetIn` | `SuspendedIsRefused` | `RefuseInv`: what the last clean change of status has made of row and key by every statement (`WriterOK`), the key is right where it decides (`KeyTrusted`), and so are the sessions where there is no key (`SessionsTrusted`) |
| `TagNoticeProofs!RankIsShown` | `RankShown` | `Showing`: a post that shows another rank than it has is announced, and the rank the worker holds is the rank of the post, or another achievement of the post is in an outbox or the channel |
| `TagNoticeProofs!EveryoneIsToldAsDue` | `ToldAsDue` | `InOnePlace`: no message is in two places; `Tellings`: no two ask for one row; `Counting`: the rows told and those still to come (`Waits`) are as many as are due, or at least and at most, according to who has followed when |
| `TagNoticeProofs!FollowersCounted` | | `QueueTyped`: a transaction adds or drops one follower and counts one |
| `ContributeProofs!StoredOnce`, `FailedMayRepeat`, `TriedOnce`, `LimitHolds` | `PostedOnce`, `RetryAllowed`, `CodeTriedOnce`, `FreeWithinLimit` | for every handler: `Kept` ties the record to the request in flight or the post stored, `CodeInv` the code to the handler that compares it, `FreeInv` the count to the free passes, whether counted before the service or after |

The invariants are defined in the proof modules next to the lemma of each
action. None of the properties is inductive as it stands: each speaks of tables
and the strengthening adds what handlers in flight have read, have done and
still owe.

Three properties compare a number with a *sum* over a set of rows, which
`Reputation` takes with a fold of the community modules. What the fold computes
is proved and not assumed: the recursive function behind it exists and is
unique, adding or dropping one row adds or drops its points. No induction
theorem of the library is used for that (they take an operator as a parameter):
if a claim that is passed on from n to n + 1 failed at some m, the successor
would map the finite set of numbers up to m for which it holds into itself, one
to one and without meeting 0, which no finite set allows. The
lemmas are in `VoteRankProofs` and `AcceptProofs`, next to the rows they sum.

## 6. What is only model-checked

* Liveness (`VoteTakesEffect`, `Drains`): the prover does not reason about
  fairness.

Every other property of a passing run is a theorem.

No module declares a RECURSIVE operator.

## 7. What is left to do

1. Proofs: that the counts a request leaves are right when requests overlap
   without touching the same rows (`CountIsSettled`, `TagCountsAreSettled` and
   `UserCountsAreSettled` take requests one by one).
2. Bookmarks: a row and a counter written without a transaction; a user who
   follows one post twice at once (`follow_repo.go:87`).
3. The tags only administrators may use and the recommended ones, and the count
   an edit of a tag writes back with the row it has read.
4. The cache in front of the site configuration.
5. The gate in front of logins, passwords, profiles and searches, which reset
   their count when they succeed.

## 8. Not modelled, and why

Pure I/O or display (uploads, mail, rendering, search, dashboard, translations,
web interface, generated API documentation); single statements with nothing to
interleave (reactions are one transaction, unique ids one auto-increment);
code that runs alone (installation, migrations, command line); code that depends
on third parties (plugins, the user centre). Permissions (roles, powers, ranks)
decide which requests arrive and appear as the requests that are sent or as a
set of users who may do something. `PROJECT.json` lists every part with its
files and its status, and what is left out of those that are modelled.

The models stand for some 6 900 lines, about a tenth of the Go and web sources.
The rest is, by size, generated documentation (`docs/docs.go` alone is a sixth),
request and response types, controllers that parse and render, and the reading
side of every service: lists, pages, feeds and searches, which change nothing.
What changes state and is left out is named in sections 2 and 7.

## 9. Running

    tlc -workers 2 -config VoteOneAtATime.cfg MCVoteRank
    tlc -workers 2 -config AccountSession.cfg MCAccountSession
    tlc -workers 2 -config NoticeQueue.cfg MCNoticeQueue
    tlapm AccountProofs.tla

Every run takes less than five minutes; `PROJECT.json` names the module and the
configuration of each. The definitions whose comment starts with "Mutant:" are
plausible mistakes in the definition they precede; putting one in its place must
break the property that `PROJECT.json` names with it. A few belong to
properties that only the further configurations check (`DailyLimit`,
`UserCountSettled`).
