--------------------------- MODULE AccountSession ---------------------------
(***************************************************************************)
(* One account and its sessions.  The row of the user is in the database;  *)
(* the sessions, the map from the user to the tokens of the sessions and   *)
(* the key that tells open sessions of a change of status are in the cache,*)
(* which is in memory and is saved to a file once a minute.  Every         *)
(* statement and every call of the cache is a step, and requests overlap.  *)
(* An entry lives for seven days, the map and the key never less than the  *)
(* sessions they are for, so expiry takes nothing away that matters here.  *)
(* Roles, the administrators' copy of a session and visit tokens are left  *)
(* out.                                                                    *)
(***************************************************************************)
EXTENDS Integers, Sequences, FiniteSets

CONSTANTS
  Tokens, Handlers,
  None,            \* no entry in the cache
  NoRequest,       \* what an idle handler serves
  Operations,      \* the operations of this instance
  MaxRequests,     \* bound: how many requests are received in all
  MaxFileUses,     \* bound: how often the file of the cache is written or read
  StatementsFail   \* statements of the database may fail

\* What a status field may hold: an account is available, suspended or deleted,
\* its address is available or still to be verified.
Values == {"available", "suspended", "deleted", "toBeVerified"}
Accounts == [status : Values \ {"toBeVerified"}, mail : {"available", "toBeVerified"}]
Infos == [status : Values, mail : Values]

Openers == {"login", "verify", "changeEmail"}
Closers == {"endAll", "endOthers"}
Changes == {"suspend", "delete", "deactivate", "restore"}
AllOperations == Openers \cup Closers \cup Changes \cup {"use", "logout"}

\* A request with what it has read: an account or a session, whether the user had
\* no reputation yet (administrators look at that), and the map.
Requests == [op : AllOperations, token : Tokens \cup {None},
             info : Infos \cup {None}, unranked : BOOLEAN, map : SUBSET Tokens]

ASSUME SessionAssumption ==
  /\ IsFiniteSet(Tokens)
  /\ Operations \subseteq AllOperations
  /\ MaxRequests \in Nat /\ MaxFileUses \in Nat
  /\ StatementsFail \in BOOLEAN
  /\ None \notin Tokens \cup Infos
  /\ NoRequest \notin Requests

VARIABLES
  account,      \* status and mail status in the user's row
  points,       \* how often the first point was given
  session,      \* the session behind a token
  tokenMap,     \* the tokens known as this user's
  statusKey,    \* the last change of status
  saved,        \* the cache as it was last saved
  issued,       \* the tokens given out
  received, fileUses,
  todo, req,    \* of every handler: the statements left, and the request
  clean,        \* history: the request met none that conflicts with it
  firm,         \* history: sessions opened and left in the map by every request
  loose,        \* history: sessions spared, or met by conflicting requests
  ended,        \* history: sessions ended for good
  keyStale,     \* history: the status key may be older than the row
  missed        \* history: giving the first point was cut short

cache == <<session, tokenMap, statusKey>>
history == <<clean, firm, loose, ended, keyStale, missed>>
vars == <<account, points, cache, saved, issued, received, fileUses, todo, req, history>>

-----------------------------------------------------------------------------
(* The statements of a request *)

LoginUser == <<"readAccount", "setSession", "readMap", "writeMap">>
VerifyEmail == <<"readAccount", "confirm", "activate", "setSession", "readMap", "writeMap",
                 "setStatus">>
GetUserCacheInfo == <<"readSession", "readStatus", "setSession", "readMap", "writeMap">>
RemoveUserTokens == <<"readMap", "closeSessions", "dropStatus", "dropMap">>
UpdateUserStatus == <<"readAccount", "writeAccount", "setStatus", "activate">>

Program(op) ==
  CASE op = "login" -> LoginUser
    [] op \in {"verify", "changeEmail"} -> VerifyEmail
    [] op = "use" -> GetUserCacheInfo
    [] op = "logout" -> <<"closeSession">>
    [] op \in Closers -> RemoveUserTokens
    [] op \in Changes -> UpdateUserStatus

Statements == {"readAccount", "setSession", "readMap", "writeMap", "confirm", "activate",
               "setStatus", "readSession", "readStatus", "closeSession", "closeSessions",
               "dropStatus", "dropMap", "writeAccount"}

\* What an administrator makes of an account.
Changed(change, a) ==
  CASE change = "suspend" -> [a EXCEPT !.status = "suspended"]
    [] change = "delete" -> [a EXCEPT !.status = "deleted"]
    [] change = "deactivate" -> [a EXCEPT !.mail = "toBeVerified"]
    [] change = "restore" -> [status |-> "available", mail |-> "available"]

\* What a request writes to a session or to the status key.  UserVerifyEmail
\* hands over the two fields in the wrong order.
Written(q) ==
  CASE q.op = "verify" -> [status |-> "available", mail |-> q.info.status]
    [] q.op = "changeEmail" -> [q.info EXCEPT !.mail = "available"]
    [] q.op \in Changes -> Changed(q.op, q.info)
    [] OTHER -> q.info

\* Mutant: the map is started anew with every session.
MappedAlone(q) == {q.token}

\* AddUserTokenMapping.
Mapped(q) == q.map \cup {q.token}

\* Mutant: the point is given whenever it is asked for.
ActivatedAgain(p) == p + 1

\* UserActive: one transaction, which looks for the row it is about to add.
Activated(p) == IF p = 0 THEN 1 ELSE p

\* Mutant: the status key is not looked at.
SessionOnly(t) == session[t]

\* GetUserCacheInfo: the session of a token, with the status from the key.
Effective(t) == IF statusKey = None THEN session[t] ELSE statusKey

\* MustAuthAndAccountAvailable.
Accepted(i) == i.mail = "available" /\ i.status \notin {"suspended", "deleted"}

-----------------------------------------------------------------------------
Busy(h) == todo[h] # <<>>

Empty == [session |-> [t \in Tokens |-> None], tokenMap |-> {}, statusKey |-> None]

\* The account is registered, and confirmed or not.
Init ==
  /\ \/ account = [status |-> "available", mail |-> "toBeVerified"] /\ points = 0
     \/ account = [status |-> "available", mail |-> "available"] /\ points = 1
  /\ session = Empty.session /\ tokenMap = Empty.tokenMap /\ statusKey = Empty.statusKey
  /\ saved = Empty
  /\ issued = {}
  /\ received = 0 /\ fileUses = 0
  /\ todo = [h \in Handlers |-> <<>>]
  /\ req = [h \in Handlers |-> NoRequest]
  /\ clean = [h \in Handlers |-> TRUE]
  /\ firm = {} /\ loose = {} /\ ended = {}
  /\ keyStale = FALSE /\ missed = FALSE

\* Two requests in flight that leave alone what the other one relies on: both
\* refresh their session, or one is a login, a logout or a change of status that
\* does not meet a request of the same kind or token.
Harmless(q, r) ==
  LET ops == {q.op, r.op}
      Single(kind) == ~(q.op \in kind /\ r.op \in kind)
  IN \/ ops \subseteq {"use", "logout"} \cup Changes
        /\ Single(Changes) /\ (ops = {"use", "logout"} => q.token # r.token)
     \/ ops \subseteq {"login", "logout"} \cup Changes
        /\ Single(Changes) /\ Single({"login"})

\* Who writes or drops the status key.
KeyWriters == {"verify", "changeEmail"} \cup Closers \cup Changes

\* The tokens a browser may have been given.
Held == issued \ {req[h].token : h \in {g \in Handlers : Busy(g) /\ req[g].op \in Openers}}

\* The token of a new session, or the one the request came with.
TokenFor(op, t) ==
  CASE op \in Openers -> t \in Tokens \ issued
    [] op \in {"use", "logout"} -> t \in Held
    [] op = "endOthers" -> t \in Held /\ session[t] # None /\ Accepted(Effective(t))
    [] OTHER -> t = None

Receive(h, op, t) ==
  LET q == [op |-> op, token |-> t, info |-> None, unranked |-> FALSE, map |-> {}]
      hurt == {g \in Handlers : Busy(g) /\ ~Harmless(q, req[g])}
      met == IF hurt = {} THEN {} ELSE {t} \cup {req[g].token : g \in hurt}
  IN
  /\ ~Busy(h)
  /\ received < MaxRequests
  /\ TokenFor(op, t)
  /\ received' = received + 1
  /\ issued' = IF op \in Openers THEN issued \cup {t} ELSE issued
  /\ req' = [req EXCEPT ![h] = q]
  /\ todo' = [todo EXCEPT ![h] = Program(op)]
  /\ clean' = [g \in Handlers |-> IF g = h THEN hurt = {} ELSE clean[g] /\ g \notin hurt]
  /\ firm' = firm \ met /\ loose' = loose \cup (firm \cap met)
  /\ keyStale' = (keyStale \/ \E g \in hurt : {op, req[g].op} \cap KeyWriters # {})
  /\ UNCHANGED <<account, points, cache, saved, fileUses, ended, missed>>

At(h, s) == Busy(h) /\ Head(todo[h]) = s

\* What is known once a request is through with its last statement.  Whoever ends
\* all sessions means every one that was opened; the session that endOthers spares
\* is out of the map from then on.
Complete(h) ==
  LET q == req[h] IN
  /\ todo' = [todo EXCEPT ![h] = <<>>]
  /\ req' = [req EXCEPT ![h] = NoRequest]
  /\ firm' = CASE q.op \in Openers -> IF clean[h] THEN firm \cup {q.token} ELSE firm
               [] q.op \in Closers -> {}
               [] q.op = "logout" -> firm \ {q.token}
               [] OTHER -> firm
  /\ loose' = CASE q.op \in Openers -> IF clean[h] THEN loose ELSE loose \cup {q.token}
                [] q.op = "endOthers" -> loose \cup {q.token}
                [] q.op = "logout" -> IF clean[h] THEN loose \ {q.token} ELSE loose \cup {q.token}
                [] OTHER -> loose
  /\ ended' = CASE q.op = "logout" -> ended \cup {q.token}
                [] q.op \in Closers -> ended \cup ((firm \cup loose) \ {q.token})
                [] OTHER -> ended
  /\ keyStale' = (keyStale /\ ~(clean[h] /\ q.op \in KeyWriters))
  /\ UNCHANGED clean

\* Go on with the next statement, the request being q now.
Advance(h, q) ==
  IF Len(todo[h]) = 1 THEN Complete(h)
  ELSE /\ todo' = [todo EXCEPT ![h] = Tail(@)]
       /\ req' = [req EXCEPT ![h] = q]
       /\ UNCHANGED <<clean, firm, loose, ended, keyStale>>

\* The request is over before its last statement, having opened no session.
Leave(h) ==
  /\ todo' = [todo EXCEPT ![h] = <<>>]
  /\ req' = [req EXCEPT ![h] = NoRequest]
  /\ UNCHANGED <<clean, firm, loose, ended, keyStale>>

-----------------------------------------------------------------------------
(* Statements on the user's row *)

\* GetByEmail does not find a deleted user; a change of address looks for the id.
Found(q) ==
  CASE q.op \in {"login", "verify"} \cup Changes -> account.status # "deleted"
    [] OTHER -> TRUE

ReadAccount(h) ==
  /\ At(h, "readAccount")
  /\ IF Found(req[h])
       THEN Advance(h, [req[h] EXCEPT !.info = account,
                                      !.unranked = req[h].op \in Changes /\ points = 0])
       ELSE Leave(h)
  /\ UNCHANGED <<account, points, cache, saved, issued, received, fileUses, missed>>

\* UpdateEmailStatus; UserVerifyEmail leaves out the statement when the address
\* was confirmed before.
Confirm(h) ==
  LET q == req[h] IN
  /\ At(h, "confirm")
  /\ account' = IF q.op = "verify" /\ q.info.mail = "available" THEN account
                ELSE [account EXCEPT !.mail = "available"]
  /\ Advance(h, q)
  /\ UNCHANGED <<points, cache, saved, issued, received, fileUses, missed>>

\* The administrator's update writes both fields, as read and changed.
WriteAccount(h) ==
  LET q == req[h] IN
  /\ At(h, "writeAccount")
  /\ account' = Changed(q.op, q.info)
  /\ Advance(h, q)
  /\ UNCHANGED <<points, cache, saved, issued, received, fileUses, missed>>

\* Who asks for the first point: a new address only in place of one that was not
\* confirmed, an administrator only when the user has no reputation.
AsksForPoint(q) ==
  CASE q.op = "verify" -> TRUE
    [] q.op = "changeEmail" -> q.info.mail = "toBeVerified"
    [] q.op \in Changes -> q.op = "restore" /\ q.unranked

Activate(h) ==
  LET q == req[h] IN
  /\ At(h, "activate")
  /\ \/ points' = (IF AsksForPoint(q) THEN Activated(points) ELSE points) /\ UNCHANGED missed
     \* An error is written to the log, or returned by the last statement.
     \/ StatementsFail /\ AsksForPoint(q) /\ missed' = TRUE /\ UNCHANGED points
  /\ Advance(h, q)
  /\ UNCHANGED <<account, cache, saved, issued, received, fileUses>>

-----------------------------------------------------------------------------
(* Calls of the cache *)

SetSession(h) ==
  LET q == req[h] IN
  /\ At(h, "setSession")
  /\ session' = [session EXCEPT ![q.token] = Written(q)]
  /\ Advance(h, q)
  /\ UNCHANGED <<account, points, tokenMap, statusKey, saved, issued, received, fileUses, missed>>

ReadMap(h) ==
  /\ At(h, "readMap")
  /\ Advance(h, [req[h] EXCEPT !.map = tokenMap])
  /\ UNCHANGED <<account, points, cache, saved, issued, received, fileUses, missed>>

WriteMap(h) ==
  LET q == req[h] IN
  /\ At(h, "writeMap")
  /\ tokenMap' = Mapped(q)
  /\ Advance(h, q)
  /\ UNCHANGED <<account, points, session, statusKey, saved, issued, received, fileUses, missed>>

SetStatus(h) ==
  LET q == req[h] IN
  /\ At(h, "setStatus")
  /\ statusKey' = Written(q)
  /\ Advance(h, q)
  /\ UNCHANGED <<account, points, session, tokenMap, saved, issued, received, fileUses, missed>>

ReadSession(h) ==
  LET q == req[h] IN
  /\ At(h, "readSession")
  /\ IF session[q.token] = None THEN Leave(h)
     ELSE Advance(h, [q EXCEPT !.info = session[q.token]])
  /\ UNCHANGED <<account, points, cache, saved, issued, received, fileUses, missed>>

\* Without a change of status nothing is written back.
ReadStatus(h) ==
  LET q == req[h] IN
  /\ At(h, "readStatus")
  /\ IF statusKey = None THEN Leave(h) ELSE Advance(h, [q EXCEPT !.info = statusKey])
  /\ UNCHANGED <<account, points, cache, saved, issued, received, fileUses, missed>>

CloseSession(h) ==
  LET q == req[h] IN
  /\ At(h, "closeSession")
  /\ session' = [session EXCEPT ![q.token] = None]
  /\ Advance(h, q)
  /\ UNCHANGED <<account, points, tokenMap, statusKey, saved, issued, received, fileUses, missed>>

\* One token of the map after the other, in any order.
CloseSessions(h) ==
  LET q == req[h]
      left == q.map \ {q.token}
  IN
  /\ At(h, "closeSessions")
  /\ \/ \E t \in left :
          /\ session' = [session EXCEPT ![t] = None]
          /\ req' = [req EXCEPT ![h].map = q.map \ {t}]
          /\ UNCHANGED <<todo, clean, firm, loose, ended, keyStale>>
     \/ left = {} /\ Advance(h, q) /\ UNCHANGED session
  /\ UNCHANGED <<account, points, tokenMap, statusKey, saved, issued, received, fileUses, missed>>

DropStatus(h) ==
  /\ At(h, "dropStatus")
  /\ statusKey' = None
  /\ Advance(h, req[h])
  /\ UNCHANGED <<account, points, session, tokenMap, saved, issued, received, fileUses, missed>>

\* The map goes with the token that was spared.
DropMap(h) ==
  /\ At(h, "dropMap")
  /\ tokenMap' = {}
  /\ Advance(h, req[h])
  /\ UNCHANGED <<account, points, session, statusKey, saved, issued, received, fileUses, missed>>

-----------------------------------------------------------------------------
(* Failures *)

\* A request that is cut off between confirming an address and the first point.
OwesPoint(h) ==
  /\ Busy(h)
  /\ "activate" \in {todo[h][i] : i \in DOMAIN todo[h]}
  /\ req[h].info # None

\* A statement on the row fails and its error is returned.
Fail(h) ==
  /\ StatementsFail
  /\ At(h, "readAccount") \/ At(h, "confirm") \/ At(h, "writeAccount")
  /\ Leave(h)
  /\ UNCHANGED <<account, points, cache, saved, issued, received, fileUses, missed>>

Cached == [session |-> session, tokenMap |-> tokenMap, statusKey |-> statusKey]

\* NewCache: the cache is saved every minute.
Save ==
  /\ fileUses + 1 < MaxFileUses   \* a crash that reads it is still to come
  /\ fileUses' = fileUses + 1
  /\ saved' = Cached
  /\ UNCHANGED <<account, points, cache, issued, received, todo, req, history>>

\* The process dies with the requests it serves and starts with the saved cache.
\* A stop in good order saves the cache and loses nothing.
Crash ==
  /\ fileUses < MaxFileUses
  /\ fileUses' = fileUses + 1
  /\ session' = saved.session /\ tokenMap' = saved.tokenMap /\ statusKey' = saved.statusKey
  /\ todo' = [h \in Handlers |-> <<>>]
  /\ req' = [h \in Handlers |-> NoRequest]
  /\ firm' = IF saved = Cached /\ \A h \in Handlers : ~Busy(h) THEN firm ELSE {}
  /\ keyStale' = (keyStale \/ saved # Cached \/ \E h \in Handlers : Busy(h))
  /\ ended' = {t \in ended : saved.session[t] = None}
  /\ loose' = loose \cup (firm \ firm') \cup (ended \ ended')
  /\ missed' = (missed \/ \E h \in Handlers : OwesPoint(h))
  /\ UNCHANGED <<account, points, saved, issued, received, clean>>

Step(h) ==
  \/ ReadAccount(h) \/ Confirm(h) \/ WriteAccount(h) \/ Activate(h)
  \/ SetSession(h) \/ ReadMap(h) \/ WriteMap(h) \/ SetStatus(h)
  \/ ReadSession(h) \/ ReadStatus(h)
  \/ CloseSession(h) \/ CloseSessions(h) \/ DropStatus(h) \/ DropMap(h)

Next ==
  \/ \E h \in Handlers :
       \/ \E op \in Operations, t \in Tokens \cup {None} : Receive(h, op, t)
       \/ Step(h) \/ Fail(h)
  \/ Save \/ Crash

Spec == Init /\ [][Next]_vars

-----------------------------------------------------------------------------
(* Properties *)

TypeOK ==
  /\ account \in Accounts
  /\ points \in 0..2
  /\ session \in [Tokens -> Infos \cup {None}]
  /\ tokenMap \subseteq Tokens
  /\ statusKey \in Infos \cup {None}
  /\ saved \in [session : [Tokens -> Infos \cup {None}], tokenMap : SUBSET Tokens,
                statusKey : Infos \cup {None}]
  /\ issued \subseteq Tokens
  /\ received \in 0..MaxRequests
  /\ fileUses \in 0..MaxFileUses
  /\ todo \in [Handlers -> Seq(Statements)]
  /\ req \in [Handlers -> Requests \cup {NoRequest}]
  /\ \A h \in Handlers : Busy(h) <=> req[h] # NoRequest
  /\ clean \in [Handlers -> BOOLEAN]
  /\ firm \subseteq issued /\ loose \subseteq issued /\ ended \subseteq issued
  /\ keyStale \in BOOLEAN /\ missed \in BOOLEAN

Quiet == \A h \in Handlers : ~Busy(h)

\* "When the user changes the password, all the current user's tokens are
\* invalid" (UpdatePasswordWhenForgot): so every session that was opened before is
\* closed once RemoveUserTokens is through, and stays so.  Not so: the session
\* that a change of password spares goes out of the map with the others.
AllTokensInvalid == \A t \in ended : session[t] = None

\* What does hold: a session that was ended stays ended, whatever overlaps and
\* whatever file a crash brings back, unless it was spared by an earlier change of
\* password, or a conflicting request on it was served at the same time, which
\* may lose its entry of the map or write the session back.
EndedStaysEnded == \A t \in ended \ loose : session[t] = None

\* When nothing is in flight, no session is let in (MustAuthAndAccountAvailable)
\* while the row says suspended, deleted or unverified, once the last change of
\* status went through undisturbed.
SuspendedIsRefused ==
  Quiet /\ ~keyStale =>
    \A t \in firm :
      session[t] # None /\ Accepted(Effective(t)) => Accepted(account)

\* The first point (UserActive) is given once, on whichever of the three ways
\* the address is confirmed first and however they overlap, and is not forgotten.
FirstPointOnce ==
  /\ points <= 1
  /\ Quiet /\ account.mail = "available" /\ ~missed => points = 1
=============================================================================
