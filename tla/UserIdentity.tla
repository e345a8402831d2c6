---------------------------- MODULE UserIdentity ----------------------------
(***************************************************************************)
(* Who is who: the accounts with their addresses, the identities that      *)
(* providers of external logins vouch for and the accounts they are bound  *)
(* to, and the links in mails that prove an address.  Rows are in the      *)
(* database, which knows no unique address and no unique identity; codes   *)
(* and half-made logins are in the cache.  Every statement and every call  *)
(* of the cache is a step, and requests overlap.  The sessions a request   *)
(* opens or ends are in AccountSession.  Left out: names, the domains a    *)
(* site allows, and the plugin of a user centre, which takes over all of   *)
(* this.                                                                   *)
(***************************************************************************)
EXTENDS Handling, FiniteSets

CONSTANTS
  Emails,
  Identities,      \* who somebody is to a provider
  ExternalID(_),   \* the id of an identity, which says nothing of the provider
  None,            \* no row, no address, nothing read
  Operations,      \* the operations of this instance
  MaxUsers, MaxBindings, MaxCodes, MaxLogins \* bounds: rows and entries made

Users == 1..MaxUsers
Rows == 1..MaxBindings
Codes == 1..MaxCodes
Keys == 1..MaxLogins

Opens == {"verify", "changeMail", "reset"}
Changes == {"suspend", "delete", "deactivate", "restore"}
AllOperations == Opens \cup Changes \cup
  {"register", "addUser", "editProfile", "setPassword", "external", "bindMail", "unbind",
   "askVerify", "askChange", "askReset"}

\* The rows of users and of bindings, the mails, the half-made logins, the requests.
AccountRows == [status : {"available", "suspended", "deleted"}, email : Emails \cup {None},
                pass : BOOLEAN, mail : {"available", "toBeVerified"}]
BindingRows == [identity : Identities, user : Users]
Mails == [link : Opens, email : Emails \cup {None}, user : Users, key : Keys \cup {None}]
Logins == [identity : Identities, email : Emails \cup {None}]
AllRequests ==
  [op : AllOperations, user : Users \cup {None}, email : Emails \cup {None}, must : BOOLEAN,
   identity : Identities \cup {None}, key : Keys \cup {None}, code : Codes \cup {None},
   row : AccountRows \cup {None}, bound : Rows \cup {None}, listed : Nat]

AllStatements ==
  {"lookMail", "lookUser", "lookIdentity", "lookOwner", "lookBinding", "insert", "confirm",
   "writeMail", "writeProfile", "writePassword", "writeStatus", "saveLogin", "readLogin",
   "bind", "list", "unbind", "send", "readCode", "burnCode", "compareCode"}

ASSUME IdentityAssumption ==
  /\ IsFiniteSet(Emails) /\ IsFiniteSet(Identities)
  /\ Operations \subseteq AllOperations
  /\ {MaxUsers, MaxBindings, MaxCodes, MaxLogins, MaxRequests} \subseteq Nat
  /\ None \notin Emails \cup Identities \cup Nat
  /\ None \notin AccountRows \cup BindingRows \cup Mails \cup Logins

VARIABLES
  account,    \* the rows of users
  binding,    \* the rows that bind an identity to a user
  mail,       \* the mails sent, by their code: link and content
  valid,      \* the codes whose content is in the cache
  latest,     \* the latest code of a user, in the cache
  login,      \* half-made external logins, in the cache by their key
  inserted,   \* how many bindings were ever inserted
  alone,      \* history: nobody stored the address or the identity since it was looked for
  contested,  \* history: addresses and identities stored by who was not alone
  lost,       \* history: users whose change of address was overwritten
  vouched     \* history: addresses that somebody vouched for

data == <<account, binding, inserted>>
cache == <<mail, valid, latest, login>>
identityVars == <<data, cache, received, todo, req, alone, contested, lost, vouched>>

Exists(u) == account[u] # None
Live(u) == Exists(u) /\ account[u].status # "deleted"

\* GetByEmail, GetByExternalID and GetUserExternalLoginList.
WithMail(e) == {u \in Users : Live(u) /\ account[u].email = e}
RowsOf(i) == {r \in Rows : binding[r] # None /\ binding[r].identity = i}
Bound(u) == {r \in Rows : binding[r] # None /\ binding[r].user = u}

-----------------------------------------------------------------------------
(* What a request has to do *)

\* Registering, by oneself or by an administrator; many at once are as many.
UserRegisterByEmail == <<"lookMail", "insert", "send">>
AddUser == <<"lookMail", "insert">>

\* An external login that is known, one without an address, and one with.
LoginDirectly == <<"lookOwner", "confirm">>
AskForEmail == <<"saveLogin">>
LoginByEmail == <<"lookMail", "insert", "lookBinding", "bind", "confirm">>
BindingUserSendEmail == <<"readLogin", "lookMail", "insert", "saveLogin", "send">>

ExternalLoginUnbinding == <<"lookUser", "list", "unbind">>

\* VerifyCode, and what follows it behind each of the links.
VerifyCode == <<"readCode", "burnCode", "compareCode">>
UserVerifyEmail == VerifyCode \o <<"lookMail", "confirm", "readLogin", "lookBinding", "bind">>

\* Mutant: the address was free when the mail was sent.
ChangeUnchecked == VerifyCode \o <<"lookUser", "writeMail", "confirm">>

UserChangeEmailVerify == VerifyCode \o <<"lookMail", "lookUser", "writeMail", "confirm">>
UpdatePasswordWhenForgot == VerifyCode \o <<"lookMail", "writePassword">>

StatementsOf(op) ==
  CASE op = "register" -> UserRegisterByEmail
    [] op = "addUser" -> AddUser
    [] op = "editProfile" -> <<"lookMail", "writeProfile">>
    [] op = "setPassword" -> <<"lookUser", "writePassword">>
    [] op = "external" -> <<"lookIdentity">>
    [] op = "bindMail" -> BindingUserSendEmail
    [] op = "unbind" -> ExternalLoginUnbinding
    [] op = "askVerify" -> <<"lookUser", "send">>
    [] op = "askChange" -> <<"lookUser", "lookMail", "send">>
    [] op = "askReset" -> <<"lookMail", "send">>
    [] op = "verify" -> UserVerifyEmail
    [] op = "changeMail" -> UserChangeEmailVerify
    [] op = "reset" -> UpdatePasswordWhenForgot
    [] op \in Changes -> <<"lookUser", "writeStatus">>

\* The link in the mail a request sends.
LinkOf(op) ==
  CASE op = "askChange" -> "changeMail"
    [] op = "askReset" -> "reset"
    [] OTHER -> "verify"

\* What a request makes of the address it looks for.
WantsNone == {"register", "addUser", "askChange", "changeMail"}
WantsOne == {"askReset", "verify", "reset"}

\* Mutant: who comes from a provider is taken to have an address.
TakenOnTrust(op) ==
  [status |-> "available", email |-> None, pass |-> op \in {"register", "addUser"},
   mail |-> IF op = "register" THEN "toBeVerified" ELSE "available"]

\* The row of a new user, but for the address.
NewUser(op) ==
  [status |-> "available", email |-> None, pass |-> op \in {"register", "addUser"},
   mail |-> IF op = "addUser" THEN "available" ELSE "toBeVerified"]

\* What an administrator makes of a row; the address of a deleted user gets a
\* suffix, so that it is nobody's any more.
Changed(change, a) ==
  CASE change = "suspend" -> [a EXCEPT !.status = "suspended"]
    [] change = "delete" -> [a EXCEPT !.status = "deleted", !.email = None]
    [] change = "deactivate" -> [a EXCEPT !.mail = "toBeVerified"]
    [] change = "restore" -> [a EXCEPT !.status = "available", !.mail = "available"]

-----------------------------------------------------------------------------
Blank == [op |-> "none", user |-> None, email |-> None, must |-> FALSE, identity |-> None,
          key |-> None, code |-> None, row |-> None, bound |-> None, listed |-> 0]

IdentityInit ==
  /\ account = [u \in Users |-> None]
  /\ binding = [r \in Rows |-> None]
  /\ mail = [c \in Codes |-> None]
  /\ valid = {}
  /\ latest = [u \in Users |-> None]
  /\ login = [k \in Keys |-> None]
  /\ inserted = 0 /\ received = 0
  /\ todo = [h \in Handlers |-> <<>>]
  /\ req = [h \in Handlers |-> NoRequest]
  /\ alone = [h \in Handlers |-> TRUE]
  /\ contested = {} /\ lost = {} /\ vouched = {}

\* The requests that may arrive: by guests, by users, by administrators, from a
\* provider that knows an address or does not, and by who holds a link.
Requests(op) ==
  LET Bare == [Blank EXCEPT !.op = op] IN
  CASE op \in {"register", "addUser", "askReset"} -> {[Bare EXCEPT !.email = e] : e \in Emails}
    [] op \in Changes \cup {"setPassword", "askVerify"} ->
         {[Bare EXCEPT !.user = u] : u \in {v \in Users : Exists(v)}}
    [] op = "editProfile" ->
         {[Bare EXCEPT !.user = u, !.email = e] : u \in {v \in Users : Exists(v)}, e \in Emails}
    [] op = "askChange" ->
         {[Bare EXCEPT !.user = u, !.email = e] : u \in {v \in Users : Live(v)}, e \in Emails}
    [] op = "external" ->
         {[Bare EXCEPT !.identity = i, !.email = e] : i \in Identities, e \in Emails \cup {None}}
    [] op = "bindMail" ->
         {[Bare EXCEPT !.key = k, !.email = e, !.must = m] :
            k \in {j \in Keys : login[j] # None}, e \in Emails, m \in BOOLEAN}
    [] op = "unbind" ->
         {[Bare EXCEPT !.user = binding[r].user, !.identity = binding[r].identity] :
            r \in {s \in Rows : binding[s] # None /\ Live(binding[s].user)}}
    [] op \in Opens ->
         {[Bare EXCEPT !.code = c] : c \in {d \in valid : mail[d].link = op}}

Receive(h, op) ==
  /\ ~Busy(h)
  /\ received < MaxRequests
  /\ \E q \in Requests(op) :
       /\ req' = [req EXCEPT ![h] = q]
       /\ vouched' = IF op = "external" THEN vouched \cup ({q.email} \ {None}) ELSE vouched
  /\ todo' = [todo EXCEPT ![h] = StatementsOf(op)]
  /\ received' = received + 1
  /\ alone' = [alone EXCEPT ![h] = TRUE]
  /\ UNCHANGED <<data, cache, contested, lost>>

\* The request is q now and has the rest left to do.
Proceed(h, rest, q) ==
  /\ todo' = [todo EXCEPT ![h] = rest]
  /\ req' = [req EXCEPT ![h] = IF rest = <<>> THEN NoRequest ELSE q]

GoOn(h, q) == Proceed(h, Tail(todo[h]), q)
Leave(h) == Proceed(h, <<>>, NoRequest)

\* A request has looked for the address or the identity it wants to store.
Looked(h) ==
  /\ alone' = [alone EXCEPT ![h] = TRUE]
  /\ UNCHANGED <<contested, lost, vouched>>

\* It has stored it.
Stored(h, x) ==
  /\ LET after == {g \in Handlers \ {h} : Busy(g) /\ x \in {req[g].email, req[g].identity}} IN
       alone' = [g \in Handlers |-> alone[g] /\ g \notin after]
  /\ contested' = IF alone[h] THEN contested ELSE contested \cup {x}

Unnoticed == UNCHANGED <<alone, contested, lost, vouched>>

\* A statement fails, or the request is cancelled.
GiveUp(h) ==
  /\ Busy(h) /\ Leave(h)
  /\ Unnoticed /\ UNCHANGED <<data, cache, received>>

-----------------------------------------------------------------------------
(* Looking for a user *)

\* What is found of the address decides whether and how the request goes on.
LookMail(h) ==
  LET q == req[h]
      found == WithMail(q.email)
  IN
  /\ At(h, "lookMail")
  /\ \/ found = {} /\ q.op \notin WantsOne /\ GoOn(h, q)
     \/ found = {} /\ q.op \in WantsOne /\ Leave(h)
     \/ found # {} /\ q.op \in WantsNone /\ Leave(h)
     \/ \E u \in found :
          \/ q.op \in WantsOne /\ GoOn(h, [q EXCEPT !.user = u, !.row = account[u]])
          \/ q.op = "editProfile" /\ u = q.user /\ GoOn(h, q)
          \/ q.op = "editProfile" /\ u # q.user /\ Leave(h)
          \/ q.op = "external"
             /\ Proceed(h, Tail(Tail(todo[h])), [q EXCEPT !.user = u, !.row = account[u]])
          \* The owner of the address is to confirm that it is his.
          \/ q.op = "bindMail" /\ q.must
             /\ Proceed(h, Tail(Tail(todo[h])), [q EXCEPT !.user = u])
          \/ q.op = "bindMail" /\ ~q.must /\ Leave(h)
  /\ Looked(h)
  /\ UNCHANGED <<data, cache, received>>

\* Mutant: the binding to be taken away is not counted.
NoWayIn(q) == Cardinality(Bound(q.user)) < 1

\* "If user has only one external login and never set password, he can't unbind it."
LastWayIn(q) == Cardinality(Bound(q.user)) <= 1

LookUser(h) ==
  LET q == req[h]
      a == account[q.user]
  IN
  /\ At(h, "lookUser")
  /\ \/ q.op \in Changes /\ a.status = "deleted" /\ Leave(h)
     \/ q.op = "unbind" /\ a.pass /\ Proceed(h, <<"unbind">>, q)
     \/ /\ ~(q.op \in Changes /\ a.status = "deleted") /\ ~(q.op = "unbind" /\ a.pass)
        /\ GoOn(h, [q EXCEPT !.row = a, !.email = IF q.op = "askVerify" THEN a.email ELSE @])
  /\ Unnoticed
  /\ UNCHANGED <<data, cache, received>>

\* Who is not a member yet, goes on with an address or is asked for one.
Unknown(q) == IF q.email = None THEN AskForEmail ELSE LoginByEmail

LookIdentity(h) ==
  LET q == req[h] IN
  /\ At(h, "lookIdentity")
  /\ \/ RowsOf(q.identity) = {} /\ Proceed(h, Unknown(q), q)
     \/ \E r \in RowsOf(q.identity) :
          Proceed(h, LoginDirectly, [q EXCEPT !.user = binding[r].user])
  /\ Unnoticed
  /\ UNCHANGED <<data, cache, received>>

LookOwner(h) ==
  LET q == req[h] IN
  /\ At(h, "lookOwner")
  /\ IF Live(q.user) THEN GoOn(h, [q EXCEPT !.row = account[q.user]])
     ELSE Proceed(h, Unknown(q), [q EXCEPT !.user = None])
  /\ Unnoticed
  /\ UNCHANGED <<data, cache, received>>

-----------------------------------------------------------------------------
(* Writing the row of a user *)

Insert(h) ==
  LET q == req[h] IN
  /\ At(h, "insert")
  /\ \E u \in Users :
       /\ ~Exists(u) /\ \A v \in 1..(u - 1) : Exists(v)
       /\ LET a == [NewUser(q.op) EXCEPT !.email = q.email] IN
          /\ account' = [account EXCEPT ![u] = a]
          /\ GoOn(h, [q EXCEPT !.user = u, !.row = a])
  /\ Stored(h, q.email)
  /\ vouched' = IF q.op = "addUser" THEN vouched \cup {q.email} ELSE vouched
  /\ UNCHANGED <<binding, inserted, cache, received, lost>>

\* UpdateEmailStatus, by verification and external login only if need be.
Confirm(h) ==
  LET q == req[h] IN
  /\ At(h, "confirm")
  /\ account' = IF q.op = "changeMail" \/ q.row.mail = "toBeVerified"
                THEN [account EXCEPT ![q.user].mail = "available"] ELSE account
  /\ Proceed(h, IF q.key = None THEN <<>> ELSE Tail(todo[h]), q)
  /\ Unnoticed
  /\ UNCHANGED <<binding, inserted, cache, received>>

WriteMail(h) ==
  LET q == req[h] IN
  /\ At(h, "writeMail")
  /\ account' = [account EXCEPT ![q.user].email = q.email]
  /\ GoOn(h, q)
  /\ Stored(h, q.email)
  /\ UNCHANGED <<binding, inserted, cache, received, lost, vouched>>

\* An administrator gives an address and is believed.
WriteProfile(h) ==
  LET q == req[h] IN
  /\ At(h, "writeProfile")
  /\ account' = [account EXCEPT ![q.user].email = q.email, ![q.user].mail = "available"]
  /\ GoOn(h, q)
  /\ Stored(h, q.email)
  /\ vouched' = vouched \cup {q.email}
  /\ UNCHANGED <<binding, inserted, cache, received, lost>>

WritePassword(h) ==
  LET q == req[h] IN
  /\ At(h, "writePassword")
  /\ account' = [account EXCEPT ![q.user].pass = TRUE]
  /\ GoOn(h, q)
  /\ Unnoticed
  /\ UNCHANGED <<binding, inserted, cache, received>>

\* UpdateUserStatus writes status, mail status and address, the one it changes
\* and those it has read.
WriteStatus(h) ==
  LET q == req[h]
      now == account[q.user]
      a == [Changed(q.op, q.row) EXCEPT !.pass = now.pass]
      stale == [q.row EXCEPT !.pass = now.pass] # now
  IN
  /\ At(h, "writeStatus")
  /\ account' = [account EXCEPT ![q.user] = a]
  /\ GoOn(h, q)
  /\ vouched' = IF q.op = "restore" THEN vouched \cup ({a.email} \ {None}) ELSE vouched
  /\ lost' = IF stale THEN lost \cup {q.user} ELSE lost
  /\ contested' = IF stale THEN contested \cup ({a.email} \ {None}) ELSE contested
  /\ UNCHANGED <<binding, inserted, cache, received, alone>>

-----------------------------------------------------------------------------
(* Binding an identity to a user *)

SaveLogin(h) ==
  LET q == req[h] IN
  /\ At(h, "saveLogin")
  /\ \E k \in Keys :
       /\ IF q.op = "bindMail" THEN k = q.key
          ELSE login[k] = None /\ \A j \in 1..(k - 1) : login[j] # None
       \* The address is kept if a user was registered with it.
       /\ login' = [login EXCEPT ![k] = [identity |-> q.identity,
                                         email |-> IF q.row = None THEN None ELSE q.email]]
  /\ GoOn(h, q)
  /\ Unnoticed
  /\ UNCHANGED <<data, mail, valid, latest, received>>

ReadLogin(h) ==
  LET q == req[h] IN
  /\ At(h, "readLogin")
  /\ IF q.op = "bindMail" /\ login[q.key].email # None THEN Leave(h)
     ELSE GoOn(h, [q EXCEPT !.identity = login[q.key].identity])
  /\ Unnoticed
  /\ UNCHANGED <<data, cache, received>>

LookBinding(h) ==
  LET q == req[h]
      found == RowsOf(q.identity)
  IN
  /\ At(h, "lookBinding")
  /\ \/ found = {} /\ GoOn(h, q)
     \/ \E r \in found : GoOn(h, [q EXCEPT !.bound = r])
  /\ Looked(h)
  /\ UNCHANGED <<data, cache, received>>

\* An identity that was bound is bound to the user of this request now, unless
\* its row is gone.
Bind(h) ==
  LET q == req[h] IN
  /\ At(h, "bind")
  /\ \/ /\ q.bound = None /\ inserted < MaxBindings
        /\ inserted' = inserted + 1
        /\ binding' = [binding EXCEPT ![inserted + 1] = [identity |-> q.identity, user |-> q.user]]
        /\ Stored(h, q.identity)
     \/ /\ q.bound # None
        /\ binding' = IF binding[q.bound] = None THEN binding
                      ELSE [binding EXCEPT ![q.bound].user = q.user]
        /\ UNCHANGED <<inserted, alone, contested>>
  /\ GoOn(h, q)
  /\ UNCHANGED <<account, cache, received, lost, vouched>>

List(h) ==
  LET q == req[h] IN
  /\ At(h, "list")
  /\ IF LastWayIn(q) THEN Leave(h)
     ELSE GoOn(h, [q EXCEPT !.listed = Cardinality(Bound(q.user))])
  /\ Unnoticed
  /\ UNCHANGED <<data, cache, received>>

\* DeleteUserExternalLogin is given the external id, not the provider.
Unbind(h) ==
  LET q == req[h]
      gone == {r \in Bound(q.user) : ExternalID(binding[r].identity) = ExternalID(q.identity)}
  IN
  /\ At(h, "unbind")
  /\ binding' = [r \in Rows |-> IF r \in gone THEN None ELSE binding[r]]
  /\ GoOn(h, q)
  /\ Unnoticed
  /\ UNCHANGED <<account, inserted, cache, received>>

-----------------------------------------------------------------------------
(* Mails and their codes *)

\* SetCode and sending, in one step: nobody holds the code before it is sent.
Send(h) ==
  LET q == req[h] IN
  /\ At(h, "send")
  /\ \E c \in Codes :
       /\ mail[c] = None /\ \A d \in 1..(c - 1) : mail[d] # None
       /\ mail' = [mail EXCEPT ![c] = [link |-> LinkOf(q.op), email |-> q.email,
                                       user |-> q.user, key |-> q.key]]
       /\ valid' = valid \cup {c}
       /\ latest' = [latest EXCEPT ![q.user] = c]
  /\ GoOn(h, q)
  /\ Unnoticed
  /\ UNCHANGED <<data, login, received>>

\* VerifyCode: who opens a link has read a mail to that address.
ReadCode(h) ==
  LET q == req[h]
      m == mail[q.code]
  IN
  /\ At(h, "readCode")
  /\ \/ /\ q.code \in valid
        /\ GoOn(h, [q EXCEPT !.email = m.email, !.user = m.user, !.key = m.key])
        /\ vouched' = vouched \cup ({m.email} \ {None})
     \/ q.code \notin valid /\ Leave(h) /\ UNCHANGED vouched
  /\ UNCHANGED <<data, cache, received, alone, contested, lost>>

BurnCode(h) ==
  LET q == req[h] IN
  /\ At(h, "burnCode")
  /\ valid' = valid \ {q.code}
  /\ GoOn(h, q)
  /\ Unnoticed
  /\ UNCHANGED <<data, mail, latest, login, received>>

\* Only the latest mail to a user counts.
CompareCode(h) ==
  LET q == req[h] IN
  /\ At(h, "compareCode")
  /\ IF latest[q.user] = q.code THEN GoOn(h, q) ELSE Leave(h)
  /\ Unnoticed
  /\ UNCHANGED <<data, cache, received>>

-----------------------------------------------------------------------------
IdentityNext ==
  \E h \in Handlers :
    \/ \E op \in Operations : Receive(h, op)
    \/ GiveUp(h)
    \/ LookMail(h) \/ LookUser(h) \/ LookIdentity(h) \/ LookOwner(h)
    \/ Insert(h) \/ Confirm(h) \/ WriteMail(h) \/ WriteProfile(h) \/ WritePassword(h)
    \/ WriteStatus(h)
    \/ SaveLogin(h) \/ ReadLogin(h) \/ LookBinding(h) \/ Bind(h) \/ List(h) \/ Unbind(h)
    \/ Send(h) \/ ReadCode(h) \/ BurnCode(h) \/ CompareCode(h)

IdentitySpec == IdentityInit /\ [][IdentityNext]_identityVars

-----------------------------------------------------------------------------
(* Properties *)

IdentityTypeOK ==
  /\ account \in [Users -> AccountRows \cup {None}]
  /\ binding \in [Rows -> BindingRows \cup {None}]
  /\ mail \in [Codes -> Mails \cup {None}]
  /\ valid \subseteq Codes
  /\ latest \in [Users -> Codes \cup {None}]
  /\ login \in [Keys -> Logins \cup {None}]
  /\ inserted \in 0..MaxBindings /\ received \in 0..MaxRequests
  /\ todo \in [Handlers -> Seq(AllStatements)]
  /\ req \in [Handlers -> AllRequests \cup {NoRequest}]
  /\ alone \in [Handlers -> BOOLEAN]
  /\ contested \subseteq Emails \cup Identities
  /\ lost \subseteq Users /\ vouched \subseteq Emails

\* The accounts an address or an identity leads to.
LedTo(x) == IF x \in Emails THEN WithMail(x) ELSE {binding[r].user : r \in RowsOf(x)}

\* An address leads to one account at most, and so does an identity, however they
\* were stored: by registering, an external login, a change of address whose mail
\* was answered late, an administrator.  No index of a table helps.  The exception
\* is what two requests have stored that had both found it free, and an address
\* that a change of status put back after it was given up.
OneAccountEach == \A x \in (Emails \cup Identities) \ contested : Cardinality(LedTo(x)) <= 1

\* An account is confirmed only with an address that somebody vouched for: who
\* reads the mails sent to it, the provider, or an administrator.  The exception
\* is a user whose change of address met a change of status, which writes the old
\* address back between the new one and its confirmation.
VerifiedIsProven ==
  \A u \in Users \ lost : Live(u) /\ account[u].mail = "available" => account[u].email \in vouched

\* A user without a password is never left without an external login by
\* unbinding it, except by two requests that have both seen the other's binding,
\* or when one identity has two rows, which count as two external logins.
\* (Binding may move an identity to another user.)
KeepsAWayIn ==
  [][\A u \in Users :
       Exists(u) /\ ~account[u].pass /\ Bound(u) # {} /\ Bound(u)' = {} =>
         \/ \E r \in Bound(u) : binding'[r] # None \/ binding[r].identity \in contested
         \/ \E h \in Handlers : /\ At(h, "unbind") /\ req[h].user = u
                                /\ Cardinality(Bound(u)) < req[h].listed]_identityVars
=============================================================================
