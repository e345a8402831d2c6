---------------------------- MODULE AccountProofs ----------------------------
(***************************************************************************)
(* Theorems about AccountSession, for any number of tokens, handlers and  *)
(* requests, any mix of operations and any failures.                       *)
(***************************************************************************)
EXTENDS AccountSession, TLAPS

\* The statements that may be left of every operation.
LoginLeft == {<<"readAccount", "setSession", "readMap", "writeMap">>,
              <<"setSession", "readMap", "writeMap">>, <<"readMap", "writeMap">>, <<"writeMap">>}
VerifyLeft == {<<"readAccount", "confirm", "activate", "setSession", "readMap", "writeMap", "setStatus">>,
               <<"confirm", "activate", "setSession", "readMap", "writeMap", "setStatus">>,
               <<"activate", "setSession", "readMap", "writeMap", "setStatus">>,
               <<"setSession", "readMap", "writeMap", "setStatus">>,
               <<"readMap", "writeMap", "setStatus">>, <<"writeMap", "setStatus">>, <<"setStatus">>}
UseLeft == {<<"readSession", "readStatus", "setSession", "readMap", "writeMap">>,
            <<"readStatus", "setSession", "readMap", "writeMap">>,
            <<"setSession", "readMap", "writeMap">>, <<"readMap", "writeMap">>, <<"writeMap">>}
EndLeft == {<<"readMap", "closeSessions", "dropStatus", "dropMap">>,
            <<"closeSessions", "dropStatus", "dropMap">>, <<"dropStatus", "dropMap">>, <<"dropMap">>}
ChangeLeft == {<<"readAccount", "writeAccount", "setStatus", "activate">>,
               <<"writeAccount", "setStatus", "activate">>, <<"setStatus", "activate">>, <<"activate">>}

Left(op, s) ==
  \/ op = "login" /\ s \in LoginLeft
  \/ op \in {"verify", "changeEmail"} /\ s \in VerifyLeft
  \/ op = "use" /\ s \in UseLeft
  \/ op = "logout" /\ s = <<"closeSession">>
  \/ op \in Closers /\ s \in EndLeft
  \/ op \in Changes /\ s \in ChangeLeft

\* Which operation a statement belongs to, and what comes after it.
Placed(op, s) ==
  /\ Head(s) = "readAccount" => op \in Openers \cup Changes
  /\ Head(s) = "confirm" => op \in {"verify", "changeEmail"} /\ Len(s) # 1 /\ Head(Tail(s)) = "activate"
  /\ Head(s) = "writeAccount" => op \in Changes /\ Len(s) # 1 /\ Head(Tail(s)) = "setStatus"
  /\ Head(s) = "activate" => op \in {"verify", "changeEmail"} \cup Changes
  /\ Head(s) = "setStatus" => op \in {"verify", "changeEmail"} \cup Changes
  /\ Head(s) = "setStatus" /\ op \in Changes => Len(s) # 1 /\ Head(Tail(s)) = "activate"
  /\ Head(s) = "setSession" => op \in Openers \cup {"use"}
  /\ Head(s) = "writeMap" => op \in Openers \cup {"use"}
  /\ Head(s) \in {"readSession", "readStatus"} => op = "use"
  /\ Head(s) = "closeSession" => op = "logout"
  /\ Head(s) \in {"closeSessions", "dropStatus", "dropMap"} => op \in Closers

LeftOK(op, s) ==
  /\ s \in Seq(Statements) /\ s # <<>>
  /\ Len(s) # 1 => Left(op, Tail(s)) /\ Tail(s) # <<>> /\ Head(Tail(s)) \notin {"readAccount", "readSession"}
  /\ Head(s) \in {"activate", "setStatus"} /\ op \in Changes => \E i \in DOMAIN s : s[i] = "activate"
  /\ Head(s) = "activate" => \E i \in DOMAIN s : s[i] = "activate"

LEMMA LeftFacts ==
  ASSUME NEW op, NEW s, Left(op, s)
  PROVE  LeftOK(op, s) /\ Placed(op, s)
<1>1. CASE op = "login" /\ s \in LoginLeft
  <2>1. CASE s = <<"readAccount", "setSession", "readMap", "writeMap">>
    BY <1>1, <2>1 DEF LeftOK, Placed, Left, LoginLeft, Openers, Closers, Changes, Statements
  <2>2. CASE s = <<"setSession", "readMap", "writeMap">>
    BY <1>1, <2>2 DEF LeftOK, Placed, Left, LoginLeft, Openers, Closers, Changes, Statements
  <2>3. CASE s = <<"readMap", "writeMap">>
    BY <1>1, <2>3 DEF LeftOK, Placed, Left, LoginLeft, Openers, Closers, Changes, Statements
  <2>4. CASE s = <<"writeMap">>
    BY <1>1, <2>4 DEF LeftOK, Placed, Left, LoginLeft, Openers, Closers, Changes, Statements
  <2> QED BY <1>1, <2>1, <2>2, <2>3, <2>4 DEF LoginLeft
<1>2. CASE op \in {"verify", "changeEmail"} /\ s \in VerifyLeft
  <2>1. CASE s = <<"readAccount", "confirm", "activate", "setSession", "readMap", "writeMap", "setStatus">>
    BY <1>2, <2>1 DEF LeftOK, Placed, Left, VerifyLeft, Openers, Closers, Changes, Statements
  <2>2. CASE s = <<"confirm", "activate", "setSession", "readMap", "writeMap", "setStatus">>
    BY <1>2, <2>2 DEF LeftOK, Placed, Left, VerifyLeft, Openers, Closers, Changes, Statements
  <2>3. CASE s = <<"activate", "setSession", "readMap", "writeMap", "setStatus">>
    BY <1>2, <2>3 DEF LeftOK, Placed, Left, VerifyLeft, Openers, Closers, Changes, Statements
  <2>4. CASE s = <<"setSession", "readMap", "writeMap", "setStatus">>
    BY <1>2, <2>4 DEF LeftOK, Placed, Left, VerifyLeft, Openers, Closers, Changes, Statements
  <2>5. CASE s = <<"readMap", "writeMap", "setStatus">>
    BY <1>2, <2>5 DEF LeftOK, Placed, Left, VerifyLeft, Openers, Closers, Changes, Statements
  <2>6. CASE s = <<"writeMap", "setStatus">>
    BY <1>2, <2>6 DEF LeftOK, Placed, Left, VerifyLeft, Openers, Closers, Changes, Statements
  <2>7. CASE s = <<"setStatus">>
    BY <1>2, <2>7 DEF LeftOK, Placed, Left, VerifyLeft, Openers, Closers, Changes, Statements
  <2> QED BY <1>2, <2>1, <2>2, <2>3, <2>4, <2>5, <2>6, <2>7 DEF VerifyLeft
<1>3. CASE op = "use" /\ s \in UseLeft
  <2>1. CASE s = <<"readSession", "readStatus", "setSession", "readMap", "writeMap">>
    BY <1>3, <2>1 DEF LeftOK, Placed, Left, UseLeft, Openers, Closers, Changes, Statements
  <2>2. CASE s = <<"readStatus", "setSession", "readMap", "writeMap">>
    BY <1>3, <2>2 DEF LeftOK, Placed, Left, UseLeft, Openers, Closers, Changes, Statements
  <2>3. CASE s = <<"setSession", "readMap", "writeMap">>
    BY <1>3, <2>3 DEF LeftOK, Placed, Left, UseLeft, Openers, Closers, Changes, Statements
  <2>4. CASE s = <<"readMap", "writeMap">>
    BY <1>3, <2>4 DEF LeftOK, Placed, Left, UseLeft, Openers, Closers, Changes, Statements
  <2>5. CASE s = <<"writeMap">>
    BY <1>3, <2>5 DEF LeftOK, Placed, Left, UseLeft, Openers, Closers, Changes, Statements
  <2> QED BY <1>3, <2>1, <2>2, <2>3, <2>4, <2>5 DEF UseLeft
<1>4. CASE op = "logout" /\ s = <<"closeSession">>
  BY <1>4 DEF LeftOK, Placed, Left, Openers, Closers, Changes, Statements
<1>5. CASE op \in Closers /\ s \in EndLeft
  <2>1. CASE s = <<"readMap", "closeSessions", "dropStatus", "dropMap">>
    BY <1>5, <2>1 DEF LeftOK, Placed, Left, EndLeft, Openers, Closers, Changes, Statements
  <2>2. CASE s = <<"closeSessions", "dropStatus", "dropMap">>
    BY <1>5, <2>2 DEF LeftOK, Placed, Left, EndLeft, Openers, Closers, Changes, Statements
  <2>3. CASE s = <<"dropStatus", "dropMap">>
    BY <1>5, <2>3 DEF LeftOK, Placed, Left, EndLeft, Openers, Closers, Changes, Statements
  <2>4. CASE s = <<"dropMap">>
    BY <1>5, <2>4 DEF LeftOK, Placed, Left, EndLeft, Openers, Closers, Changes, Statements
  <2> QED BY <1>5, <2>1, <2>2, <2>3, <2>4 DEF EndLeft
<1>6. CASE op \in Changes /\ s \in ChangeLeft
  <2>1. CASE s = <<"readAccount", "writeAccount", "setStatus", "activate">>
    BY <1>6, <2>1 DEF LeftOK, Placed, Left, ChangeLeft, Openers, Closers, Changes, Statements
  <2>2. CASE s = <<"writeAccount", "setStatus", "activate">>
    BY <1>6, <2>2 DEF LeftOK, Placed, Left, ChangeLeft, Openers, Closers, Changes, Statements
  <2>3. CASE s = <<"setStatus", "activate">>
    BY <1>6, <2>3 DEF LeftOK, Placed, Left, ChangeLeft, Openers, Closers, Changes, Statements
  <2>4. CASE s = <<"activate">>
    BY <1>6, <2>4 DEF LeftOK, Placed, Left, ChangeLeft, Openers, Closers, Changes, Statements
  <2> QED BY <1>6, <2>1, <2>2, <2>3, <2>4 DEF ChangeLeft
<1> QED BY <1>1, <1>2, <1>3, <1>4, <1>5, <1>6 DEF Left

\* An operation begins with all of its statements.
LEMMA ProgramLeft ==
  ASSUME NEW op \in AllOperations
  PROVE  Left(op, Program(op))
BY DEF Left, Program, AllOperations, Openers, Closers, Changes, LoginLeft, VerifyLeft, UseLeft,
       EndLeft, ChangeLeft, LoginUser, VerifyEmail, GetUserCacheInfo, RemoveUserTokens, UpdateUserStatus

-----------------------------------------------------------------------------
(* Types *)

\* What a request holds when these statements are left of it.
Fits(q, s) ==
  /\ q \in Requests
  /\ Left(q.op, s)
  /\ q.op \in Openers \cup {"use", "logout", "endOthers"} => q.token \in issued
  /\ q.op \in Openers \cup Changes /\ Head(s) # "readAccount" => q.info \in Accounts
  /\ q.op = "use" /\ Head(s) # "readSession" => q.info \in Infos

\* Every handler is idle, or it serves a request that fits what is left of it.
HandlersOK ==
  /\ todo = [h \in Handlers |-> todo[h]]
  /\ req = [h \in Handlers |-> req[h]]
  /\ \A h \in Handlers :
       \/ todo[h] = <<>> /\ req[h] = NoRequest
       \/ todo[h] # <<>> /\ req[h] # NoRequest /\ Fits(req[h], todo[h])

TablesOK ==
  /\ account \in Accounts
  /\ points \in 0..1
  /\ session \in [Tokens -> Infos \cup {None}]
  /\ tokenMap \subseteq Tokens
  /\ statusKey \in Infos \cup {None}
  /\ saved \in [session : [Tokens -> Infos \cup {None}], tokenMap : SUBSET Tokens,
                statusKey : Infos \cup {None}]
  /\ received \in 0..MaxRequests
  /\ fileUses \in 0..MaxFileUses

HistoryOK ==
  /\ issued \subseteq Tokens
  /\ clean \in [Handlers -> BOOLEAN]
  /\ firm \subseteq issued /\ loose \subseteq issued /\ ended \subseteq issued
  /\ keyStale \in BOOLEAN /\ missed \in BOOLEAN

Typed == HandlersOK /\ TablesOK /\ HistoryOK

LEMMA TypedIsTypeOK == Typed => TypeOK
<1> SUFFICES ASSUME Typed PROVE TypeOK
  OBVIOUS
<1>1. \A h \in Handlers : todo[h] \in Seq(Statements) /\ req[h] \in Requests \cup {NoRequest}
  <2> TAKE h \in Handlers
  <2>1. CASE todo[h] = <<>> /\ req[h] = NoRequest
    BY <2>1
  <2>2. CASE todo[h] # <<>> /\ Fits(req[h], todo[h])
    BY <2>2, LeftFacts DEF Fits, LeftOK
  <2> QED BY <2>1, <2>2 DEF Typed, HandlersOK
<1>2. todo \in [Handlers -> Seq(Statements)] /\ req \in [Handlers -> Requests \cup {NoRequest}]
  BY <1>1 DEF Typed, HandlersOK
<1>3. \A h \in Handlers : Busy(h) <=> req[h] # NoRequest
  BY DEF Typed, HandlersOK, Busy
<1>4. points \in 0..2
  BY DEF Typed, TablesOK
<1> QED BY <1>2, <1>3, <1>4 DEF Typed, TablesOK, HistoryOK, TypeOK

LEMMA InitTyped == Init => Typed
<1> SUFFICES ASSUME Init PROVE Typed
  OBVIOUS
<1>1. HandlersOK
  BY DEF Init, HandlersOK
<1>2. TablesOK
  <2>1. Empty \in [session : [Tokens -> Infos \cup {None}], tokenMap : SUBSET Tokens,
                   statusKey : Infos \cup {None}]
    BY DEF Empty
  <2>2. account \in Accounts /\ points \in 0..1
    BY DEF Init, Accounts, Values
  <2>3. received \in 0..MaxRequests /\ fileUses \in 0..MaxFileUses
    BY SessionAssumption DEF Init
  <2> QED BY <2>1, <2>2, <2>3 DEF Init, TablesOK, Empty
<1>3. HistoryOK
  BY DEF Init, HistoryOK
<1> QED BY <1>1, <1>2, <1>3 DEF Typed

\* A request that goes on with q for what it was still fits.
GoesOn(q, r, s) ==
  /\ q \in Requests /\ q.op = r.op /\ q.token = r.token
  /\ q.op \in Openers \cup Changes => q.info \in Accounts
  /\ q.op = "use" => q.info \in Infos

LEMMA AdvanceTyped ==
  ASSUME HandlersOK, HistoryOK, NEW h \in Handlers, Busy(h), NEW q,
         GoesOn(q, req[h], todo[h]), Advance(h, q), issued' = issued, missed' \in BOOLEAN
  PROVE  HandlersOK' /\ HistoryOK'
<1>1. Fits(req[h], todo[h]) /\ todo[h] # <<>> /\ req[h] # NoRequest
  BY DEF HandlersOK, Busy
<1>2. LeftOK(req[h].op, todo[h]) /\ Placed(req[h].op, todo[h])
  BY <1>1, LeftFacts DEF Fits
<1>3. CASE Len(todo[h]) = 1
  <2>1. Complete(h)
    BY <1>3 DEF Advance
  <2>2. HandlersOK'
    BY <2>1 DEF Complete, HandlersOK, Fits
  <2>3. HistoryOK'
    <3>1. req[h].op \in Openers \cup {"logout", "endOthers"} => req[h].token \in issued
      BY <1>1 DEF Fits
    <3>2. firm' \subseteq issued
      BY <2>1, <3>1 DEF Complete, HistoryOK, Openers, Closers
    <3>4. loose' \subseteq issued
      BY <2>1, <3>1 DEF Complete, HistoryOK, Openers, Closers
    <3>5. ended' \subseteq issued
      BY <2>1, <3>1 DEF Complete, HistoryOK, Openers, Closers
    <3>3. clean' = clean /\ keyStale' \in BOOLEAN
      BY <2>1 DEF Complete, HistoryOK
    <3> QED BY <3>2, <3>3, <3>4, <3>5 DEF HistoryOK
  <2> QED BY <2>2, <2>3
<1>4. CASE Len(todo[h]) # 1
  <2>1. /\ todo' = [todo EXCEPT ![h] = Tail(@)]
        /\ req' = [req EXCEPT ![h] = q]
        /\ UNCHANGED <<clean, firm, loose, ended, keyStale>>
    BY <1>4 DEF Advance
  <2>2. /\ Left(q.op, Tail(todo[h])) /\ Tail(todo[h]) # <<>>
        /\ Head(Tail(todo[h])) \notin {"readAccount", "readSession"}
    BY <1>2, <1>4 DEF LeftOK, GoesOn
  <2>3. Fits(q, Tail(todo[h])) /\ q # NoRequest
    BY <2>2, <1>1, SessionAssumption DEF Fits, GoesOn
  <2>4. HandlersOK'
    <3>1. todo'[h] = Tail(todo[h]) /\ req'[h] = q
      BY <2>1 DEF HandlersOK
    <3>2. ASSUME NEW g \in Handlers, g # h PROVE todo'[g] = todo[g] /\ req'[g] = req[g]
      BY <2>1, <3>2 DEF HandlersOK
    <3>3. todo' = [g \in Handlers |-> todo'[g]] /\ req' = [g \in Handlers |-> req'[g]]
      BY <2>1 DEF HandlersOK
    <3>4. ASSUME NEW g \in Handlers
          PROVE  \/ todo'[g] = <<>> /\ req'[g] = NoRequest
                 \/ todo'[g] # <<>> /\ req'[g] # NoRequest /\ Fits(req[g], todo[g])'
      <4>1. CASE g = h
        <5>1. Fits(req[h], todo[h])'
          BY <2>3, <3>1 DEF Fits
        <5> QED BY <4>1, <5>1, <2>2, <2>3, <3>1
      <4>2. CASE g # h
        <5>1. todo'[g] = todo[g] /\ req'[g] = req[g]
          BY <4>2, <3>2
        <5>2. \/ todo[g] = <<>> /\ req[g] = NoRequest
              \/ todo[g] # <<>> /\ req[g] # NoRequest /\ Fits(req[g], todo[g])
          BY DEF HandlersOK
        <5> QED BY <5>1, <5>2 DEF Fits
      <4> QED BY <4>1, <4>2
    <3> QED BY <3>3, <3>4 DEF HandlersOK
  <2>5. HistoryOK'
    BY <2>1 DEF HistoryOK
  <2> QED BY <2>4, <2>5
<1> QED BY <1>3, <1>4

LEMMA LeaveTyped ==
  ASSUME HandlersOK, HistoryOK, NEW h \in Handlers, Leave(h), issued' = issued, missed' \in BOOLEAN
  PROVE  HandlersOK' /\ HistoryOK'
BY DEF HandlersOK, HistoryOK, Leave, Fits

\* A request that keeps what it holds goes on after any statement but the first.
LEMMA KeptGoesOn ==
  ASSUME HandlersOK, NEW h \in Handlers, Busy(h), Head(todo[h]) \notin {"readAccount", "readSession"}
  PROVE  GoesOn(req[h], req[h], todo[h])
BY DEF HandlersOK, Busy, Fits, GoesOn

LEMMA Serving ==
  ASSUME HandlersOK, NEW h \in Handlers, Busy(h)
  PROVE  /\ Fits(req[h], todo[h]) /\ req[h] \in Requests
         /\ LeftOK(req[h].op, todo[h]) /\ Placed(req[h].op, todo[h])
<1>1. Fits(req[h], todo[h])
  BY DEF HandlersOK, Busy
<1> QED BY <1>1, LeftFacts DEF Fits

LEMMA AccountsAreInfos == Accounts \subseteq Infos /\ None \notin Infos
BY SessionAssumption DEF Accounts, Infos, Values

LEMMA ChangedType ==
  ASSUME NEW change \in Changes, NEW a \in Accounts
  PROVE  Changed(change, a) \in Accounts
BY DEF Changes, Accounts, Values, Changed

LEMMA WrittenType ==
  ASSUME NEW q, NEW s, Fits(q, s), Head(s) \in {"setSession", "setStatus"}
  PROVE  Written(q) \in Infos
<1>1. Placed(q.op, s)
  BY LeftFacts DEF Fits
<1>2. CASE q.op \in Changes
  <2>1. q.info \in Accounts
    BY <1>2 DEF Fits
  <2>2. Written(q) = Changed(q.op, q.info)
    BY <1>2 DEF Written, Changes
  <2> QED BY <1>2, <2>1, <2>2, ChangedType, AccountsAreInfos
<1>3. CASE q.op \in Openers
  <2>1. q.info \in Accounts
    BY <1>3 DEF Fits
  <2>2. CASE q.op = "verify"
    <3>1. Written(q) = [status |-> "available", mail |-> q.info.status]
      BY <2>2 DEF Written, Changes
    <3>2. q.info.status \in Values
      BY <2>1 DEF Accounts
    <3> QED BY <3>1, <3>2 DEF Infos, Values
  <2>3. CASE q.op = "changeEmail"
    <3>1. Written(q) = [q.info EXCEPT !.mail = "available"]
      BY <2>3 DEF Written, Changes
    <3>2. q.info \in Infos /\ "available" \in Values
      BY <2>1, AccountsAreInfos DEF Values
    <3> QED BY <3>1, <3>2 DEF Infos
  <2>4. CASE q.op = "login"
    BY <2>1, <2>4, AccountsAreInfos DEF Written, Changes
  <2> QED BY <1>3, <2>2, <2>3, <2>4 DEF Openers
<1>4. CASE q.op = "use"
  <2>1. q.info \in Infos
    BY <1>4 DEF Fits
  <2> QED BY <1>4, <2>1 DEF Written, Changes
<1> QED BY <1>1, <1>2, <1>3, <1>4 DEF Placed, Openers

LEMMA ReceiveTyped ==
  ASSUME Typed, NEW h \in Handlers, NEW op \in Operations, NEW t \in Tokens \cup {None},
         Receive(h, op, t)
  PROVE  Typed'
<1> DEFINE q == [op |-> op, token |-> t, info |-> None, unranked |-> FALSE, map |-> {}]
<1>1. q \in Requests /\ op \in AllOperations
  BY SessionAssumption DEF Requests
<1>2. TablesOK'
  <2>1. received' \in 0..MaxRequests
    BY SessionAssumption DEF Receive, Typed, TablesOK
  <2> QED BY <2>1 DEF Receive, Typed, TablesOK, cache
<1>3. issued \subseteq issued' /\ issued' \subseteq Tokens
  <2>1. op \in Openers => t \in Tokens
    BY DEF Receive, TokenFor, Openers
  <2>2. issued' = IF op \in Openers THEN issued \cup {t} ELSE issued
    BY DEF Receive
  <2>3. issued \subseteq Tokens
    BY DEF Typed, HistoryOK
  <2> QED BY <2>1, <2>2, <2>3
<1>4. HistoryOK'
  <2>1. clean' \in [Handlers -> BOOLEAN]
    BY DEF Receive, Typed, HistoryOK
  <2>2. /\ firm' \subseteq issued' /\ loose' \subseteq issued' /\ ended' \subseteq issued'
        /\ missed' \in BOOLEAN
    BY <1>3 DEF Receive, Typed, HistoryOK
  <2>3. keyStale' \in BOOLEAN
    BY DEF Receive, Typed, HistoryOK
  <2> QED BY <2>1, <2>2, <2>3, <1>3 DEF HistoryOK
<1>5. op \in Openers \cup {"use", "logout", "endOthers"} => t \in issued'
  <2>1. op \in Openers => t \in issued'
    BY DEF Receive
  <2>2. op \in {"use", "logout"} => t \in Held
    BY DEF Receive, TokenFor, Openers
  <2>3. op = "endOthers" => t \in Held
    BY DEF Receive, TokenFor, Openers
  <2> QED BY <2>1, <2>2, <2>3, <1>3 DEF Held
<1>6. Left(op, Program(op)) /\ Program(op) # <<>>
  BY <1>1, ProgramLeft, LeftFacts DEF LeftOK
<1>7. op \in Openers \cup Changes => Head(Program(op)) = "readAccount"
  BY DEF Openers, Changes, Closers, Program, LoginUser, VerifyEmail, UpdateUserStatus
<1>8. op = "use" => Head(Program(op)) = "readSession"
  BY DEF Program, GetUserCacheInfo, Closers, Changes
<1>9. HandlersOK'
  <2>1. todo' = [todo EXCEPT ![h] = Program(op)] /\ req' = [req EXCEPT ![h] = q]
    BY DEF Receive
  <2>2. todo' = [g \in Handlers |-> todo'[g]] /\ req' = [g \in Handlers |-> req'[g]]
    BY <2>1 DEF Typed, HandlersOK
  <2>3. ASSUME NEW g \in Handlers
        PROVE  \/ todo'[g] = <<>> /\ req'[g] = NoRequest
               \/ todo'[g] # <<>> /\ req'[g] # NoRequest /\ Fits(req[g], todo[g])'
    <3>1. CASE g = h
      <4>1. todo'[h] = Program(op) /\ req'[h] = q
        BY <2>1 DEF Typed, HandlersOK
      <4>2. Fits(req[h], todo[h])'
        <5> HIDE DEF q
        <5>1. q.op = op /\ q.token = t
          BY DEF q
        <5> QED BY <4>1, <5>1, <1>1, <1>5, <1>6, <1>7, <1>8 DEF Fits
      <4> QED BY <3>1, <4>1, <4>2, <1>1, <1>6, SessionAssumption
    <3>2. CASE g # h
      <4>1. todo'[g] = todo[g] /\ req'[g] = req[g]
        BY <2>1, <3>2 DEF Typed, HandlersOK
      <4>2. \/ todo[g] = <<>> /\ req[g] = NoRequest
            \/ todo[g] # <<>> /\ req[g] # NoRequest /\ Fits(req[g], todo[g])
        BY DEF Typed, HandlersOK
      <4> QED BY <4>1, <4>2, <1>3 DEF Fits
    <3> QED BY <3>1, <3>2
  <2> QED BY <2>2, <2>3 DEF HandlersOK
<1> QED BY <1>2, <1>4, <1>9 DEF Typed

LEMMA StepTyped ==
  ASSUME Typed, NEW h \in Handlers, Step(h)
  PROVE  Typed'
<1> USE DEF Typed
<1>1. CASE ReadAccount(h)
  <2> DEFINE q == [req[h] EXCEPT !.info = account, !.unranked = req[h].op \in Changes /\ points = 0]
  <2>1. Busy(h) /\ Head(todo[h]) = "readAccount" /\ (Advance(h, q) \/ Leave(h))
    BY <1>1 DEF ReadAccount, At
  <2>2. req[h] \in Requests /\ req[h].op \in Openers \cup Changes
    BY <2>1, Serving DEF Placed
  <2>3. account \in Accounts /\ account \in Infos
    BY AccountsAreInfos DEF TablesOK
  <2>4. q \in Requests /\ q.op = req[h].op /\ q.token = req[h].token /\ q.info = account
    BY <2>2, <2>3 DEF Requests
  <2>5. GoesOn(q, req[h], todo[h])
    <3> HIDE DEF q
    <3> QED BY <2>3, <2>4 DEF GoesOn
  <2>6. issued' = issued /\ missed' \in BOOLEAN
    BY <1>1 DEF ReadAccount, HistoryOK
  <2>7. HandlersOK' /\ HistoryOK'
    <3> HIDE DEF q
    <3> QED BY <2>1, <2>5, <2>6, AdvanceTyped, LeaveTyped
  <2>8. TablesOK'
    BY <1>1 DEF ReadAccount, TablesOK, cache
  <2> QED BY <2>7, <2>8
<1>2. CASE Confirm(h)
  <2>1. Busy(h) /\ Head(todo[h]) = "confirm" /\ Advance(h, req[h])
    BY <1>2 DEF Confirm, At
  <2>2. issued' = issued /\ missed' \in BOOLEAN
    BY <1>2 DEF Confirm, HistoryOK
  <2>3. HandlersOK' /\ HistoryOK'
    BY <2>1, <2>2, KeptGoesOn, AdvanceTyped
  <2>4. account' \in Accounts
    <3>1. account' = account \/ account' = [account EXCEPT !.mail = "available"]
      BY <1>2 DEF Confirm
    <3> QED BY <3>1 DEF TablesOK, Accounts
  <2>5. TablesOK'
    BY <1>2, <2>4 DEF Confirm, TablesOK, cache
  <2> QED BY <2>3, <2>5
<1>3. CASE WriteAccount(h)
  <2>1. Busy(h) /\ Head(todo[h]) = "writeAccount" /\ Advance(h, req[h])
    BY <1>3 DEF WriteAccount, At
  <2>2. issued' = issued /\ missed' \in BOOLEAN
    BY <1>3 DEF WriteAccount, HistoryOK
  <2>3. HandlersOK' /\ HistoryOK'
    BY <2>1, <2>2, KeptGoesOn, AdvanceTyped
  <2>4. account' \in Accounts
    <3>1. Fits(req[h], todo[h]) /\ req[h].op \in Changes
      BY <2>1, Serving DEF Placed
    <3>2. req[h].info \in Accounts
      BY <2>1, <3>1 DEF Fits
    <3> QED BY <1>3, <3>1, <3>2, ChangedType DEF WriteAccount
  <2>5. TablesOK'
    BY <1>3, <2>4 DEF WriteAccount, TablesOK, cache
  <2> QED BY <2>3, <2>5
<1>4. CASE Activate(h)
  <2>1. Busy(h) /\ Head(todo[h]) = "activate" /\ Advance(h, req[h])
    BY <1>4 DEF Activate, At
  <2>2. issued' = issued /\ missed' \in BOOLEAN
    BY <1>4 DEF Activate, HistoryOK
  <2>3. HandlersOK' /\ HistoryOK'
    BY <2>1, <2>2, KeptGoesOn, AdvanceTyped
  <2>4. points' \in 0..1
    BY <1>4 DEF Activate, Activated, TablesOK
  <2>5. TablesOK'
    BY <1>4, <2>4 DEF Activate, TablesOK, cache
  <2> QED BY <2>3, <2>5
<1>5. CASE SetSession(h)
  <2>1. Busy(h) /\ Head(todo[h]) = "setSession" /\ Advance(h, req[h])
    BY <1>5 DEF SetSession, At
  <2>2. issued' = issued /\ missed' \in BOOLEAN
    BY <1>5 DEF SetSession, HistoryOK
  <2>3. HandlersOK' /\ HistoryOK'
    BY <2>1, <2>2, KeptGoesOn, AdvanceTyped
  <2>4. session' \in [Tokens -> Infos \cup {None}]
    <3>1. Written(req[h]) \in Infos
      BY <2>1, Serving, WrittenType
    <3> QED BY <1>5, <3>1 DEF SetSession, TablesOK
  <2>5. TablesOK'
    BY <1>5, <2>4 DEF SetSession, TablesOK
  <2> QED BY <2>3, <2>5
<1>6. CASE ReadMap(h)
  <2> DEFINE q == [req[h] EXCEPT !.map = tokenMap]
  <2>1. Busy(h) /\ Head(todo[h]) = "readMap" /\ Advance(h, q)
    BY <1>6 DEF ReadMap, At
  <2>2. req[h] \in Requests
    BY <2>1, Serving
  <2>3. q \in Requests /\ q.op = req[h].op /\ q.token = req[h].token /\ q.info = req[h].info
    BY <2>2 DEF Requests, TablesOK
  <2>4. GoesOn(q, req[h], todo[h])
    <3> HIDE DEF q
    <3> QED BY <2>1, <2>3, KeptGoesOn DEF GoesOn
  <2>5. issued' = issued /\ missed' \in BOOLEAN
    BY <1>6 DEF ReadMap, HistoryOK
  <2>6. HandlersOK' /\ HistoryOK'
    <3> HIDE DEF q
    <3> QED BY <2>1, <2>4, <2>5, AdvanceTyped
  <2>7. TablesOK'
    BY <1>6 DEF ReadMap, TablesOK, cache
  <2> QED BY <2>6, <2>7
<1>7. CASE WriteMap(h)
  <2>1. Busy(h) /\ Head(todo[h]) = "writeMap" /\ Advance(h, req[h])
    BY <1>7 DEF WriteMap, At
  <2>2. issued' = issued /\ missed' \in BOOLEAN
    BY <1>7 DEF WriteMap, HistoryOK
  <2>3. HandlersOK' /\ HistoryOK'
    BY <2>1, <2>2, KeptGoesOn, AdvanceTyped
  <2>4. tokenMap' \subseteq Tokens
    <3>1. req[h] \in Requests /\ req[h].op \in Openers \cup {"use"} /\ Fits(req[h], todo[h])
      BY <2>1, Serving DEF Placed
    <3>2. req[h].token \in Tokens /\ req[h].map \subseteq Tokens
      BY <3>1 DEF Fits, HistoryOK, Requests
    <3> QED BY <1>7, <3>2 DEF WriteMap, Mapped
  <2>5. TablesOK'
    BY <1>7, <2>4 DEF WriteMap, TablesOK
  <2> QED BY <2>3, <2>5
<1>8. CASE SetStatus(h)
  <2>1. Busy(h) /\ Head(todo[h]) = "setStatus" /\ Advance(h, req[h])
    BY <1>8 DEF SetStatus, At
  <2>2. issued' = issued /\ missed' \in BOOLEAN
    BY <1>8 DEF SetStatus, HistoryOK
  <2>3. HandlersOK' /\ HistoryOK'
    BY <2>1, <2>2, KeptGoesOn, AdvanceTyped
  <2>4. statusKey' \in Infos
    BY <1>8, <2>1, Serving, WrittenType DEF SetStatus
  <2>5. TablesOK'
    BY <1>8, <2>4 DEF SetStatus, TablesOK
  <2> QED BY <2>3, <2>5
<1>9. CASE ReadSession(h)
  <2> DEFINE q == [req[h] EXCEPT !.info = session[req[h].token]]
  <2>1. Busy(h) /\ Head(todo[h]) = "readSession" /\ (Leave(h) \/ (session[req[h].token] # None /\ Advance(h, q)))
    <3>1. Busy(h) /\ Head(todo[h]) = "readSession"
      BY <1>9 DEF ReadSession, At
    <3>2. session[req[h].token] = None => Leave(h)
      BY <1>9 DEF ReadSession
    <3>3. session[req[h].token] # None => Advance(h, q)
      BY <1>9 DEF ReadSession
    <3> HIDE DEF q
    <3> QED BY <3>1, <3>2, <3>3
  <2>2. req[h] \in Requests /\ req[h].op = "use" /\ req[h].token \in Tokens
    BY <2>1, Serving DEF Placed, Fits, HistoryOK
  <2>3. ASSUME session[req[h].token] \in Infos, Advance(h, q) PROVE HandlersOK' /\ HistoryOK'
    <3>1. q \in Requests /\ q.op = req[h].op /\ q.token = req[h].token /\ q.info \in Infos
      BY <2>2, <2>3 DEF Requests
    <3>2. GoesOn(q, req[h], todo[h])
      <4> HIDE DEF q
      <4> QED BY <2>2, <3>1 DEF GoesOn, Openers, Changes
    <3>3. issued' = issued /\ missed' \in BOOLEAN
      BY <1>9 DEF ReadSession, HistoryOK
    <3> HIDE DEF q
    <3> QED BY <2>1, <2>3, <3>2, <3>3, AdvanceTyped
  <2>4. ASSUME Leave(h) PROVE HandlersOK' /\ HistoryOK'
    BY <1>9, <2>4, LeaveTyped DEF ReadSession, HistoryOK
  <2>5. session[req[h].token] \in Infos \cup {None}
    BY <2>2 DEF TablesOK
  <2>6. TablesOK'
    BY <1>9 DEF ReadSession, TablesOK, cache
  <2> QED
    <3>1. HandlersOK' /\ HistoryOK'
      <4> HIDE DEF q
      <4> QED BY <2>1, <2>3, <2>4, <2>5
    <3> QED BY <3>1, <2>6
<1>10. CASE ReadStatus(h)
  <2> DEFINE q == [req[h] EXCEPT !.info = statusKey]
  <2>1. Busy(h) /\ Head(todo[h]) = "readStatus" /\ (Leave(h) \/ (statusKey # None /\ Advance(h, q)))
    <3>1. Busy(h) /\ Head(todo[h]) = "readStatus"
      BY <1>10 DEF ReadStatus, At
    <3>2. statusKey = None => Leave(h)
      BY <1>10 DEF ReadStatus
    <3>3. statusKey # None => Advance(h, q)
      BY <1>10 DEF ReadStatus
    <3> HIDE DEF q
    <3> QED BY <3>1, <3>2, <3>3
  <2>2. req[h] \in Requests /\ req[h].op = "use" /\ req[h].token \in Tokens
    BY <2>1, Serving DEF Placed, Fits, HistoryOK
  <2>3. ASSUME statusKey \in Infos, Advance(h, q) PROVE HandlersOK' /\ HistoryOK'
    <3>1. q \in Requests /\ q.op = req[h].op /\ q.token = req[h].token /\ q.info \in Infos
      BY <2>2, <2>3 DEF Requests
    <3>2. GoesOn(q, req[h], todo[h])
      <4> HIDE DEF q
      <4> QED BY <2>2, <3>1 DEF GoesOn, Openers, Changes
    <3>3. issued' = issued /\ missed' \in BOOLEAN
      BY <1>10 DEF ReadStatus, HistoryOK
    <3> HIDE DEF q
    <3> QED BY <2>1, <2>3, <3>2, <3>3, AdvanceTyped
  <2>4. ASSUME Leave(h) PROVE HandlersOK' /\ HistoryOK'
    BY <1>10, <2>4, LeaveTyped DEF ReadStatus, HistoryOK
  <2>5. statusKey \in Infos \cup {None}
    BY <2>2 DEF TablesOK
  <2>6. TablesOK'
    BY <1>10 DEF ReadStatus, TablesOK, cache
  <2> QED
    <3>1. HandlersOK' /\ HistoryOK'
      <4> HIDE DEF q
      <4> QED BY <2>1, <2>3, <2>4, <2>5
    <3> QED BY <3>1, <2>6
<1>11. CASE CloseSession(h)
  <2>1. Busy(h) /\ Head(todo[h]) = "closeSession" /\ Advance(h, req[h])
    BY <1>11 DEF CloseSession, At
  <2>2. issued' = issued /\ missed' \in BOOLEAN
    BY <1>11 DEF CloseSession, HistoryOK
  <2>3. HandlersOK' /\ HistoryOK'
    BY <2>1, <2>2, KeptGoesOn, AdvanceTyped
  <2>4. session' \in [Tokens -> Infos \cup {None}]
    BY <1>11 DEF CloseSession, TablesOK
  <2>5. TablesOK'
    BY <1>11, <2>4 DEF CloseSession, TablesOK
  <2> QED BY <2>3, <2>5
<1>12. CASE CloseSessions(h)
  <2>1. Busy(h) /\ Head(todo[h]) = "closeSessions"
    BY <1>12 DEF CloseSessions, At
  <2>2. req[h] \in Requests /\ Fits(req[h], todo[h])
    BY <2>1, Serving
  <2>3. issued' = issued /\ missed' = missed /\ missed' \in BOOLEAN
    BY <1>12 DEF CloseSessions, HistoryOK
  <2>4. TablesOK'
    BY <1>12 DEF CloseSessions, TablesOK
  <2>5. CASE Advance(h, req[h])
    BY <2>1, <2>3, <2>4, <2>5, KeptGoesOn, AdvanceTyped
  <2>6. ASSUME NEW t \in req[h].map, req' = [req EXCEPT ![h].map = req[h].map \ {t}],
               UNCHANGED <<todo, clean, firm, loose, ended, keyStale>>
        PROVE  HandlersOK' /\ HistoryOK'
    <3> DEFINE q == [req[h] EXCEPT !.map = req[h].map \ {t}]
    <3>1. q \in Requests /\ q.op = req[h].op /\ q.token = req[h].token /\ q.info = req[h].info
      BY <2>2 DEF Requests
    <3>2. req' = [req EXCEPT ![h] = q]
      BY <2>6
    <3> HIDE DEF q
    <3>3. Fits(q, todo[h]) /\ q # NoRequest /\ todo[h] # <<>>
      BY <2>1, <2>2, <3>1, SessionAssumption DEF Fits, Busy
    <3>4. HandlersOK'
      <4>1. todo' = todo /\ req' = [g \in Handlers |-> req'[g]]
        BY <2>6, <3>2 DEF HandlersOK
      <4>2. ASSUME NEW g \in Handlers
            PROVE  \/ todo[g] = <<>> /\ req'[g] = NoRequest
                   \/ todo[g] # <<>> /\ req'[g] # NoRequest /\ Fits(req'[g], todo[g])
        BY <3>2, <3>3 DEF HandlersOK
      <4>3. ASSUME NEW g \in Handlers, Fits(req'[g], todo[g]) PROVE Fits(req[g], todo[g])'
        BY <2>3, <4>1, <4>3 DEF Fits
      <4> QED BY <4>1, <4>2, <4>3 DEF HandlersOK
    <3>5. HistoryOK'
      BY <2>3, <2>6 DEF HistoryOK
    <3> QED BY <3>4, <3>5
  <2> QED BY <1>12, <2>4, <2>5, <2>6 DEF CloseSessions
<1>13. CASE DropStatus(h)
  <2>1. Busy(h) /\ Head(todo[h]) = "dropStatus" /\ Advance(h, req[h])
    BY <1>13 DEF DropStatus, At
  <2>2. issued' = issued /\ missed' \in BOOLEAN
    BY <1>13 DEF DropStatus, HistoryOK
  <2>3. HandlersOK' /\ HistoryOK'
    BY <2>1, <2>2, KeptGoesOn, AdvanceTyped
  <2>5. TablesOK'
    BY <1>13 DEF DropStatus, TablesOK
  <2> QED BY <2>3, <2>5
<1>14. CASE DropMap(h)
  <2>1. Busy(h) /\ Head(todo[h]) = "dropMap" /\ Advance(h, req[h])
    BY <1>14 DEF DropMap, At
  <2>2. issued' = issued /\ missed' \in BOOLEAN
    BY <1>14 DEF DropMap, HistoryOK
  <2>3. HandlersOK' /\ HistoryOK'
    BY <2>1, <2>2, KeptGoesOn, AdvanceTyped
  <2>5. TablesOK'
    BY <1>14 DEF DropMap, TablesOK
  <2> QED BY <2>3, <2>5
<1> QED BY <1>1, <1>2, <1>3, <1>4, <1>5, <1>6, <1>7, <1>8, <1>9, <1>10, <1>11, <1>12, <1>13, <1>14
       DEF Step

LEMMA FailTyped ==
  ASSUME Typed, NEW h \in Handlers, Fail(h)
  PROVE  Typed'
<1>1. HandlersOK' /\ HistoryOK'
  BY LeaveTyped DEF Fail, Typed, HistoryOK
<1>2. TablesOK'
  BY DEF Fail, Typed, TablesOK, cache
<1> QED BY <1>1, <1>2 DEF Typed

LEMMA FileTyped ==
  ASSUME Typed, Save \/ Crash
  PROVE  Typed'
<1>1. CASE Save
  <2>1. TablesOK'
    BY <1>1, SessionAssumption DEF Save, Typed, TablesOK, cache, Cached
  <2> QED BY <1>1, <2>1 DEF Save, Typed, HandlersOK, HistoryOK, history, Fits
<1>2. CASE Crash
  <2>1. HandlersOK'
    BY <1>2 DEF Crash, HandlersOK
  <2>2. TablesOK'
    BY <1>2, SessionAssumption DEF Crash, Typed, TablesOK
  <2>3. HistoryOK'
    BY <1>2 DEF Crash, Typed, HistoryOK
  <2> QED BY <2>1, <2>2, <2>3 DEF Typed
<1> QED BY <1>1, <1>2

LEMMA NextTyped == Typed /\ [Next]_vars => Typed'
<1> SUFFICES ASSUME Typed, [Next]_vars PROVE Typed'
  OBVIOUS
<1>1. CASE UNCHANGED vars
  BY <1>1 DEF vars, cache, history, Typed, HandlersOK, TablesOK, HistoryOK, Fits
<1> QED BY <1>1, ReceiveTyped, StepTyped, FailTyped, FileTyped DEF Next

\* AccountSession is well typed in every reachable state; behind it stands which
\* statements a request has left and what it has read by then.
THEOREM TypeCorrect == Spec => []TypeOK
<1>1. Typed /\ [Next]_vars => Typed'
  BY NextTyped
<1> QED BY InitTyped, <1>1, TypedIsTypeOK, PTL DEF Spec

-----------------------------------------------------------------------------
(* The first point *)

\* A request that has confirmed an address and is about to give the point for it.
Pays(q, s) ==
  /\ Head(s) = "activate" \/ (Head(s) = "setStatus" /\ q.op \in Changes)
  /\ AsksForPoint(q) /\ q.info # None

Owing == \E h \in Handlers : todo[h] # <<>> /\ Pays(req[h], todo[h])

\* The point was given, or will be, or somebody was cut off when giving it.
Settled == points = 1 \/ missed \/ Owing

\* A request that gives no point because of what it has read.
ReadPaid(q) ==
  /\ q.info # None
  /\ \/ q.op \in {"changeEmail"} \cup Changes /\ q.info.mail = "available"
     \/ q.op \in Changes /\ ~q.unranked

\* A confirmed address has its point settled, and whoever has read of a confirmed
\* address or of a reputation is right for good.
PointsOK ==
  /\ account.mail = "available" => Settled
  /\ \A h \in Handlers : todo[h] # <<>> /\ ReadPaid(req[h]) => Settled

FirstInv == Typed /\ PointsOK

LEMMA FirstInvImplies == FirstInv => FirstPointOnce
BY DEF FirstInv, Typed, TablesOK, PointsOK, Settled, Owing, FirstPointOnce, Quiet, Busy

LEMMA InitFirst == Init => FirstInv
<1> SUFFICES ASSUME Init PROVE FirstInv
  OBVIOUS
<1>1. PointsOK
  BY DEF Init, PointsOK, Settled
<1> QED BY <1>1, InitTyped DEF FirstInv

\* Whoever settles the point stays, but for the one who moves.
LEMMA SettledStays ==
  ASSUME NEW h \in Handlers, Settled,
         points' = points \/ points' = 1, missed => missed',
         \A g \in Handlers : g # h => todo'[g] = todo[g] /\ req'[g] = req[g],
         todo[h] # <<>> /\ Pays(req[h], todo[h]) => Settled'
  PROVE  Settled'
<1>1. CASE points = 1 \/ missed
  BY <1>1 DEF Settled
<1>2. ASSUME NEW g \in Handlers, todo[g] # <<>>, Pays(req[g], todo[g]) PROVE Settled'
  <2>1. CASE g = h
    BY <1>2, <2>1
  <2>2. CASE g # h
    <3>1. todo'[g] = todo[g] /\ req'[g] = req[g]
      BY <2>2
    <3>2. todo'[g] # <<>> /\ Pays(req'[g], todo'[g])
      BY <1>2, <3>1
    <3>3. Pays(req[g], todo[g])'
      BY <3>2 DEF Pays, AsksForPoint
    <3> QED BY <3>2, <3>3 DEF Settled, Owing
  <2> QED BY <2>1, <2>2
<1> QED BY <1>1, <1>2 DEF Settled, Owing

\* Only the handler that moves changes, and it goes on with q or is idle.
Moves(h, q) ==
  /\ \A g \in Handlers : g # h => todo'[g] = todo[g] /\ req'[g] = req[g]
  /\ todo'[h] # <<>> => req'[h] = q

LEMMA AdvanceMoves ==
  ASSUME HandlersOK, NEW h \in Handlers, NEW q, Advance(h, q) \/ Leave(h)
  PROVE  Moves(h, q)
<1>1. CASE Leave(h)
  BY <1>1 DEF Leave, HandlersOK, Moves
<1>2. CASE Advance(h, q) /\ Len(todo[h]) = 1
  BY <1>2 DEF Advance, Complete, HandlersOK, Moves
<1>3. CASE Advance(h, q) /\ Len(todo[h]) # 1
  <2>1. todo' = [todo EXCEPT ![h] = Tail(@)] /\ req' = [req EXCEPT ![h] = q]
    BY <1>3 DEF Advance
  <2> QED BY <2>1 DEF HandlersOK, Moves
<1> QED BY <1>1, <1>2, <1>3

\* One handler moves and nothing is unsettled by it.
LEMMA SettledStep ==
  ASSUME PointsOK, NEW h \in Handlers, NEW q, Moves(h, q), Settled => Settled',
         account'.mail = "available" => Settled', ReadPaid(q) => Settled'
  PROVE  PointsOK'
<1>1. ASSUME NEW g \in Handlers, todo'[g] # <<>>, ReadPaid(req'[g]) PROVE Settled'
  <2>1. CASE g = h
    BY <1>1, <2>1 DEF Moves
  <2>2. CASE g # h
    <3>1. todo'[g] = todo[g] /\ req'[g] = req[g]
      BY <2>2 DEF Moves
    <3> QED BY <1>1, <3>1 DEF PointsOK
  <2> QED BY <2>1, <2>2
<1>2. ASSUME NEW g \in Handlers, ReadPaid(req[g])' PROVE ReadPaid(req'[g])
  BY <1>2 DEF ReadPaid
<1> QED BY <1>1, <1>2 DEF PointsOK

\* A step that leaves account and points alone and is not the giving of the point.
LEMMA PlainStep ==
  ASSUME FirstInv, NEW h \in Handlers, NEW q, Moves(h, q), account' = account,
         points' = points, missed' = missed,
         todo[h] # <<>> => Head(todo[h]) \notin {"activate", "setStatus"},
         ReadPaid(q) => Settled
  PROVE  PointsOK'
<1>1. Settled => Settled'
  BY SettledStays DEF Moves, Pays
<1>2. account'.mail = "available" => Settled'
  BY <1>1 DEF FirstInv, PointsOK
<1> QED BY <1>1, <1>2, SettledStep DEF FirstInv

\* What a request has read and keeps, it was right about.
LEMMA ReadIsRight ==
  ASSUME FirstInv, NEW h \in Handlers, Busy(h), ReadPaid(req[h])
  PROVE  Settled
BY DEF FirstInv, PointsOK, Busy

LEMMA ReceiveFirst ==
  ASSUME FirstInv, NEW h \in Handlers, NEW op, NEW t, Receive(h, op, t)
  PROVE  PointsOK'
<1> DEFINE q == [op |-> op, token |-> t, info |-> None, unranked |-> FALSE, map |-> {}]
<1>1. ~ReadPaid(q)
  BY DEF ReadPaid
<1>2. req' = [req EXCEPT ![h] = q] /\ todo' = [todo EXCEPT ![h] = Program(op)]
  BY DEF Receive
<1> HIDE DEF q
<1>3. Moves(h, q)
  BY <1>2 DEF FirstInv, Typed, HandlersOK, Moves
<1>4. todo[h] = <<>> /\ account' = account /\ points' = points /\ missed' = missed
  BY DEF Receive, Busy
<1> QED BY <1>1, <1>3, <1>4, PlainStep

\* The steps that concern neither the row nor the first point.
LEMMA CacheFirst ==
  ASSUME FirstInv, NEW h \in Handlers,
         \/ SetSession(h) \/ ReadMap(h) \/ WriteMap(h) \/ ReadSession(h) \/ ReadStatus(h)
         \/ CloseSession(h) \/ CloseSessions(h) \/ DropStatus(h) \/ DropMap(h) \/ Fail(h)
  PROVE  PointsOK'
<1>1. account' = account /\ points' = points /\ missed' = missed /\ Busy(h)
  BY DEF SetSession, ReadMap, WriteMap, ReadSession, ReadStatus, CloseSession, CloseSessions,
         DropStatus, DropMap, Fail, At
<1>2. Head(todo[h]) \notin {"activate", "setStatus"}
  BY DEF SetSession, ReadMap, WriteMap, ReadSession, ReadStatus, CloseSession, CloseSessions,
         DropStatus, DropMap, Fail, At
<1>3. HandlersOK
  BY DEF FirstInv, Typed
<1>4. CASE Advance(h, req[h]) \/ Leave(h)
  BY <1>1, <1>2, <1>3, <1>4, AdvanceMoves, ReadIsRight, PlainStep
<1>5. CASE ReadMap(h)
  <2> DEFINE q == [req[h] EXCEPT !.map = tokenMap]
  <2>1. Advance(h, q)
    BY <1>5 DEF ReadMap
  <2>2. q.op = req[h].op /\ q.info = req[h].info /\ q.unranked = req[h].unranked
    BY <1>1, <1>3, Serving DEF Requests
  <2> HIDE DEF q
  <2>3. ReadPaid(q) => Settled
    BY <2>2, <1>1, ReadIsRight DEF ReadPaid
  <2> QED BY <1>1, <1>2, <1>3, <2>1, <2>3, AdvanceMoves, PlainStep
<1>6. ASSUME NEW t \in req[h].map, req' = [req EXCEPT ![h].map = req[h].map \ {t}], todo' = todo
      PROVE  PointsOK'
  <2> DEFINE q == [req[h] EXCEPT !.map = req[h].map \ {t}]
  <2>1. req' = [req EXCEPT ![h] = q]
    BY <1>6
  <2>2. q.op = req[h].op /\ q.info = req[h].info /\ q.unranked = req[h].unranked
    BY <1>1, <1>3, Serving DEF Requests
  <2> HIDE DEF q
  <2>3. ReadPaid(q) => Settled
    BY <2>2, <1>1, ReadIsRight DEF ReadPaid
  <2>4. Moves(h, q)
    BY <1>3, <1>6, <2>1 DEF HandlersOK, Moves
  <2> QED BY <1>1, <1>2, <2>3, <2>4, PlainStep
<1>7. CASE ReadSession(h) \/ ReadStatus(h)
  <2>1. req[h].op = "use" /\ req[h] \in Requests
    BY <1>1, <1>3, <1>7, Serving DEF ReadSession, ReadStatus, At, Placed
  <2>2. ASSUME NEW i, Advance(h, [req[h] EXCEPT !.info = i]) PROVE PointsOK'
    <3> DEFINE q == [req[h] EXCEPT !.info = i]
    <3>1. q.op = "use"
      BY <2>1 DEF Requests
    <3>2. ~ReadPaid(q)
      <4> HIDE DEF q
      <4> QED BY <3>1 DEF ReadPaid, Changes
    <3>3. Advance(h, q)
      BY <2>2
    <3> HIDE DEF q
    <3> QED BY <1>1, <1>2, <1>3, <3>2, <3>3, AdvanceMoves, PlainStep
  <2>3. \/ Leave(h) \/ Advance(h, [req[h] EXCEPT !.info = session[req[h].token]])
        \/ Advance(h, [req[h] EXCEPT !.info = statusKey])
    BY <1>7 DEF ReadSession, ReadStatus
  <2> QED BY <1>4, <2>2, <2>3
<1> QED BY <1>4, <1>5, <1>6, <1>7
       DEF SetSession, WriteMap, CloseSession, CloseSessions, DropStatus, DropMap, Fail

LEMMA ReadAccountFirst ==
  ASSUME FirstInv, NEW h \in Handlers, ReadAccount(h)
  PROVE  PointsOK'
<1> DEFINE q == [req[h] EXCEPT !.info = account, !.unranked = req[h].op \in Changes /\ points = 0]
<1>1. Busy(h) /\ Head(todo[h]) = "readAccount" /\ (Advance(h, q) \/ Leave(h))
  BY DEF ReadAccount, At
<1>2. account' = account /\ points' = points /\ missed' = missed /\ HandlersOK
  BY DEF ReadAccount, FirstInv, Typed
<1>3. q.info = account /\ (q.op \in Changes /\ points = 0 => q.unranked)
  BY <1>1, <1>2, Serving DEF Requests
<1> HIDE DEF q
<1>4. ReadPaid(q) => Settled
  <2>1. points = 0 \/ points = 1
    BY DEF FirstInv, Typed, TablesOK
  <2>2. q.info.mail = "available" => Settled
    BY <1>3 DEF FirstInv, PointsOK
  <2>3. q.op \in Changes /\ ~q.unranked => Settled
    BY <1>3, <2>1 DEF Settled
  <2> QED BY <2>2, <2>3 DEF ReadPaid
<1> QED BY <1>1, <1>2, <1>4, AdvanceMoves, PlainStep

\* A request whose next statement pays owes the point.
LEMMA WillPay ==
  ASSUME HandlersOK, NEW h \in Handlers, Advance(h, req[h]), Len(todo[h]) # 1,
         Busy(h), Pays(req[h], Tail(todo[h]))
  PROVE  Owing'
<1>1. Tail(todo[h]) # <<>>
  BY Serving DEF LeftOK
<1>2. todo'[h] = Tail(todo[h]) /\ req'[h] = req[h]
  BY DEF Advance, HandlersOK
<1>3. Pays(req[h], todo[h])'
  BY <1>2 DEF Pays, AsksForPoint
<1> QED BY <1>1, <1>2, <1>3 DEF Owing

LEMMA ConfirmFirst ==
  ASSUME FirstInv, NEW h \in Handlers, Confirm(h)
  PROVE  PointsOK'
<1>1. /\ Busy(h) /\ Head(todo[h]) = "confirm" /\ Advance(h, req[h])
      /\ HandlersOK /\ points' = points /\ missed' = missed
  BY DEF Confirm, At, FirstInv, Typed
<1>2. /\ req[h].op \in {"verify", "changeEmail"}
      /\ Len(todo[h]) # 1 /\ Head(Tail(todo[h])) = "activate"
  BY <1>1, Serving DEF Placed
<1>3. req[h].info \in Accounts /\ req[h].info # None
  BY <1>1, <1>2, Serving, AccountsAreInfos DEF Fits, Openers
<1>4. Moves(h, req[h])
  BY <1>1, AdvanceMoves
<1>5. Settled => Settled'
  BY <1>1, <1>4, SettledStays DEF Moves, Pays
<1>6. account'.mail = "available" => Settled'
  <2>1. CASE req[h].op = "verify" /\ req[h].info.mail = "available"
    BY <1>5, <2>1 DEF Confirm, FirstInv, PointsOK
  <2>2. CASE AsksForPoint(req[h])
    BY <1>1, <1>2, <1>3, <2>2, WillPay DEF Pays, Settled
  <2>3. CASE ReadPaid(req[h])
    BY <1>1, <1>5, <2>3, ReadIsRight
  <2>4. req[h].op = "verify" => AsksForPoint(req[h])
    BY DEF AsksForPoint, Changes
  <2>5. req[h].op = "changeEmail" /\ req[h].info.mail = "toBeVerified" => AsksForPoint(req[h])
    BY DEF AsksForPoint, Changes
  <2>6. req[h].op = "changeEmail" /\ req[h].info.mail = "available" => ReadPaid(req[h])
    BY <1>3 DEF ReadPaid
  <2> QED BY <1>2, <1>3, <2>2, <2>3, <2>4, <2>5, <2>6 DEF Accounts
<1> QED BY <1>1, <1>4, <1>5, <1>6, ReadIsRight, SettledStep DEF FirstInv

LEMMA WriteAccountFirst ==
  ASSUME FirstInv, NEW h \in Handlers, WriteAccount(h)
  PROVE  PointsOK'
<1>1. /\ Busy(h) /\ Head(todo[h]) = "writeAccount" /\ Advance(h, req[h])
      /\ HandlersOK /\ points' = points /\ missed' = missed
  BY DEF WriteAccount, At, FirstInv, Typed
<1>2. /\ req[h].op \in Changes
      /\ Len(todo[h]) # 1 /\ Head(Tail(todo[h])) = "setStatus"
  BY <1>1, Serving DEF Placed
<1>3. req[h].info \in Accounts /\ req[h].info # None
  BY <1>1, <1>2, Serving, AccountsAreInfos DEF Fits
<1>4. Moves(h, req[h])
  BY <1>1, AdvanceMoves
<1>5. Settled => Settled'
  BY <1>1, <1>4, SettledStays DEF Moves, Pays
<1>6. account'.mail = "available" => Settled'
  <2>1. account' = Changed(req[h].op, req[h].info)
    BY DEF WriteAccount
  <2>2. CASE req[h].op = "restore" /\ req[h].unranked
    <3>1. AsksForPoint(req[h])
      BY <2>2 DEF AsksForPoint, Changes
    <3> QED BY <1>1, <1>2, <1>3, <3>1, WillPay DEF Pays, Settled
  <2>3. CASE req[h].op = "restore" /\ ~req[h].unranked
    BY <1>1, <1>2, <1>3, <1>5, <2>3, ReadIsRight DEF ReadPaid
  <2>4. CASE req[h].op \in {"suspend", "delete"}
    <3>1. account'.mail = req[h].info.mail
      BY <1>3, <2>1, <2>4 DEF Changed, Accounts
    <3> QED BY <1>1, <1>2, <1>3, <1>5, <3>1, ReadIsRight DEF ReadPaid
  <2>5. CASE req[h].op = "deactivate"
    BY <1>3, <2>1, <2>5 DEF Changed, Accounts
  <2> QED BY <1>2, <2>2, <2>3, <2>4, <2>5 DEF Changes
<1> QED BY <1>1, <1>4, <1>5, <1>6, ReadIsRight, SettledStep DEF FirstInv

LEMMA ActivateFirst ==
  ASSUME FirstInv, NEW h \in Handlers, Activate(h)
  PROVE  PointsOK'
<1>1. Busy(h) /\ Advance(h, req[h]) /\ HandlersOK /\ account' = account
  BY DEF Activate, At, FirstInv, Typed
<1>2. Moves(h, req[h])
  BY <1>1, AdvanceMoves
<1>3. points \in 0..1
  BY DEF FirstInv, Typed, TablesOK
<1>4. (points' = points \/ points' = 1) /\ (missed => missed')
  BY <1>3 DEF Activate, Activated
<1>5. AsksForPoint(req[h]) => Settled'
  BY <1>3 DEF Activate, Activated, Settled
<1>6. Settled => Settled'
  BY <1>2, <1>4, <1>5, SettledStays DEF Moves, Pays
<1>7. account'.mail = "available" => Settled'
  BY <1>1, <1>6 DEF FirstInv, PointsOK
<1> QED BY <1>1, <1>2, <1>6, <1>7, ReadIsRight, SettledStep DEF FirstInv

LEMMA SetStatusFirst ==
  ASSUME FirstInv, NEW h \in Handlers, SetStatus(h)
  PROVE  PointsOK'
<1>1. /\ Busy(h) /\ Head(todo[h]) = "setStatus" /\ Advance(h, req[h])
      /\ HandlersOK /\ points' = points /\ missed' = missed /\ account' = account
  BY DEF SetStatus, At, FirstInv, Typed
<1>2. Moves(h, req[h])
  BY <1>1, AdvanceMoves
<1>3. Pays(req[h], todo[h]) => Owing'
  <2>0. SUFFICES ASSUME Pays(req[h], todo[h]) PROVE Owing'
    OBVIOUS
  <2>2. req[h].op \in Changes /\ AsksForPoint(req[h]) /\ req[h].info # None
    BY <1>1, <2>0 DEF Pays
  <2>3. Len(todo[h]) # 1 /\ Head(Tail(todo[h])) = "activate"
    BY <1>1, <2>2, Serving DEF Placed
  <2> QED BY <1>1, <2>2, <2>3, WillPay DEF Pays
<1>4. Settled => Settled'
  <2>1. todo[h] # <<>> /\ Pays(req[h], todo[h]) => Settled'
    BY <1>3 DEF Settled
  <2> QED BY <1>1, <1>2, <2>1, SettledStays DEF Moves
<1>5. account'.mail = "available" => Settled'
  BY <1>1, <1>4 DEF FirstInv, PointsOK
<1> QED BY <1>1, <1>2, <1>4, <1>5, ReadIsRight, SettledStep DEF FirstInv

\* A crash takes every request with it: the point that was owed is missed.
LEMMA CrashFirst ==
  ASSUME FirstInv, Crash
  PROVE  PointsOK'
<1>1. account' = account /\ points' = points /\ \A h \in Handlers : todo'[h] = <<>>
  BY DEF Crash
<1>2. ASSUME NEW h \in Handlers, todo[h] # <<>>, Pays(req[h], todo[h]) PROVE missed'
  <2>1. LeftOK(req[h].op, todo[h])
    BY <1>2, Serving DEF FirstInv, Typed, Busy
  <2>2. OwesPoint(h)
    BY <1>2, <2>1 DEF Pays, LeftOK, OwesPoint, Busy
  <2> QED BY <2>2 DEF Crash
<1>3. Settled => Settled'
  BY <1>1, <1>2 DEF Settled, Owing, Crash
<1>4. account'.mail = "available" => Settled'
  BY <1>1, <1>3 DEF FirstInv, PointsOK
<1> QED BY <1>1, <1>4 DEF PointsOK

LEMMA NextFirst == FirstInv /\ [Next]_vars => FirstInv'
<1> SUFFICES ASSUME FirstInv, [Next]_vars PROVE PointsOK'
  BY NextTyped DEF FirstInv
<1>1. CASE UNCHANGED vars \/ Save
  <2>1. account' = account /\ points' = points /\ missed' = missed /\ todo' = todo /\ req' = req
    BY <1>1 DEF vars, cache, history, Save
  <2>2. PointsOK
    BY DEF FirstInv
  <2> QED BY <2>1, <2>2 DEF PointsOK, Settled, Owing, Pays, AsksForPoint, ReadPaid
<1>2. ASSUME NEW h \in Handlers, Step(h) PROVE PointsOK'
  BY <1>2, CacheFirst, ReadAccountFirst, ConfirmFirst, WriteAccountFirst, ActivateFirst,
     SetStatusFirst DEF Step
<1>3. ASSUME NEW h \in Handlers, Fail(h) PROVE PointsOK'
  BY <1>3, CacheFirst
<1> QED BY <1>1, <1>2, <1>3, ReceiveFirst, CrashFirst DEF Next

\* UserActive gives the first point once, however logins, confirmations and
\* administrators overlap, and in a quiet state a confirmed address has it,
\* unless a statement failed or the process died when it was due.
THEOREM FirstPointGivenOnce == Spec => []FirstPointOnce
<1>1. FirstInv /\ [Next]_vars => FirstInv'
  BY NextFirst
<1> QED BY InitFirst, <1>1, FirstInvImplies, PTL DEF Spec

-----------------------------------------------------------------------------
(* Requests that meet others *)

\* What a handler does in one step: it goes on with q, leaves, or completes.
Turn(h, q) ==
  /\ Busy(h) /\ Moves(h, q) /\ q.op = req[h].op /\ q.token = req[h].token
  /\ UNCHANGED <<clean, issued>>
  /\ \/ /\ \/ todo'[h] = <<>>
           \/ todo'[h] = todo[h]
           \/ Len(todo[h]) # 1 /\ todo'[h] = Tail(todo[h])
        /\ UNCHANGED <<firm, loose, ended, keyStale>>
     \/ todo'[h] = <<>> /\ Len(todo[h]) = 1 /\ Complete(h)

\* Tokens are given out once, and nobody knows one that is being opened.
TokensOK ==
  /\ \A h \in Handlers : Busy(h) => req[h].token \in issued \cup {None}
  /\ \A h \in Handlers : Busy(h) /\ req[h].op \in Openers =>
       req[h].token \in issued /\ req[h].token \notin firm \cup loose \cup ended
  /\ \A g, h \in Handlers :
       Busy(g) /\ Busy(h) /\ g # h /\ req[h].op \in Openers => req[g].token # req[h].token

\* A clean request has met only harmless ones, a session is firm only while no
\* request on it has met another one, and a change that is not clean leaves the
\* key in doubt.
MeetOK ==
  \A g, h \in Handlers :
    Busy(g) /\ Busy(h) /\ g # h /\ clean[h] => Harmless(req[h], req[g])
Apart ==
  \A g, h \in Handlers :
    Busy(g) /\ Busy(h) /\ g # h /\ req[h].token \in firm => Harmless(req[h], req[g])
StaleOK == \A h \in Handlers : Busy(h) /\ req[h].op \in KeyWriters /\ ~clean[h] => keyStale

Meeting == TokensOK /\ MeetOK /\ Apart /\ StaleOK

LEMMA HarmlessFacts ==
  ASSUME NEW q, NEW r, Harmless(q, r)
  PROVE  /\ Harmless(r, q)
         /\ q.op \notin Closers \cup {"verify", "changeEmail"}
         /\ ~(q.op \in KeyWriters /\ r.op \in KeyWriters)
         /\ q.op \in Openers => r.op \notin Openers \cup {"use"}
         /\ q.op = "logout" /\ r.op = "use" => q.token # r.token
<1>1. Harmless(r, q)
  BY DEF Harmless
<1>2. q.op \in {"use", "logout", "login"} \cup Changes /\ r.op \in {"use", "logout", "login"} \cup Changes
  BY DEF Harmless
<1>3. q.op \notin Closers \cup {"verify", "changeEmail"}
  BY <1>2 DEF Closers, Changes
<1>4. ~(q.op \in KeyWriters /\ r.op \in KeyWriters)
  <2>1. ~(q.op \in Changes /\ r.op \in Changes)
    BY DEF Harmless
  <2> QED BY <1>2, <2>1 DEF KeyWriters, Closers
<1>5. q.op \in Openers => r.op \notin Openers \cup {"use"}
  BY DEF Harmless, Openers, Changes
<1>6. q.op = "logout" /\ r.op = "use" => q.token # r.token
  BY DEF Harmless, Changes
<1> QED BY <1>1, <1>3, <1>4, <1>5, <1>6

LEMMA HarmlessSame ==
  ASSUME NEW q, NEW r, NEW p, Harmless(q, r), p.op = q.op, p.token = q.token
  PROVE  Harmless(p, r) /\ Harmless(r, p)
BY DEF Harmless

\* What a turn makes of the sessions that are firm, loose or ended.
TurnHistory(h) ==
  /\ \/ firm' \subseteq firm
     \/ clean[h] /\ req[h].op \in Openers /\ firm' = firm \cup {req[h].token}
  /\ \/ loose \subseteq loose'
     \/ clean[h] /\ req[h].op = "logout" /\ loose' = loose \ {req[h].token}
  /\ \/ loose' \subseteq loose
     \/ req[h].op \in Openers \cup {"endOthers", "logout"} /\ loose' = loose \cup {req[h].token}
  /\ \/ ended' = ended
     \/ /\ req[h].op = "logout" /\ ended' = ended \cup {req[h].token}
        /\ clean[h] \/ req[h].token \in loose'
     \/ /\ req[h].op \in Closers /\ ended' = ended \cup ((firm \cup loose) \ {req[h].token})
        /\ firm' = {}
  /\ keyStale' = keyStale \/ (clean[h] /\ req[h].op \in KeyWriters)

LEMMA TurnEffects ==
  ASSUME Typed, NEW h \in Handlers, NEW q, Turn(h, q)
  PROVE  /\ TurnHistory(h)
         /\ Busy(h)' => UNCHANGED <<firm, loose, ended, keyStale>>
         /\ \A g \in Handlers : Busy(g)' => /\ Busy(g) /\ req'[g].op = req[g].op
                                            /\ req'[g].token = req[g].token
<1>1. Busy(h)' => UNCHANGED <<firm, loose, ended, keyStale>>
  BY DEF Turn, Busy
<1>2. \A g \in Handlers : Busy(g)' => /\ Busy(g) /\ req'[g].op = req[g].op
                                      /\ req'[g].token = req[g].token
  BY DEF Turn, Moves, Busy
<1>3. CASE UNCHANGED <<firm, loose, ended, keyStale>>
  BY <1>1, <1>2, <1>3 DEF TurnHistory
<1>4. CASE Complete(h)
  <2>1. keyStale' = keyStale \/ (clean[h] /\ req[h].op \in KeyWriters)
    BY <1>4 DEF Complete, Typed, HistoryOK
  <2>2. CASE req[h].op \in Openers
    <3>1. /\ firm' = IF clean[h] THEN firm \cup {req[h].token} ELSE firm
          /\ loose' = IF clean[h] THEN loose ELSE loose \cup {req[h].token}
          /\ ended' = ended
      BY <1>4, <2>2 DEF Complete, Openers, Closers
    <3> QED BY <1>1, <1>2, <2>1, <2>2, <3>1 DEF TurnHistory
  <2>3. CASE req[h].op \in Closers
    <3>1. /\ firm' = {} /\ ended' = ended \cup ((firm \cup loose) \ {req[h].token})
          /\ loose' = loose \/ (req[h].op = "endOthers" /\ loose' = loose \cup {req[h].token})
      BY <1>4, <2>3 DEF Complete, Openers, Closers
    <3> QED BY <1>1, <1>2, <2>1, <2>3, <3>1 DEF TurnHistory
  <2>4. CASE req[h].op = "logout"
    <3>1. /\ firm' = firm \ {req[h].token} /\ ended' = ended \cup {req[h].token}
          /\ loose' = IF clean[h] THEN loose \ {req[h].token} ELSE loose \cup {req[h].token}
      BY <1>4, <2>4 DEF Complete, Openers, Closers
    <3> QED BY <1>1, <1>2, <2>1, <2>4, <3>1 DEF TurnHistory
  <2>5. CASE req[h].op \notin Openers \cup Closers \cup {"logout"}
    <3>1. UNCHANGED <<firm, loose, ended>>
      BY <1>4, <2>5 DEF Complete, Closers
    <3> QED BY <1>1, <1>2, <2>1, <3>1 DEF TurnHistory
  <2> QED BY <2>2, <2>3, <2>4, <2>5
<1> QED BY <1>3, <1>4 DEF Turn

LEMMA TurnMeeting ==
  ASSUME Typed, Meeting, NEW h \in Handlers, NEW q, Turn(h, q)
  PROVE  Meeting'
<1>1. TurnHistory(h) /\ (Busy(h)' => UNCHANGED <<firm, loose, ended, keyStale>>)
  BY TurnEffects
<1>2. \A g \in Handlers : Busy(g)' => /\ Busy(g) /\ req'[g].op = req[g].op
                                      /\ req'[g].token = req[g].token
  BY TurnEffects
<1>3. Busy(h) /\ clean' = clean /\ issued' = issued
  BY DEF Turn
<1>4. TokensOK'
  <2>1. ASSUME NEW g \in Handlers, Busy(g)', req'[g].op \in Openers
        PROVE  req'[g].token \in issued' /\ req'[g].token \notin firm' \cup loose' \cup ended'
    <3>1. /\ Busy(g) /\ req[g].op \in Openers /\ req'[g].token = req[g].token
          /\ req[g].token \in issued /\ req[g].token \notin firm \cup loose \cup ended
      BY <1>2, <2>1 DEF Meeting, TokensOK
    <3>2. g # h => req[h].token # req[g].token
      BY <1>3, <3>1 DEF Meeting, TokensOK
    <3>3. CASE g = h
      BY <1>1, <1>3, <2>1, <3>1, <3>3
    <3>4. CASE g # h
      BY <1>1, <1>3, <3>1, <3>2, <3>4 DEF TurnHistory
    <3> QED BY <3>3, <3>4
  <2>2. \A g \in Handlers : Busy(g)' => req'[g].token \in issued' \cup {None}
    BY <1>2, <1>3 DEF Meeting, TokensOK
  <2>3. \A g, k \in Handlers :
          Busy(g)' /\ Busy(k)' /\ g # k /\ req'[k].op \in Openers => req'[g].token # req'[k].token
    BY <1>2 DEF Meeting, TokensOK
  <2> QED BY <2>1, <2>2, <2>3 DEF TokensOK
<1>5. ASSUME NEW g \in Handlers, NEW k \in Handlers, Busy(g)', Busy(k)', Harmless(req[k], req[g])
      PROVE  Harmless(req[k], req[g])'
  <2>1. /\ req'[k].op = req[k].op /\ req'[k].token = req[k].token
        /\ req'[g].op = req[g].op /\ req'[g].token = req[g].token
    BY <1>2, <1>5
  <2>2. Harmless(req'[k], req[g])
    BY <1>5, <2>1, HarmlessSame
  <2>3. Harmless(req'[k], req'[g])
    BY <2>1, <2>2, HarmlessFacts, HarmlessSame
  <2> QED BY <2>3 DEF Harmless
<1>6. MeetOK'
  BY <1>2, <1>3, <1>5 DEF Meeting, MeetOK
<1>7. Apart'
  <2> SUFFICES ASSUME NEW g \in Handlers, NEW k \in Handlers, Busy(g)', Busy(k)', g # k,
                      req'[k].token \in firm'
               PROVE  Harmless(req[k], req[g])'
    BY DEF Apart
  <2>1. Busy(k) /\ Busy(g) /\ req[k].token \in firm'
    BY <1>2
  <2>2. req[k].token \in firm
    <3>1. CASE k = h
      BY <1>1, <2>1, <3>1
    <3>2. CASE k # h /\ req[h].op \in Openers
      <4>1. req[k].token # req[h].token
        BY <1>3, <2>1, <3>2 DEF Meeting, TokensOK
      <4> QED BY <1>1, <2>1, <4>1 DEF TurnHistory
    <3>3. CASE req[h].op \notin Openers
      BY <1>1, <2>1, <3>3 DEF TurnHistory
    <3> QED BY <3>1, <3>2, <3>3
  <2> QED BY <1>5, <2>1, <2>2 DEF Meeting, Apart
<1>8. StaleOK'
  <2> SUFFICES ASSUME NEW k \in Handlers, Busy(k)', req'[k].op \in KeyWriters, ~clean'[k]
               PROVE  keyStale'
    BY DEF StaleOK
  <2>1. keyStale /\ Busy(k) /\ req[k].op \in KeyWriters
    BY <1>2, <1>3 DEF Meeting, StaleOK
  <2>2. k # h => ~(clean[h] /\ req[h].op \in KeyWriters)
    BY <1>3, <2>1, HarmlessFacts DEF Meeting, MeetOK
  <2> QED BY <1>1, <2>1, <2>2 DEF TurnHistory
<1> QED BY <1>4, <1>6, <1>7, <1>8 DEF Meeting

LEMMA AdvanceTurn ==
  ASSUME Typed, NEW h \in Handlers, Busy(h), NEW q, q.op = req[h].op, q.token = req[h].token,
         Advance(h, q) \/ Leave(h), UNCHANGED <<clean, issued>>
  PROVE  Turn(h, q)
<1>1. Moves(h, q)
  BY AdvanceMoves DEF Typed
<1>2. CASE Leave(h)
  <2>1. todo'[h] = <<>> /\ UNCHANGED <<firm, loose, ended, keyStale>>
    <3>1. todo = [g \in Handlers |-> todo[g]]
      BY DEF Typed, HandlersOK
    <3>2. todo' = [todo EXCEPT ![h] = <<>>] /\ UNCHANGED <<firm, loose, ended, keyStale>>
      BY <1>2 DEF Leave
    <3> QED BY <3>1, <3>2
  <2> QED BY <1>1, <2>1 DEF Turn
<1>3. CASE Advance(h, q) /\ Len(todo[h]) = 1
  BY <1>1, <1>3 DEF Advance, Complete, Turn, Typed, HandlersOK
<1>4. CASE Advance(h, q) /\ Len(todo[h]) # 1
  BY <1>1, <1>4 DEF Advance, Turn, Typed, HandlersOK
<1> QED BY <1>2, <1>3, <1>4

LEMMA ReceiveMeeting ==
  ASSUME Typed, Meeting, NEW h \in Handlers, NEW op \in Operations, NEW t \in Tokens \cup {None},
         Receive(h, op, t)
  PROVE  Meeting'
<1> DEFINE q == [op |-> op, token |-> t, info |-> None, unranked |-> FALSE, map |-> {}]
           hurt == {g \in Handlers : Busy(g) /\ ~Harmless(q, req[g])}
           met == IF hurt = {} THEN {} ELSE {t} \cup {req[g].token : g \in hurt}
<1>1. /\ ~Busy(h) /\ req'[h] = q /\ ended' = ended
      /\ \A g \in Handlers \ {h} : req'[g] = req[g] /\ todo'[g] = todo[g]
      /\ clean' = [g \in Handlers |-> IF g = h THEN hurt = {} ELSE clean[g] /\ g \notin hurt]
      /\ firm' = firm \ met /\ loose' = loose \cup (firm \cap met)
      /\ keyStale' = (keyStale \/ \E g \in hurt : {op, req[g].op} \cap KeyWriters # {})
      /\ issued' = IF op \in Openers THEN issued \cup {t} ELSE issued
  BY DEF Receive, Typed, HandlersOK
<1>2. q.op = op /\ q.token = t
  OBVIOUS
<1> HIDE DEF q
<1>3. \A g \in Handlers \ {h} : Busy(g)' <=> Busy(g)
  BY <1>1 DEF Busy
<1>4. /\ firm' \subseteq firm /\ loose' \subseteq loose \cup firm
      /\ issued \subseteq issued' /\ issued \subseteq Tokens
      /\ firm \cup loose \cup ended \subseteq issued
  BY <1>1 DEF Typed, HistoryOK
<1>5. op \in Openers => t \in Tokens \ issued
  BY DEF Receive, TokenFor, Openers
<1>6. op \notin Openers => t = None \/ t \in Held
  BY DEF Receive, TokenFor
<1>7. None \notin Tokens
  BY SessionAssumption
<1>8. \A g \in Handlers \ {h} : Busy(g) /\ req[g].op \in Openers => t # req[g].token
  <2> SUFFICES ASSUME NEW g \in Handlers \ {h}, Busy(g), req[g].op \in Openers
               PROVE  t # req[g].token
    OBVIOUS
  <2>1. req[g].token \in issued
    BY DEF Meeting, TokensOK
  <2>2. t \in Held => t # req[g].token
    BY DEF Held
  <2> QED BY <1>4, <1>5, <1>6, <1>7, <2>1, <2>2
<1>9. TokensOK'
  <2>1. \A g \in Handlers : Busy(g)' => req'[g].token \in issued' \cup {None}
    <3>1. t \in issued' \cup {None}
      BY <1>1, <1>5, <1>6 DEF Held
    <3> QED BY <1>1, <1>2, <1>3, <1>4, <3>1 DEF Meeting, TokensOK
  <2>2. \A g \in Handlers : Busy(g)' /\ req'[g].op \in Openers =>
          req'[g].token \in issued' /\ req'[g].token \notin firm' \cup loose' \cup ended'
    BY <1>1, <1>2, <1>3, <1>4, <1>5 DEF Meeting, TokensOK
  <2>3. ASSUME NEW g \in Handlers, NEW k \in Handlers, Busy(g)', Busy(k)', g # k,
               req'[k].op \in Openers
        PROVE  req'[g].token # req'[k].token
    <3>1. CASE k = h
      <4>1. req[g].token \in issued \cup {None}
        BY <1>3, <2>3, <3>1 DEF Meeting, TokensOK
      <4> QED BY <1>1, <1>2, <1>5, <1>7, <2>3, <3>1, <4>1
    <3>2. CASE g = h
      BY <1>1, <1>2, <1>3, <1>8, <2>3, <3>2
    <3>3. CASE g # h /\ k # h
      BY <1>1, <1>3, <2>3, <3>3 DEF Meeting, TokensOK
    <3> QED BY <3>1, <3>2, <3>3
  <2> QED BY <2>1, <2>2, <2>3 DEF TokensOK
<1>10. MeetOK'
  <2> SUFFICES ASSUME NEW g \in Handlers, NEW k \in Handlers, Busy(g)', Busy(k)', g # k, clean'[k]
               PROVE  Harmless(req'[k], req'[g])
    BY DEF MeetOK, Harmless
  <2>1. CASE k = h
    BY <1>1, <1>3, <2>1
  <2>2. CASE g = h
    <3>1. Harmless(q, req[k])
      BY <1>1, <1>3, <2>2
    <3> QED BY <1>1, <2>2, <3>1, HarmlessFacts
  <2>3. CASE g # h /\ k # h
    BY <1>1, <1>3, <2>3 DEF Meeting, MeetOK
  <2> QED BY <2>1, <2>2, <2>3
<1>11. Apart'
  <2> SUFFICES ASSUME NEW g \in Handlers, NEW k \in Handlers, Busy(g)', Busy(k)', g # k,
                      req'[k].token \in firm'
               PROVE  Harmless(req'[k], req'[g])
    BY DEF Apart, Harmless
  <2>1. CASE k = h
    <3>1. g \notin hurt
      BY <1>1, <1>2, <2>1
    <3> QED BY <1>1, <1>3, <2>1, <3>1
  <2>2. CASE g = h
    <3>1. k \notin hurt
      BY <1>1, <2>2
    <3>2. Harmless(q, req[k])
      BY <1>3, <2>2, <3>1
    <3> QED BY <1>1, <2>2, <3>2, HarmlessFacts
  <2>3. CASE g # h /\ k # h
    BY <1>1, <1>3, <1>4, <2>3 DEF Meeting, Apart
  <2> QED BY <2>1, <2>2, <2>3
<1>12. StaleOK'
  BY <1>1, <1>2, <1>3 DEF Meeting, StaleOK
<1> QED BY <1>9, <1>10, <1>11, <1>12 DEF Meeting

-----------------------------------------------------------------------------
(* Sessions that are over *)

\* Which statement is the last of an operation, and which comes before which.
InOrder(op, s) ==
  /\ Len(s) = 1 /\ op \in Openers => Head(s) \in {"writeMap", "setStatus"}
  /\ Len(s) = 1 /\ op = "logout" => Head(s) = "closeSession"
  /\ Len(s) = 1 /\ op \in Closers => Head(s) = "dropMap"
  /\ Head(s) = "dropMap" => Len(s) = 1
  /\ Head(s) = "setSession" => Len(s) # 1
  /\ Len(s) # 1 =>
       /\ Head(Tail(s)) \in {"writeMap", "closeSessions"} => Head(s) = "readMap"
       /\ Head(Tail(s)) = "setStatus" /\ op \in Openers => Head(s) = "writeMap"
       /\ Head(Tail(s)) = "dropStatus" => Head(s) = "closeSessions"
       /\ Head(Tail(s)) = "dropMap" => Head(s) = "dropStatus"

LEMMA LeftInOrder ==
  ASSUME NEW op, NEW s, Left(op, s)
  PROVE  InOrder(op, s)
<1>1. CASE op = "login" /\ s \in LoginLeft
  <2>1. CASE s = <<"readAccount", "setSession", "readMap", "writeMap">>
    BY <1>1, <2>1 DEF InOrder, Openers, Closers, Changes
  <2>2. CASE s = <<"setSession", "readMap", "writeMap">>
    BY <1>1, <2>2 DEF InOrder, Openers, Closers, Changes
  <2>3. CASE s = <<"readMap", "writeMap">>
    BY <1>1, <2>3 DEF InOrder, Openers, Closers, Changes
  <2>4. CASE s = <<"writeMap">>
    BY <1>1, <2>4 DEF InOrder, Openers, Closers, Changes
  <2> QED BY <1>1, <2>1, <2>2, <2>3, <2>4 DEF LoginLeft
<1>2. CASE op \in {"verify", "changeEmail"} /\ s \in VerifyLeft
  <2>1. CASE s = <<"readAccount", "confirm", "activate", "setSession", "readMap", "writeMap", "setStatus">>
    BY <1>2, <2>1 DEF InOrder, Openers, Closers, Changes
  <2>2. CASE s = <<"confirm", "activate", "setSession", "readMap", "writeMap", "setStatus">>
    BY <1>2, <2>2 DEF InOrder, Openers, Closers, Changes
  <2>3. CASE s = <<"activate", "setSession", "readMap", "writeMap", "setStatus">>
    BY <1>2, <2>3 DEF InOrder, Openers, Closers, Changes
  <2>4. CASE s = <<"setSession", "readMap", "writeMap", "setStatus">>
    BY <1>2, <2>4 DEF InOrder, Openers, Closers, Changes
  <2>5. CASE s = <<"readMap", "writeMap", "setStatus">>
    BY <1>2, <2>5 DEF InOrder, Openers, Closers, Changes
  <2>6. CASE s = <<"writeMap", "setStatus">>
    BY <1>2, <2>6 DEF InOrder, Openers, Closers, Changes
  <2>7. CASE s = <<"setStatus">>
    BY <1>2, <2>7 DEF InOrder, Openers, Closers, Changes
  <2> QED BY <1>2, <2>1, <2>2, <2>3, <2>4, <2>5, <2>6, <2>7 DEF VerifyLeft
<1>3. CASE op = "use" /\ s \in UseLeft
  <2>1. CASE s = <<"readSession", "readStatus", "setSession", "readMap", "writeMap">>
    BY <1>3, <2>1 DEF InOrder, Openers, Closers, Changes
  <2>2. CASE s = <<"readStatus", "setSession", "readMap", "writeMap">>
    BY <1>3, <2>2 DEF InOrder, Openers, Closers, Changes
  <2>3. CASE s = <<"setSession", "readMap", "writeMap">>
    BY <1>3, <2>3 DEF InOrder, Openers, Closers, Changes
  <2>4. CASE s = <<"readMap", "writeMap">>
    BY <1>3, <2>4 DEF InOrder, Openers, Closers, Changes
  <2>5. CASE s = <<"writeMap">>
    BY <1>3, <2>5 DEF InOrder, Openers, Closers, Changes
  <2> QED BY <1>3, <2>1, <2>2, <2>3, <2>4, <2>5 DEF UseLeft
<1>4. CASE op \in Closers /\ s \in EndLeft
  <2>1. CASE s = <<"readMap", "closeSessions", "dropStatus", "dropMap">>
    BY <1>4, <2>1 DEF InOrder, Openers, Closers, Changes
  <2>2. CASE s = <<"closeSessions", "dropStatus", "dropMap">>
    BY <1>4, <2>2 DEF InOrder, Openers, Closers, Changes
  <2>3. CASE s = <<"dropStatus", "dropMap">>
    BY <1>4, <2>3 DEF InOrder, Openers, Closers, Changes
  <2>4. CASE s = <<"dropMap">>
    BY <1>4, <2>4 DEF InOrder, Openers, Closers, Changes
  <2> QED BY <1>4, <2>1, <2>2, <2>3, <2>4 DEF EndLeft
<1>5. CASE op \in Changes /\ s \in ChangeLeft
  <2>1. CASE s = <<"readAccount", "writeAccount", "setStatus", "activate">>
    BY <1>5, <2>1 DEF InOrder, Openers, Closers, Changes
  <2>2. CASE s = <<"writeAccount", "setStatus", "activate">>
    BY <1>5, <2>2 DEF InOrder, Openers, Closers, Changes
  <2>3. CASE s = <<"setStatus", "activate">>
    BY <1>5, <2>3 DEF InOrder, Openers, Closers, Changes
  <2>4. CASE s = <<"activate">>
    BY <1>5, <2>4 DEF InOrder, Openers, Closers, Changes
  <2> QED BY <1>5, <2>1, <2>2, <2>3, <2>4 DEF ChangeLeft
<1>6. CASE op = "logout" /\ s = <<"closeSession">>
  BY <1>6 DEF InOrder, Openers, Closers, Changes
<1> QED BY <1>1, <1>2, <1>3, <1>4, <1>5, <1>6 DEF Left

\* Every map that is about to be written holds the firm sessions; a request that
\* opened one has put it there; one that ends them has closed those it has passed;
\* and nobody refreshes a session that is over for good.
MapRead(h) == At(h, "writeMap") => firm \subseteq Mapped(req[h])
Opened(h) == At(h, "setStatus") /\ req[h].op \in Openers /\ clean[h] => req[h].token \in tokenMap
Closing(h) ==
  Busy(h) /\ req[h].op \in Closers =>
    \A t \in firm \ {req[h].token} :
      /\ At(h, "closeSessions") => t \in req[h].map \/ session[t] = None
      /\ At(h, "dropStatus") \/ At(h, "dropMap") => session[t] = None
Refreshing(h) ==
  Busy(h) /\ req[h].op = "use" /\ ~At(h, "readSession") => req[h].token \notin ended \ loose

InHand(h) == MapRead(h) /\ Opened(h) /\ Closing(h) /\ Refreshing(h)

SessionInv ==
  /\ Typed /\ Meeting
  /\ firm \subseteq tokenMap /\ EndedStaysEnded
  /\ \A h \in Handlers : InHand(h)

LEMMA OthersInHand ==
  ASSUME SessionInv, NEW h \in Handlers, NEW q, Turn(h, q), NEW g \in Handlers, g # h,
         \A t \in Tokens : \/ session'[t] = session[t] \/ session'[t] = None
                           \/ At(h, "setSession") /\ t = req[h].token
  PROVE  InHand(g)'
<1>1. /\ todo'[g] = todo[g] /\ req'[g] = req[g] /\ clean' = clean /\ Busy(h)
      /\ MapRead(g) /\ Refreshing(g) /\ Closing(g)
  BY DEF Turn, Moves, SessionInv, InHand
<1>2. /\ Busy(g) => Fits(req[g], todo[g]) /\ Placed(req[g].op, todo[g])
      /\ Placed(req[h].op, todo[h]) /\ TurnHistory(h)
  BY <1>1, Serving, TurnEffects DEF SessionInv, Typed
<1>3. Busy(g) /\ clean[g] => req[g].op \notin Closers \cup {"verify", "changeEmail"}
  BY <1>1, HarmlessFacts DEF SessionInv, Meeting, MeetOK
<1>4. Busy(g) /\ clean[h] => Harmless(req[h], req[g])
  BY <1>1 DEF SessionInv, Meeting, MeetOK
<1>5. MapRead(g)'
  <2> SUFFICES ASSUME Busy(g), Head(todo[g]) = "writeMap" PROVE firm' \subseteq Mapped(req[g])
    BY <1>1 DEF MapRead, At, Busy, Mapped
  <2>1. firm \subseteq Mapped(req[g])
    BY <1>1 DEF MapRead, At
  <2>2. req[g].op \in Openers \cup {"use"}
    BY <1>2 DEF Placed
  <2>3. ~(clean[h] /\ req[h].op \in Openers)
    BY <1>4, <2>2, HarmlessFacts
  <2> QED BY <1>2, <2>1, <2>3 DEF TurnHistory
<1>6. Opened(g)'
  <2>1. Busy(g) /\ Head(todo[g]) = "setStatus" /\ req[g].op \in Openers => ~clean[g]
    BY <1>2, <1>3 DEF Placed, Openers, Changes
  <2> QED BY <1>1, <2>1 DEF Opened, At, Busy
<1>7. Closing(g)'
  <2> SUFFICES ASSUME Busy(g), req[g].op \in Closers, NEW t \in firm' \ {req[g].token}
               PROVE  /\ At(g, "closeSessions") => t \in req[g].map \/ session'[t] = None
                      /\ At(g, "dropStatus") \/ At(g, "dropMap") => session'[t] = None
    BY <1>1 DEF Closing, At, Busy
  <2>1. ~Harmless(req[h], req[g])
    BY HarmlessFacts
  <2>2. t \in firm /\ t \in Tokens
    BY <1>2, <1>4, <2>1 DEF TurnHistory, SessionInv, Typed, HistoryOK
  <2>3. req[h].token \notin firm
    BY <1>1, <2>1 DEF SessionInv, Meeting, Apart
  <2>4. session'[t] = session[t] \/ session'[t] = None
    BY <2>2, <2>3
  <2> QED BY <1>1, <2>2, <2>4 DEF Closing
<1>8. Refreshing(g)'
  <2> SUFFICES ASSUME Busy(g), req[g].op = "use", Head(todo[g]) # "readSession",
                      req[g].token \in ended', req[g].token \notin loose'
               PROVE  FALSE
    BY <1>1 DEF Refreshing, At, Busy
  <2>1. req[g].token \notin ended \ loose
    BY <1>1 DEF Refreshing, At
  <2>2. clean[h] => req[h].op \notin Closers /\ (req[h].op = "logout" => req[h].token # req[g].token)
    BY <1>4, HarmlessFacts
  <2>3. req[h].op \in Closers => req[g].token \notin firm
    BY <1>1, HarmlessFacts DEF SessionInv, Meeting, Apart
  <2>4. req[g].token \in loose => req[g].token \in loose'
    BY <1>2, <2>2 DEF TurnHistory
  <2>5. req[g].token \notin ended
    BY <2>1, <2>4
  <2>6. req[h].op = "logout" => ~(ended' = ended \cup {req[h].token})
                                \/ ~(clean[h] \/ req[h].token \in loose')
    BY <2>2, <2>5
  <2> QED BY <1>2, <2>2, <2>3, <2>4, <2>5, <2>6 DEF TurnHistory
<1> QED BY <1>5, <1>6, <1>7, <1>8 DEF InHand

LEMMA OwnInHand ==
  ASSUME SessionInv, NEW h \in Handlers, NEW q, Turn(h, q), Busy(h)',
         Len(todo[h]) # 1, todo'[h] = Tail(todo[h]),
         At(h, "readMap") => q.map = tokenMap,
         At(h, "writeMap") => tokenMap' = Mapped(req[h]),
         At(h, "closeSessions") => req[h].map \subseteq {req[h].token},
         At(h, "closeSessions") \/ At(h, "dropStatus") => session' = session,
         At(h, "readSession") => session[q.token] # None
  PROVE  InHand(h)'
<1>1. /\ req'[h] = q /\ q.op = req[h].op /\ q.token = req[h].token /\ clean' = clean
      /\ UNCHANGED <<firm, loose, ended>> /\ Busy(h)
  BY TurnEffects DEF Turn, Moves, Busy, SessionInv
<1>2. Placed(req[h].op, todo[h]) /\ InOrder(req[h].op, todo[h]) /\ InHand(h)
  BY <1>1, Serving, LeftInOrder DEF SessionInv, Typed, Fits
<1>3. \A s : At(h, s)' <=> Head(Tail(todo[h])) = s
  BY <1>1 DEF At, Busy
<1>4. MapRead(h)'
  BY <1>1, <1>2, <1>3 DEF MapRead, Mapped, InOrder, At, SessionInv
<1>5. Opened(h)'
  BY <1>1, <1>2, <1>3 DEF Opened, Mapped, InOrder, At
<1>6. Closing(h)'
  <2> SUFFICES ASSUME req[h].op \in Closers, NEW t \in firm \ {req[h].token}
               PROVE  /\ At(h, "closeSessions")' => t \in q.map \/ session'[t] = None
                      /\ At(h, "dropStatus")' \/ At(h, "dropMap")' => session'[t] = None
    BY <1>1 DEF Closing
  <2>1. At(h, "closeSessions")' => t \in q.map
    BY <1>1, <1>2, <1>3 DEF InOrder, At, SessionInv
  <2>2. At(h, "dropStatus")' => session'[t] = None
    <3>1. At(h, "dropStatus")' => At(h, "closeSessions")
      BY <1>1, <1>2, <1>3 DEF InOrder, At
    <3> QED BY <1>1, <1>2, <3>1 DEF InHand, Closing
  <2>3. At(h, "dropMap")' => session'[t] = None
    <3>1. At(h, "dropMap")' => At(h, "dropStatus")
      BY <1>1, <1>2, <1>3 DEF InOrder, At
    <3> QED BY <1>1, <1>2, <3>1 DEF InHand, Closing
  <2> QED BY <2>1, <2>2, <2>3
<1>7. Refreshing(h)'
  BY <1>1, <1>2 DEF Refreshing, InHand, At, SessionInv, EndedStaysEnded
<1> QED BY <1>4, <1>5, <1>6, <1>7 DEF InHand

LEMMA IdleInHand ==
  ASSUME NEW h, todo'[h] = <<>>
  PROVE  InHand(h)'
BY DEF InHand, MapRead, Opened, Closing, Refreshing, At, Busy

\* What a statement may do to the sessions and to the map.
Effects(h, q) ==
  /\ q.op = req[h].op /\ q.token = req[h].token
  /\ At(h, "readMap") => q.map = tokenMap
  /\ tokenMap' = IF At(h, "writeMap") THEN Mapped(req[h])
                  ELSE IF At(h, "dropMap") THEN {} ELSE tokenMap
  /\ At(h, "closeSessions") => req[h].map \subseteq {req[h].token}
  /\ At(h, "closeSessions") \/ At(h, "dropStatus") \/ At(h, "dropMap") => session' = session
  /\ At(h, "readSession") /\ Busy(h)' => session[q.token] # None
  /\ At(h, "closeSession") => session'[req[h].token] = None
  /\ \A t \in Tokens : \/ session'[t] = session[t] \/ session'[t] = None
                       \/ At(h, "setSession") /\ t = req[h].token

LEMMA StatementSession ==
  ASSUME SessionInv, Typed', NEW h \in Handlers, Busy(h), NEW q, Effects(h, q),
         Advance(h, q) \/ (Leave(h) /\ ~At(h, "dropMap")), issued' = issued
  PROVE  SessionInv'
<1>1. q.op = req[h].op /\ q.token = req[h].token /\ clean' = clean
  BY DEF Effects, Advance, Complete, Leave
<1>2. Turn(h, q)
  BY <1>1, AdvanceTurn DEF SessionInv
<1>3. Meeting'
  BY <1>2, TurnMeeting DEF SessionInv
<1>4. \/ todo'[h] = <<>>
      \/ Busy(h)' /\ Len(todo[h]) # 1 /\ todo'[h] = Tail(todo[h])
  <2>1. CASE Leave(h) \/ Len(todo[h]) = 1
    BY <2>1, <1>2 DEF Turn, Leave, Advance, Complete, SessionInv, Typed, HandlersOK
  <2>2. CASE Advance(h, q) /\ Len(todo[h]) # 1
    <3>1. todo' = [todo EXCEPT ![h] = Tail(@)] /\ todo = [g \in Handlers |-> todo[g]]
      BY <2>2 DEF Advance, SessionInv, Typed, HandlersOK
    <3> QED BY <2>2, <3>1 DEF Busy
  <2> QED BY <2>1, <2>2
<1>5. InHand(h)'
  BY <1>2, <1>4, OwnInHand, IdleInHand DEF Effects, At
<1>6. \A g \in Handlers : InHand(g)'
  BY <1>2, <1>5, OthersInHand DEF Effects
<1>7. /\ Fits(req[h], todo[h]) /\ Placed(req[h].op, todo[h]) /\ InOrder(req[h].op, todo[h])
      /\ InHand(h) /\ TokensOK
  BY Serving, LeftInOrder DEF SessionInv, Typed, Fits, Meeting
<1>8. TurnHistory(h) /\ (Busy(h)' => UNCHANGED <<firm, loose, ended>>)
  BY <1>2, TurnEffects DEF SessionInv
<1>9. firm' # firm \/ loose' # loose \/ ended' # ended => Len(todo[h]) = 1
  BY <1>2 DEF Turn
<1>10. firm' \subseteq tokenMap'
  <2>1. CASE At(h, "writeMap")
    <3>1. tokenMap' = Mapped(req[h]) /\ firm \subseteq Mapped(req[h]) /\ req[h].token \in Mapped(req[h])
      BY <1>7, <2>1 DEF Effects, InHand, MapRead, Mapped
    <3> QED BY <1>8, <3>1 DEF TurnHistory
  <2>2. CASE At(h, "dropMap")
    <3>1. Len(todo[h]) = 1 /\ req[h].op \in Closers
      BY <1>7, <2>2 DEF InOrder, Placed, At
    <3>2. firm' = {}
      BY <2>2, <3>1 DEF Advance, Complete, Openers, Closers
    <3> QED BY <3>2
  <2>3. CASE ~At(h, "writeMap") /\ ~At(h, "dropMap")
    <3>1. tokenMap' = tokenMap
      BY <2>3 DEF Effects
    <3>2. CASE firm' \subseteq firm
      BY <3>1, <3>2 DEF SessionInv
    <3>3. CASE clean[h] /\ req[h].op \in Openers /\ firm' = firm \cup {req[h].token} /\ firm' # firm
      <4>1. At(h, "setStatus")
        BY <1>7, <1>9, <2>3, <3>3 DEF InOrder, At
      <4> QED BY <1>7, <3>1, <3>3, <4>1 DEF InHand, Opened, SessionInv
    <3> QED BY <1>8, <3>2, <3>3 DEF TurnHistory
  <2> QED BY <2>1, <2>2, <2>3
<1>11. EndedStaysEnded'
  <2>1. ASSUME NEW t \in ended \ loose PROVE session'[t] = None
    <3>1. session[t] = None /\ t \in Tokens
      BY DEF SessionInv, EndedStaysEnded, Typed, HistoryOK
    <3>2. At(h, "setSession") => req[h].token # t
      BY <1>7 DEF At, Placed, TokensOK, InHand, Refreshing
    <3> QED BY <3>1, <3>2 DEF Effects
  <2>2. req[h].op = "logout" /\ Len(todo[h]) = 1 => session'[req[h].token] = None
    <3>1. req[h].op = "logout" /\ Len(todo[h]) = 1 => At(h, "closeSession")
      BY <1>7 DEF InOrder, At
    <3> QED BY <3>1 DEF Effects
  <2>3. ASSUME NEW t \in loose, t \notin loose' PROVE session'[t] = None
    <3>1. req[h].op = "logout" /\ t = req[h].token /\ Len(todo[h]) = 1
      BY <1>8, <1>9, <2>3 DEF TurnHistory
    <3> QED BY <2>2, <3>1
  <2>4. ASSUME NEW t \in ended', t \notin ended \cup loose PROVE session'[t] = None
    <3>1. Len(todo[h]) = 1
      BY <1>9, <2>4
    <3>2. CASE req[h].op = "logout"
      <4>1. t = req[h].token
        BY <1>8, <2>4, <3>2 DEF TurnHistory, Closers
      <4> QED BY <2>2, <3>1, <3>2, <4>1
    <3>3. CASE req[h].op \in Closers
      <4>1. t \in firm \ {req[h].token}
        BY <1>8, <2>4, <3>3 DEF TurnHistory, Closers
      <4>2. At(h, "dropMap")
        BY <1>7, <3>1, <3>3 DEF InOrder, At
      <4>3. session[t] = None /\ session' = session
        BY <1>7, <3>1, <3>3, <4>1, <4>2 DEF InHand, Closing, Effects
      <4> QED BY <4>3
    <3> QED BY <1>8, <2>4, <3>2, <3>3 DEF TurnHistory
  <2> QED BY <2>1, <2>3, <2>4 DEF EndedStaysEnded
<1> QED BY <1>3, <1>6, <1>10, <1>11 DEF SessionInv

\* The statements that change neither the sessions nor the map.
LEMMA NoEffectSession ==
  ASSUME SessionInv, Typed', NEW h \in Handlers, Busy(h), NEW q,
         q.op = req[h].op, q.token = req[h].token, At(h, "readMap") => q.map = tokenMap,
         ~At(h, "writeMap"), ~At(h, "dropMap"), ~At(h, "closeSession"),
         At(h, "closeSessions") => req[h].map \subseteq {req[h].token},
         At(h, "readSession") /\ Busy(h)' => session[q.token] # None,
         Advance(h, q) \/ Leave(h), UNCHANGED <<session, tokenMap, issued>>
  PROVE  SessionInv'
<1>1. Effects(h, q)
  BY DEF Effects
<1> QED BY <1>1, StatementSession

LEMMA ReadingSession ==
  ASSUME SessionInv, Typed', NEW h \in Handlers,
         ReadAccount(h) \/ ReadMap(h) \/ ReadSession(h) \/ ReadStatus(h)
  PROVE  SessionInv'
<1>1. Busy(h) /\ req[h] \in Requests
  BY Serving DEF ReadAccount, ReadMap, ReadSession, ReadStatus, At, SessionInv, Typed
<1>2. CASE ReadAccount(h)
  <2> DEFINE q == [req[h] EXCEPT !.info = account, !.unranked = req[h].op \in Changes /\ points = 0]
  <2>1. q.op = req[h].op /\ q.token = req[h].token
    BY <1>1 DEF Requests
  <2>2. At(h, "readAccount") /\ (Advance(h, q) \/ Leave(h)) /\ UNCHANGED <<session, tokenMap, issued>>
    BY <1>2 DEF ReadAccount, cache
  <2> HIDE DEF q
  <2> QED BY <1>1, <2>1, <2>2, NoEffectSession DEF At
<1>3. CASE ReadMap(h)
  <2> DEFINE q == [req[h] EXCEPT !.map = tokenMap]
  <2>1. q.op = req[h].op /\ q.token = req[h].token /\ q.map = tokenMap
    BY <1>1 DEF Requests
  <2>2. At(h, "readMap") /\ Advance(h, q) /\ UNCHANGED <<session, tokenMap, issued>>
    BY <1>3 DEF ReadMap, cache
  <2> HIDE DEF q
  <2> QED BY <1>1, <2>1, <2>2, NoEffectSession DEF At
<1>4. CASE ReadSession(h) /\ session[req[h].token] = None
  <2>1. At(h, "readSession") /\ Leave(h) /\ UNCHANGED <<session, tokenMap, issued>>
    BY <1>4 DEF ReadSession, cache
  <2>2. ~Busy(h)'
    BY <2>1 DEF Leave, Busy, SessionInv, Typed, HandlersOK
  <2> QED BY <1>1, <2>1, <2>2, NoEffectSession DEF At
<1>5. CASE ReadSession(h) /\ session[req[h].token] # None
  <2> DEFINE q == [req[h] EXCEPT !.info = session[req[h].token]]
  <2>1. q.op = req[h].op /\ q.token = req[h].token
    BY <1>1 DEF Requests
  <2>2. At(h, "readSession") /\ Advance(h, q) /\ UNCHANGED <<session, tokenMap, issued>>
    BY <1>5 DEF ReadSession, cache
  <2> HIDE DEF q
  <2> QED BY <1>1, <1>5, <2>1, <2>2, NoEffectSession DEF At
<1>6. CASE ReadStatus(h)
  <2> DEFINE q == [req[h] EXCEPT !.info = statusKey]
  <2>1. q.op = req[h].op /\ q.token = req[h].token
    BY <1>1 DEF Requests
  <2>2. At(h, "readStatus") /\ (Advance(h, q) \/ Leave(h)) /\ UNCHANGED <<session, tokenMap, issued>>
    BY <1>6 DEF ReadStatus, cache
  <2> HIDE DEF q
  <2> QED BY <1>1, <2>1, <2>2, NoEffectSession DEF At
<1> QED BY <1>2, <1>3, <1>4, <1>5, <1>6

LEMMA RowSession ==
  ASSUME SessionInv, Typed', NEW h \in Handlers,
         Confirm(h) \/ WriteAccount(h) \/ Activate(h) \/ SetStatus(h) \/ DropStatus(h) \/ Fail(h)
  PROVE  SessionInv'
<1>1. /\ Busy(h) /\ Head(todo[h]) \in {"readAccount", "confirm", "writeAccount", "activate", "setStatus", "dropStatus"}
      /\ Advance(h, req[h]) \/ Leave(h)
      /\ UNCHANGED <<session, tokenMap, issued>>
      /\ Head(todo[h]) = "readAccount" => Leave(h)
  BY DEF Confirm, WriteAccount, Activate, SetStatus, DropStatus, Fail, At, cache
<1> QED BY <1>1, NoEffectSession DEF At

LEMMA CacheSession ==
  ASSUME SessionInv, Typed', NEW h \in Handlers,
         SetSession(h) \/ WriteMap(h) \/ CloseSession(h) \/ DropMap(h)
  PROVE  SessionInv'
<1>1. Busy(h) /\ issued' = issued /\ Advance(h, req[h]) /\ session \in [Tokens -> Infos \cup {None}]
  BY DEF SetSession, WriteMap, CloseSession, DropMap, At, SessionInv, Typed, TablesOK
<1>2. Placed(req[h].op, todo[h]) /\ Fits(req[h], todo[h])
  BY <1>1, Serving DEF SessionInv, Typed
<1>3. Effects(h, req[h])
  <2>1. CASE SetSession(h)
    BY <1>1, <2>1 DEF Effects, SetSession, At
  <2>2. CASE WriteMap(h)
    BY <1>1, <2>2 DEF Effects, WriteMap, At
  <2>3. CASE CloseSession(h)
    <3>1. req[h].op = "logout"
      BY <1>2, <2>3 DEF Placed, CloseSession, At
    <3>2. req[h].token \in Tokens
      BY <1>2, <3>1 DEF Fits, SessionInv, Typed, HistoryOK
    <3> QED BY <1>1, <2>3, <3>2 DEF Effects, CloseSession, At
  <2>4. CASE DropMap(h)
    BY <1>1, <2>4 DEF Effects, DropMap, At
  <2> QED BY <2>1, <2>2, <2>3, <2>4
<1> QED BY <1>1, <1>3, StatementSession

LEMMA CloseSessionsSession ==
  ASSUME SessionInv, Typed', NEW h \in Handlers, CloseSessions(h)
  PROVE  SessionInv'
<1>1. /\ Busy(h) /\ Head(todo[h]) = "closeSessions" /\ issued' = issued /\ tokenMap' = tokenMap
      /\ req[h] \in Requests /\ session \in [Tokens -> Infos \cup {None}]
  BY Serving DEF CloseSessions, At, SessionInv, Typed, TablesOK
<1>2. CASE req[h].map \ {req[h].token} = {} /\ Advance(h, req[h]) /\ UNCHANGED session
  BY <1>1, <1>2, NoEffectSession DEF At
<1>3. ASSUME NEW t \in req[h].map \ {req[h].token}, session' = [session EXCEPT ![t] = None],
             req' = [req EXCEPT ![h].map = req[h].map \ {t}],
             UNCHANGED <<todo, clean, firm, loose, ended, keyStale>>
      PROVE  SessionInv'
  <2> DEFINE q == [req[h] EXCEPT !.map = req[h].map \ {t}]
  <2>1. /\ q.op = req[h].op /\ q.token = req[h].token /\ q.map = req[h].map \ {t}
        /\ req' = [req EXCEPT ![h] = q]
    BY <1>1, <1>3 DEF Requests
  <2> HIDE DEF q
  <2>2. req'[h] = q /\ Moves(h, q)
    BY <1>3, <2>1 DEF Moves, SessionInv, Typed, HandlersOK
  <2>3. Turn(h, q)
    BY <1>1, <1>3, <2>1, <2>2 DEF Turn
  <2>4. Meeting'
    BY <2>3, TurnMeeting DEF SessionInv
  <2>5. InHand(h)'
    <3>1. Closing(h)'
      <4> SUFFICES ASSUME req[h].op \in Closers, NEW x \in firm \ {req[h].token}
                   PROVE  x \in q.map \/ session'[x] = None
        BY <1>1, <1>3, <2>1, <2>2 DEF Closing, At, Busy
      <4>1. (x \in req[h].map \/ session[x] = None) /\ x \in Tokens
        BY <1>1 DEF SessionInv, InHand, Closing, At, Typed, HistoryOK
      <4> QED BY <1>1, <1>3, <2>1, <4>1
    <3>2. Refreshing(h)'
      BY <1>1, <1>3, <2>1, <2>2 DEF Refreshing, At, Busy, SessionInv, InHand
    <3> QED BY <1>1, <1>3, <3>1, <3>2 DEF InHand, MapRead, Opened, At, Busy
  <2>6. \A g \in Handlers : InHand(g)'
    BY <1>1, <1>3, <2>3, <2>5, OthersInHand
  <2>7. EndedStaysEnded'
    BY <1>1, <1>3 DEF SessionInv, EndedStaysEnded, Typed, HistoryOK
  <2> QED BY <1>1, <1>3, <2>4, <2>6, <2>7 DEF SessionInv
<1> QED BY <1>2, <1>3 DEF CloseSessions

LEMMA ReceiveSession ==
  ASSUME SessionInv, Typed', NEW h \in Handlers, NEW op \in Operations, NEW t \in Tokens \cup {None},
         Receive(h, op, t)
  PROVE  SessionInv'
<1>1. /\ todo'[h] = Program(op) /\ req'[h].op = op /\ UNCHANGED <<session, tokenMap, ended>>
      /\ \A g \in Handlers \ {h} : req'[g] = req[g] /\ todo'[g] = todo[g] /\ (clean'[g] => clean[g])
      /\ firm' \subseteq firm /\ loose \subseteq loose'
  BY DEF Receive, cache, SessionInv, Typed, HandlersOK, HistoryOK
<1>2. Meeting'
  BY ReceiveMeeting DEF SessionInv
<1>3. /\ Program(op) # <<>>
      /\ Head(Program(op)) \in {"readAccount", "readSession", "closeSession", "readMap"}
      /\ op = "use" => Head(Program(op)) = "readSession"
  BY SessionAssumption DEF Program, AllOperations, Openers, Closers, Changes, LoginUser, VerifyEmail,
     GetUserCacheInfo, RemoveUserTokens, UpdateUserStatus
<1>4. InHand(h)'
  BY <1>1, <1>3 DEF InHand, MapRead, Opened, Closing, Refreshing, At, Busy
<1>5. ASSUME NEW g \in Handlers \ {h} PROVE InHand(g)'
  <2>1. InHand(g)
    BY DEF SessionInv
  <2> QED BY <1>1, <2>1 DEF InHand, MapRead, Opened, Closing, Refreshing, At, Busy, Mapped
<1> QED BY <1>1, <1>2, <1>4, <1>5 DEF SessionInv, EndedStaysEnded

LEMMA FileSession ==
  ASSUME SessionInv, Typed', Save \/ Crash \/ UNCHANGED vars
  PROVE  SessionInv'
<1>1. CASE Crash
  <2>1. \A h \in Handlers : todo'[h] = <<>>
    BY <1>1 DEF Crash
  <2>2. firm' \subseteq tokenMap'
    BY <1>1 DEF Crash, Cached, SessionInv
  <2>3. EndedStaysEnded'
    BY <1>1 DEF Crash, EndedStaysEnded
  <2>4. Meeting'
    BY <2>1 DEF Meeting, TokensOK, MeetOK, Apart, StaleOK, Busy
  <2> QED BY <2>1, <2>2, <2>3, <2>4, IdleInHand DEF SessionInv
<1>2. CASE Save \/ UNCHANGED vars
  <2>1. UNCHANGED <<session, tokenMap, issued, todo, req, clean, firm, loose, ended, keyStale>>
    BY <1>2 DEF Save, vars, cache, history
  <2> QED BY <2>1 DEF SessionInv, Meeting, TokensOK, MeetOK, Apart, StaleOK, Busy, Harmless,
       EndedStaysEnded, InHand, MapRead, Opened, Closing, Refreshing, At, Mapped
<1> QED BY <1>1, <1>2

LEMMA InitSession == Init => SessionInv
<1> SUFFICES ASSUME Init PROVE SessionInv
  OBVIOUS
<1>1. \A h \in Handlers : todo[h] = <<>>
  BY DEF Init
<1>2. Meeting /\ \A h \in Handlers : InHand(h)
  BY <1>1 DEF Meeting, TokensOK, MeetOK, Apart, StaleOK, Busy, InHand, MapRead, Opened, Closing,
     Refreshing, At
<1> QED BY <1>2, InitTyped DEF Init, SessionInv, EndedStaysEnded

LEMMA NextSession == SessionInv /\ [Next]_vars => SessionInv'
<1> SUFFICES ASSUME SessionInv, [Next]_vars PROVE SessionInv'
  OBVIOUS
<1>1. Typed'
  BY NextTyped DEF SessionInv
<1>2. ASSUME NEW h \in Handlers, Step(h) PROVE SessionInv'
  BY <1>1, <1>2, ReadingSession, RowSession, CacheSession, CloseSessionsSession DEF Step
<1> QED BY <1>1, <1>2, ReceiveSession, RowSession, FileSession DEF Next

\* "When the user changes the password, all the current user's tokens are
\* invalid" (UpdatePasswordWhenForgot, RemoveUserTokens): for any number of tokens,
\* handlers and requests, and whatever overlaps, RemoveUserTokens closes every
\* session that no change of password spared before and no conflicting request
\* met, and it stays closed.
THEOREM SessionsStayEnded == Spec => []EndedStaysEnded
<1>1. SessionInv => EndedStaysEnded
  BY DEF SessionInv
<1> QED BY InitSession, NextSession, <1>1, PTL DEF Spec

-----------------------------------------------------------------------------
(* Who may be let in *)

\* Whoever status i would let in, the row lets in as well.
Trusted(i) == Accepted(i) => Accepted(account)

\* A change of status is in the row and not yet in the key.
Midway == \E h \in Handlers : At(h, "setStatus") /\ req[h].op \in Changes

\* The key is dropped and the sessions are closed, but not yet forgotten.
Dropping == \E h \in Handlers : At(h, "dropMap")

\* The key was written by requests that met no other writer of it.
Decided == ~keyStale /\ ~Midway

\* What a clean request that writes the key has made of the row and of the key.
WriterOK(h) ==
  Busy(h) /\ clean[h] =>
    /\ req[h].op \in Changes /\ Head(todo[h]) = "setStatus" => account = Written(req[h])
    /\ req[h].op \in Changes /\ Head(todo[h]) = "activate" => statusKey = account
    /\ Head(todo[h]) = "dropMap" => statusKey = None
    /\ req[h].op \in {"verify", "changeEmail"} =>
         /\ Head(todo[h]) = "confirm" => account = req[h].info
         /\ Head(todo[h]) \in {"activate", "setSession", "readMap", "writeMap", "setStatus"} =>
              account.mail = "available" /\ account.status = req[h].info.status

\* A session that is about to be refreshed from the key has the key over it.
RefreshOK(h) ==
  At(h, "setSession") /\ req[h].op = "use" /\ req[h].token \in firm => statusKey # None

\* A login that is clean opens, where no key is over it, a session to be trusted.
LoginOK(h) ==
  Busy(h) /\ clean[h] /\ req[h].op = "login" /\ Decided /\ statusKey = None =>
    /\ Head(todo[h]) = "setSession" => Trusted(req[h].info)
    /\ Head(todo[h]) \in {"readMap", "writeMap"} /\ session[req[h].token] # None =>
         Trusted(session[req[h].token])

KeyOK(h) == WriterOK(h) /\ RefreshOK(h) /\ LoginOK(h)

KeyTrusted == Decided /\ statusKey # None => Trusted(statusKey)

SessionsTrusted ==
  Decided /\ statusKey = None /\ ~Dropping =>
    \A t \in firm : session[t] # None => Trusted(session[t])

KeyInv == (\A h \in Handlers : KeyOK(h)) /\ KeyTrusted /\ SessionsTrusted

RefuseInv == SessionInv /\ KeyInv

\* Which statements of an operation come next to each other.
NextTo(op, s) ==
  /\ Len(s) = 1 =>
       /\ op \in {"verify", "changeEmail"} => Head(s) = "setStatus"
       /\ op \in Changes => Head(s) = "activate"
       /\ op = "login" => Head(s) = "writeMap"
  /\ Len(s) # 1 =>
       /\ op \in Changes =>
            /\ Head(Tail(s)) = "setStatus" => Head(s) = "writeAccount"
            /\ Head(Tail(s)) = "activate" => Head(s) = "setStatus"
       /\ op \in {"verify", "changeEmail"} =>
            /\ Head(Tail(s)) = "confirm" => Head(s) = "readAccount"
            /\ Head(Tail(s)) = "activate" => Head(s) = "confirm"
            /\ Head(Tail(s)) \in {"setSession", "readMap", "writeMap", "setStatus"} =>
                 Head(s) \in {"activate", "setSession", "readMap", "writeMap"}
       /\ op = "login" =>
            /\ Head(Tail(s)) = "setSession" => Head(s) = "readAccount"
            /\ Head(Tail(s)) = "readMap" => Head(s) = "setSession"
            /\ Head(Tail(s)) = "writeMap" => Head(s) = "readMap"
       /\ op = "use" /\ Head(Tail(s)) = "setSession" => Head(s) = "readStatus"
       /\ Head(Tail(s)) = "dropMap" => op \in Closers /\ Head(s) = "dropStatus"
       /\ op \in Closers /\ Head(s) = "dropStatus" => Head(Tail(s)) = "dropMap"
  /\ op \in Closers /\ Head(s) = "dropStatus" => Len(s) # 1

LEMMA LeftNextTo ==
  ASSUME NEW op, NEW s, Left(op, s)
  PROVE  NextTo(op, s)
<1>1. CASE op = "login" /\ s \in LoginLeft
  <2>1. CASE s = <<"readAccount", "setSession", "readMap", "writeMap">>
    BY <1>1, <2>1 DEF NextTo, Openers, Closers, Changes
  <2>2. CASE s = <<"setSession", "readMap", "writeMap">>
    BY <1>1, <2>2 DEF NextTo, Openers, Closers, Changes
  <2>3. CASE s = <<"readMap", "writeMap">>
    BY <1>1, <2>3 DEF NextTo, Openers, Closers, Changes
  <2>4. CASE s = <<"writeMap">>
    BY <1>1, <2>4 DEF NextTo, Openers, Closers, Changes
  <2> QED BY <1>1, <2>1, <2>2, <2>3, <2>4 DEF LoginLeft
<1>2. CASE op \in {"verify", "changeEmail"} /\ s \in VerifyLeft
  <2>1. CASE s = <<"readAccount", "confirm", "activate", "setSession", "readMap", "writeMap", "setStatus">>
    BY <1>2, <2>1 DEF NextTo, Openers, Closers, Changes
  <2>2. CASE s = <<"confirm", "activate", "setSession", "readMap", "writeMap", "setStatus">>
    BY <1>2, <2>2 DEF NextTo, Openers, Closers, Changes
  <2>3. CASE s = <<"activate", "setSession", "readMap", "writeMap", "setStatus">>
    BY <1>2, <2>3 DEF NextTo, Openers, Closers, Changes
  <2>4. CASE s = <<"setSession", "readMap", "writeMap", "setStatus">>
    BY <1>2, <2>4 DEF NextTo, Openers, Closers, Changes
  <2>5. CASE s = <<"readMap", "writeMap", "setStatus">>
    BY <1>2, <2>5 DEF NextTo, Openers, Closers, Changes
  <2>6. CASE s = <<"writeMap", "setStatus">>
    BY <1>2, <2>6 DEF NextTo, Openers, Closers, Changes
  <2>7. CASE s = <<"setStatus">>
    BY <1>2, <2>7 DEF NextTo, Openers, Closers, Changes
  <2> QED BY <1>2, <2>1, <2>2, <2>3, <2>4, <2>5, <2>6, <2>7 DEF VerifyLeft
<1>3. CASE op = "use" /\ s \in UseLeft
  <2>1. CASE s = <<"readSession", "readStatus", "setSession", "readMap", "writeMap">>
    BY <1>3, <2>1 DEF NextTo, Openers, Closers, Changes
  <2>2. CASE s = <<"readStatus", "setSession", "readMap", "writeMap">>
    BY <1>3, <2>2 DEF NextTo, Openers, Closers, Changes
  <2>3. CASE s = <<"setSession", "readMap", "writeMap">>
    BY <1>3, <2>3 DEF NextTo, Openers, Closers, Changes
  <2>4. CASE s = <<"readMap", "writeMap">>
    BY <1>3, <2>4 DEF NextTo, Openers, Closers, Changes
  <2>5. CASE s = <<"writeMap">>
    BY <1>3, <2>5 DEF NextTo, Openers, Closers, Changes
  <2> QED BY <1>3, <2>1, <2>2, <2>3, <2>4, <2>5 DEF UseLeft
<1>4. CASE op \in Closers /\ s \in EndLeft
  <2>1. CASE s = <<"readMap", "closeSessions", "dropStatus", "dropMap">>
    BY <1>4, <2>1 DEF NextTo, Openers, Closers, Changes
  <2>2. CASE s = <<"closeSessions", "dropStatus", "dropMap">>
    BY <1>4, <2>2 DEF NextTo, Openers, Closers, Changes
  <2>3. CASE s = <<"dropStatus", "dropMap">>
    BY <1>4, <2>3 DEF NextTo, Openers, Closers, Changes
  <2>4. CASE s = <<"dropMap">>
    BY <1>4, <2>4 DEF NextTo, Openers, Closers, Changes
  <2> QED BY <1>4, <2>1, <2>2, <2>3, <2>4 DEF EndLeft
<1>5. CASE op \in Changes /\ s \in ChangeLeft
  <2>1. CASE s = <<"readAccount", "writeAccount", "setStatus", "activate">>
    BY <1>5, <2>1 DEF NextTo, Openers, Closers, Changes
  <2>2. CASE s = <<"writeAccount", "setStatus", "activate">>
    BY <1>5, <2>2 DEF NextTo, Openers, Closers, Changes
  <2>3. CASE s = <<"setStatus", "activate">>
    BY <1>5, <2>3 DEF NextTo, Openers, Closers, Changes
  <2>4. CASE s = <<"activate">>
    BY <1>5, <2>4 DEF NextTo, Openers, Closers, Changes
  <2> QED BY <1>5, <2>1, <2>2, <2>3, <2>4 DEF ChangeLeft
<1>6. CASE op = "logout" /\ s = <<"closeSession">>
  BY <1>6 DEF NextTo, Openers, Closers, Changes
<1> QED BY <1>1, <1>2, <1>3, <1>4, <1>5, <1>6 DEF Left

\* What a statement may do to the row, to the key, and to what it has read.
KeyEffects(h, q) ==
  /\ \/ account' = account
     \/ At(h, "confirm") /\ account' = [account EXCEPT !.mail = "available"]
     \/ At(h, "writeAccount") /\ Busy(h)' /\ account' = Written(req[h])
  /\ At(h, "confirm") /\ Busy(h)' =>
       \/ account' = [account EXCEPT !.mail = "available"]
       \/ account' = account /\ req[h].op = "verify" /\ req[h].info.mail = "available"
  /\ At(h, "writeAccount") /\ Busy(h)' => account' = Written(req[h])
  /\ At(h, "readAccount") /\ Busy(h)' => q.info = account
  /\ ~At(h, "readAccount") /\ ~At(h, "readSession") /\ ~At(h, "readStatus") => q.info = req[h].info
  /\ At(h, "readStatus") /\ Busy(h)' => statusKey # None
  /\ statusKey' = IF At(h, "setStatus") THEN Written(req[h])
                  ELSE IF At(h, "dropStatus") THEN None ELSE statusKey
  /\ At(h, "dropStatus") => Busy(h)'
  /\ At(h, "dropMap") => Complete(h)
  /\ At(h, "setSession") => session'[req[h].token] = Written(req[h])
  /\ Busy(h)' /\ todo'[h] = todo[h] => At(h, "closeSessions")
  /\ \A t \in Tokens : \/ session'[t] = session[t] \/ session'[t] = None
                       \/ At(h, "setSession") /\ t = req[h].token /\ session'[t] = Written(req[h])

LEMMA TrustGrows ==
  ASSUME account \in Accounts, NEW i, Trusted(i),
         account' = account \/ account' = [account EXCEPT !.mail = "available"]
  PROVE  Accepted(i) => Accepted(account')
BY DEF Trusted, Accepted, Accounts

LEMMA ConfirmedTrust ==
  ASSUME account \in Accounts, NEW q, q.op \in {"verify", "changeEmail"}, q.info \in Accounts,
         account.mail = "available", account.status = q.info.status
  PROVE  Trusted(Written(q))
<1>1. account.status \in {"available", "suspended", "deleted"}
  BY DEF Accounts, Values
<1>2. CASE q.op = "verify"
  <2>1. Written(q) = [status |-> "available", mail |-> q.info.status]
    BY <1>2 DEF Written, Changes
  <2> QED BY <1>1, <2>1 DEF Trusted, Accepted
<1>3. CASE q.op = "changeEmail"
  <2>1. Written(q) = [q.info EXCEPT !.mail = "available"]
    BY <1>3 DEF Written, Changes
  <2>2. Written(q).status = q.info.status
    BY <2>1 DEF Accounts
  <2> QED BY <2>2 DEF Trusted, Accepted
<1> QED BY <1>2, <1>3

\* What holds of a handler that is about to make a turn.
LEMMA OwnFacts ==
  ASSUME RefuseInv, NEW h \in Handlers, Busy(h)
  PROVE  /\ Fits(req[h], todo[h]) /\ Placed(req[h].op, todo[h]) /\ NextTo(req[h].op, todo[h])
         /\ InOrder(req[h].op, todo[h]) /\ KeyOK(h)
         /\ account \in Accounts /\ statusKey \in Infos \cup {None} /\ None \notin Infos
         /\ \A g \in Handlers : g # h /\ Busy(g) /\ clean[g] => Harmless(req[g], req[h])
         /\ req[h].op \in Openers => req[h].token \notin firm
         /\ \A g \in Handlers : g # h /\ Busy(g) /\ req[g].token \in firm => Harmless(req[g], req[h])
         /\ req[h].op \in KeyWriters /\ ~clean[h] => keyStale
<1>1. Typed /\ Meeting /\ KeyOK(h)
  BY DEF RefuseInv, SessionInv, KeyInv
<1>2. Fits(req[h], todo[h]) /\ Placed(req[h].op, todo[h])
  BY <1>1, Serving DEF Typed
<1>3. NextTo(req[h].op, todo[h]) /\ InOrder(req[h].op, todo[h])
  BY <1>2, LeftNextTo, LeftInOrder DEF Fits
<1>4. account \in Accounts /\ statusKey \in Infos \cup {None} /\ None \notin Infos
  BY <1>1, AccountsAreInfos DEF Typed, TablesOK
<1> QED BY <1>1, <1>2, <1>3, <1>4 DEF Meeting, TokensOK, MeetOK, Apart, StaleOK

\* The key is in doubt no longer only when a clean writer of it is through.
LEMMA Settling ==
  ASSUME RefuseInv, NEW h \in Handlers, NEW q, Turn(h, q), KeyEffects(h, q), ~keyStale'
  PROVE  \/ ~keyStale
         \/ /\ clean[h] /\ req[h].op \in KeyWriters /\ todo'[h] = <<>> /\ Len(todo[h]) = 1
            /\ Complete(h)
BY TurnEffects DEF Turn, TurnHistory, RefuseInv, SessionInv, Complete

\* Nobody stops to be midway but by writing the key.
LEMMA StillMidway ==
  ASSUME RefuseInv, NEW h \in Handlers, NEW q, Turn(h, q), ~Midway', ~At(h, "setStatus")
  PROVE  ~Midway
<1> SUFFICES ASSUME NEW g \in Handlers, At(g, "setStatus"), req[g].op \in Changes PROVE FALSE
  BY DEF Midway
<1>1. g # h
  OBVIOUS
<1>2. todo'[g] = todo[g] /\ req'[g] = req[g]
  BY <1>1 DEF Turn, Moves
<1>3. At(g, "setStatus")' /\ req'[g].op \in Changes
  BY <1>2 DEF At, Busy
<1> QED BY <1>3 DEF Midway

\* The next statement of the request that makes the turn.
LEMMA TurnNext ==
  ASSUME RefuseInv, NEW h \in Handlers, NEW q, Turn(h, q), Busy(h)'
  PROVE  /\ req'[h] = q /\ clean'[h] = clean[h] /\ Busy(h)
         /\ todo'[h] = todo[h] \/ (Len(todo[h]) # 1 /\ todo'[h] = Tail(todo[h]))
         /\ firm' = firm /\ keyStale' = keyStale
BY TurnEffects DEF Turn, Moves, Busy, RefuseInv, SessionInv

\* A change of status that has written the row has still to write the key.
LEMMA WritingIsMidway ==
  ASSUME RefuseInv, NEW h \in Handlers, NEW q, Turn(h, q), KeyEffects(h, q),
         At(h, "writeAccount"), Busy(h)'
  PROVE  Midway'
<1>1. req'[h] = q /\ Len(todo[h]) # 1 /\ todo'[h] = Tail(todo[h]) /\ q.op = req[h].op
  BY TurnNext DEF KeyEffects, At, Turn
<1>2. Head(todo'[h]) = "setStatus" /\ req[h].op \in Changes
  BY <1>1, OwnFacts DEF Placed, At
<1> QED BY <1>1, <1>2 DEF Midway, At

\* Another request keeps what it has, whatever the one that moves does.
LEMMA OthersKey ==
  ASSUME RefuseInv, NEW h \in Handlers, NEW q, Turn(h, q), KeyEffects(h, q),
         NEW g \in Handlers, g # h
  PROVE  KeyOK(g)'
<1>1. todo'[g] = todo[g] /\ req'[g] = req[g] /\ clean'[g] = clean[g] /\ Busy(h) /\ KeyOK(g)
  BY DEF Turn, Moves, RefuseInv, KeyInv
<1>2. Busy(g) => /\ Fits(req[g], todo[g]) /\ Placed(req[g].op, todo[g])
                 /\ clean[h] => Harmless(req[h], req[g])
  BY <1>1, OwnFacts
<1>3. /\ Fits(req[h], todo[h]) /\ Placed(req[h].op, todo[h]) /\ NextTo(req[h].op, todo[h])
      /\ Busy(g) /\ clean[g] => Harmless(req[g], req[h])
      /\ account \in Accounts /\ statusKey \in Infos \cup {None} /\ None \notin Infos
      /\ Busy(g) /\ req[g].token \in firm => Harmless(req[g], req[h])
      /\ WriterOK(h)
  BY <1>1, OwnFacts DEF KeyOK
<1>4. WriterOK(g)'
  <2> SUFFICES ASSUME Busy(g), clean[g], req[g].op \in KeyWriters
               PROVE  UNCHANGED <<account, statusKey>>
    <3>1. Busy(g) /\ clean[g] /\ req[g].op \notin KeyWriters => WriterOK(g)'
      BY <1>1, <1>2 DEF WriterOK, KeyWriters, Placed, Busy
    <3>2. UNCHANGED <<account, statusKey>> => WriterOK(g)'
      <4> SUFFICES ASSUME UNCHANGED <<account, statusKey>> PROVE WriterOK(g)'
        OBVIOUS
      <4>1. Written(req[g])' = Written(req[g])
        BY <1>1 DEF Written, Changed
      <4> QED BY <1>1, <4>1 DEF WriterOK, KeyOK, Busy
    <3>3. ~Busy(g) \/ ~clean[g] => WriterOK(g)'
      BY <1>1 DEF WriterOK, Busy
    <3> QED BY <3>1, <3>2, <3>3
  <2>1. req[h].op \notin KeyWriters
    BY <1>3, HarmlessFacts
  <2>2. ~At(h, "confirm") /\ ~At(h, "writeAccount") /\ ~At(h, "setStatus") /\ ~At(h, "dropStatus")
    BY <1>3, <2>1 DEF Placed, At, KeyWriters
  <2> QED BY <2>2 DEF KeyEffects
<1>5. RefreshOK(g)'
  <2> SUFFICES ASSUME Busy(g), Head(todo[g]) = "setSession", req[g].op = "use", req[g].token \in firm'
               PROVE  statusKey' # None
    BY <1>1 DEF RefreshOK, At, Busy
  <2>1. ~(clean[h] /\ req[h].op \in Openers)
    BY <1>2, HarmlessFacts
  <2>2. req[g].token \in firm
    BY <2>1, TurnEffects DEF TurnHistory, RefuseInv, SessionInv
  <2>3. statusKey # None
    BY <1>1, <2>2 DEF KeyOK, RefreshOK, At
  <2>4. ~At(h, "dropStatus")
    BY <1>2, <1>3, <2>2, HarmlessFacts DEF Placed, At
  <2>5. At(h, "setStatus") => Written(req[h]) \in Infos
    BY <1>3, WrittenType DEF At
  <2> QED BY <1>3, <2>3, <2>4, <2>5 DEF KeyEffects
<1>6. LoginOK(g)'
  <2> SUFFICES ASSUME Busy(g), clean[g], req[g].op = "login", Decided', statusKey' = None
               PROVE  /\ Head(todo[g]) = "setSession" => (Accepted(req[g].info) => Accepted(account'))
                      /\ Head(todo[g]) \in {"readMap", "writeMap"} /\ session'[req[g].token] # None =>
                           (Accepted(session'[req[g].token]) => Accepted(account'))
    BY <1>1 DEF LoginOK, Trusted, Accepted, Busy
  <2>1. Harmless(req[g], req[h]) /\ req[h].op \notin Closers \cup {"verify", "changeEmail", "use", "login"}
    BY <1>3, HarmlessFacts DEF Openers
  <2>2. ~At(h, "dropStatus") /\ ~At(h, "confirm") /\ ~At(h, "setSession")
    BY <1>3, <2>1 DEF Placed, At, Openers
  <2>3. ~At(h, "setStatus")
    BY <1>3, WrittenType DEF KeyEffects, At
  <2>4. statusKey = None
    BY <2>2, <2>3 DEF KeyEffects
  <2>5. ~Midway
    BY <2>3, StillMidway DEF Decided
  <2>6. ~keyStale
    <3> SUFFICES ASSUME keyStale PROVE FALSE
      OBVIOUS
    <3>1. clean[h] /\ req[h].op \in KeyWriters /\ Len(todo[h]) = 1
      BY Settling DEF Decided
    <3>2. req[h].op \in Changes /\ Head(todo[h]) = "activate"
      BY <1>3, <2>1, <3>1 DEF KeyWriters, NextTo
    <3>3. statusKey = account
      BY <1>1, <1>3, <3>1, <3>2 DEF WriterOK
    <3> QED BY <1>3, <2>4, <3>3, AccountsAreInfos
  <2>7. account' = account
    <3> SUFFICES ASSUME At(h, "writeAccount"), Busy(h)' PROVE FALSE
      BY <2>2 DEF KeyEffects
    <3> QED BY WritingIsMidway DEF Decided
  <2>8. req[g].token \in Tokens
    BY <1>2 DEF Fits, Openers, RefuseInv, SessionInv, Typed, HistoryOK
  <2>9. session'[req[g].token] # None => session'[req[g].token] = session[req[g].token]
    BY <2>2, <2>8 DEF KeyEffects
  <2> QED BY <1>1, <2>4, <2>5, <2>6, <2>7, <2>9 DEF KeyOK, LoginOK, Trusted, Decided
<1> QED BY <1>4, <1>5, <1>6 DEF KeyOK

\* The request that moves has what it needs for its next statement.
LEMMA OwnKey ==
  ASSUME RefuseInv, NEW h \in Handlers, NEW q, Turn(h, q), KeyEffects(h, q)
  PROVE  KeyOK(h)'
<1> SUFFICES ASSUME Busy(h)' PROVE KeyOK(h)'
  BY DEF KeyOK, WriterOK, RefreshOK, LoginOK, At
<1>1. /\ req'[h] = q /\ clean'[h] = clean[h] /\ Busy(h) /\ q.op = req[h].op /\ q.token = req[h].token
      /\ firm' = firm /\ keyStale' = keyStale
  BY TurnNext DEF Turn
<1>2. /\ Fits(req[h], todo[h]) /\ Placed(req[h].op, todo[h]) /\ NextTo(req[h].op, todo[h])
      /\ WriterOK(h) /\ RefreshOK(h) /\ LoginOK(h)
      /\ account \in Accounts /\ statusKey \in Infos \cup {None} /\ None \notin Infos
      /\ req[h].op \in Openers => req[h].token \notin firm
      /\ req[h].op \in KeyWriters /\ ~clean[h] => keyStale
  BY <1>1, OwnFacts DEF KeyOK
<1>3. CASE todo'[h] = todo[h]
  <2>1. At(h, "closeSessions") /\ req[h].op \in Closers
    BY <1>2, <1>3 DEF KeyEffects, Placed, At
  <2> QED BY <1>1, <1>3, <2>1 DEF KeyOK, WriterOK, RefreshOK, LoginOK, At, Closers, Changes
<1>4. CASE Len(todo[h]) # 1 /\ todo'[h] = Tail(todo[h])
  <2>1. WriterOK(h)'
    <3> SUFFICES ASSUME clean[h] PROVE WriterOK(h)'
      BY <1>1 DEF WriterOK
    <3>1. ASSUME q.op \in Changes, Head(todo'[h]) = "setStatus" PROVE account' = Written(q)
      <4>1. At(h, "writeAccount") /\ q.info = req[h].info
        BY <1>1, <1>2, <1>4, <3>1 DEF NextTo, At, KeyEffects
      <4>2. Written(q) = Written(req[h])
        BY <1>1, <3>1, <4>1 DEF Written, Changes
      <4> QED BY <4>1, <4>2 DEF KeyEffects
    <3>2. ASSUME q.op \in Changes, Head(todo'[h]) = "activate" PROVE statusKey' = account'
      <4>1. At(h, "setStatus")
        BY <1>1, <1>2, <1>4, <3>2 DEF NextTo, At
      <4>2. account = Written(req[h]) /\ account' = account /\ statusKey' = Written(req[h])
        BY <1>1, <1>2, <3>2, <4>1 DEF WriterOK, KeyEffects, At
      <4> QED BY <4>2
    <3>3. ASSUME Head(todo'[h]) = "dropMap" PROVE statusKey' = None
      <4>1. At(h, "dropStatus")
        BY <1>1, <1>2, <1>4, <3>3 DEF NextTo, At
      <4> QED BY <4>1 DEF KeyEffects, At
    <3>4. ASSUME q.op \in {"verify", "changeEmail"}, Head(todo'[h]) = "confirm"
          PROVE  account' = q.info
      <4>1. At(h, "readAccount")
        BY <1>1, <1>2, <1>4, <3>4 DEF NextTo, At
      <4> QED BY <4>1 DEF KeyEffects, At
    <3>5. ASSUME q.op \in {"verify", "changeEmail"},
                 Head(todo'[h]) \in {"activate", "setSession", "readMap", "writeMap", "setStatus"}
          PROVE  account'.mail = "available" /\ account'.status = q.info.status
      <4>1. Head(todo[h]) \in {"confirm", "activate", "setSession", "readMap", "writeMap"}
        BY <1>1, <1>2, <1>4, <3>5 DEF NextTo
      <4>2. q.info = req[h].info
        BY <4>1 DEF KeyEffects, At
      <4>3. CASE Head(todo[h]) = "confirm"
        <5>1. account = req[h].info
          BY <1>1, <1>2, <3>5, <4>3 DEF WriterOK
        <5>2. \/ account' = [account EXCEPT !.mail = "available"]
              \/ account' = account /\ req[h].info.mail = "available"
          BY <1>1, <4>3 DEF KeyEffects, At
        <5> QED BY <1>2, <4>2, <5>1, <5>2 DEF Accounts
      <4>4. CASE Head(todo[h]) # "confirm"
        <5>1. account.mail = "available" /\ account.status = req[h].info.status
          BY <1>1, <1>2, <3>5, <4>1, <4>4 DEF WriterOK
        <5>2. account' = account
          BY <4>1, <4>4 DEF KeyEffects, At
        <5> QED BY <4>2, <5>1, <5>2
      <4> QED BY <4>3, <4>4
    <3>6. Written(q)' = Written(q)
      BY DEF Written, Changed
    <3> QED BY <1>1, <3>1, <3>2, <3>3, <3>4, <3>5, <3>6 DEF WriterOK, Written, Changed
  <2>2. RefreshOK(h)'
    <3> SUFFICES ASSUME Head(todo'[h]) = "setSession", q.op = "use" PROVE statusKey' # None
      BY <1>1 DEF RefreshOK, At
    <3>1. At(h, "readStatus")
      BY <1>1, <1>2, <1>4 DEF NextTo, At
    <3> QED BY <3>1 DEF KeyEffects, At
  <2>3. LoginOK(h)'
    <3> SUFFICES ASSUME clean[h], q.op = "login", Decided', statusKey' = None
                 PROVE  /\ Head(todo'[h]) = "setSession" => (Accepted(q.info) => Accepted(account'))
                        /\ Head(todo'[h]) \in {"readMap", "writeMap"} /\ session'[q.token] # None =>
                             (Accepted(session'[q.token]) => Accepted(account'))
      BY <1>1 DEF LoginOK, Trusted, Accepted
    <3>1. /\ ~At(h, "setStatus") /\ ~At(h, "dropStatus") /\ ~At(h, "confirm")
          /\ ~At(h, "writeAccount")
      BY <1>1, <1>2 DEF Placed, At, Changes, Closers
    <3>2. statusKey = None /\ account' = account /\ ~Midway /\ ~keyStale
      BY <1>1, <3>1, StillMidway DEF KeyEffects, Decided
    <3>3. CASE Head(todo'[h]) = "setSession"
      <4>1. At(h, "readAccount")
        BY <1>1, <1>2, <1>4, <3>3 DEF NextTo, At
      <4> QED BY <3>2, <3>3, <4>1 DEF KeyEffects
    <3>4. CASE Head(todo'[h]) \in {"readMap", "writeMap"}
      <4>1. Head(todo[h]) \in {"setSession", "readMap"} /\ req[h].token \in Tokens
        BY <1>1, <1>2, <1>4, <3>4 DEF NextTo, Fits, Openers, RefuseInv, SessionInv, Typed, HistoryOK
      <4>2. Head(todo[h]) = "setSession" => Written(req[h]) = req[h].info
        BY <1>1 DEF Written, Changes
      <4>3. /\ Head(todo[h]) = "setSession" => Trusted(req[h].info)
            /\ Head(todo[h]) = "readMap" /\ session[req[h].token] # None =>
                 Trusted(session[req[h].token])
        BY <1>1, <1>2, <3>2 DEF LoginOK, Decided
      <4>4. \/ session'[req[h].token] = session[req[h].token]
            \/ session'[req[h].token] = None
            \/ Head(todo[h]) = "setSession" /\ session'[req[h].token] = Written(req[h])
        <5>1. At(h, "setSession") => Head(todo[h]) = "setSession"
          BY DEF At
        <5>2. \A t \in Tokens : \/ session'[t] = session[t] \/ session'[t] = None
                                \/ At(h, "setSession") /\ t = req[h].token
                                   /\ session'[t] = Written(req[h])
          BY DEF KeyEffects
        <5> QED BY <4>1, <5>1, <5>2
      <4>5. ASSUME Head(todo[h]) = "setSession", session'[req[h].token] # None
            PROVE  Accepted(session'[req[h].token]) => Accepted(account')
        <5>1. session'[req[h].token] = req[h].info
          BY <1>1, <4>2, <4>5 DEF KeyEffects, At
        <5> QED BY <3>2, <4>3, <4>5, <5>1 DEF Trusted
      <4>6. ASSUME Head(todo[h]) = "readMap", session'[req[h].token] # None
            PROVE  Accepted(session'[req[h].token]) => Accepted(account')
        <5>1. session'[req[h].token] = session[req[h].token]
          BY <4>4, <4>6
        <5>2. Trusted(session[req[h].token])
          BY <4>3, <4>6, <5>1
        <5> QED BY <3>2, <5>1, <5>2 DEF Trusted
      <4>7. session'[req[h].token] # None =>
              (Accepted(session'[req[h].token]) => Accepted(account'))
        BY <4>1, <4>5, <4>6
      <4> QED BY <1>1, <3>4, <4>7
    <3> QED BY <3>3, <3>4
  <2> QED BY <2>1, <2>2, <2>3 DEF KeyOK
<1> QED BY <1>1, <1>3, <1>4, TurnNext

\* Where the key decides, it lets in nobody the row does not.
LEMMA TurnKey ==
  ASSUME RefuseInv, NEW h \in Handlers, NEW q, Turn(h, q), KeyEffects(h, q)
  PROVE  KeyTrusted'
<1> SUFFICES ASSUME Decided', statusKey' # None PROVE Accepted(statusKey') => Accepted(account')
  BY DEF KeyTrusted, Trusted, Accepted
<1>1. /\ Fits(req[h], todo[h]) /\ Placed(req[h].op, todo[h]) /\ NextTo(req[h].op, todo[h])
      /\ InOrder(req[h].op, todo[h]) /\ WriterOK(h) /\ Busy(h)
      /\ account \in Accounts /\ statusKey \in Infos \cup {None} /\ None \notin Infos
      /\ req[h].op \in KeyWriters /\ ~clean[h] => keyStale
  BY OwnFacts DEF KeyOK, Turn
\* A clean writer that has written the key.
<1>2. ASSUME clean[h], Head(todo[h]) = "setStatus" PROVE Accepted(statusKey') => Accepted(account')
  <2>1. account' = account /\ statusKey' = Written(req[h])
    BY <1>1, <1>2 DEF KeyEffects, At
  <2>2. CASE req[h].op \in Changes
    BY <1>1, <1>2, <2>1, <2>2 DEF WriterOK
  <2>3. CASE req[h].op \in {"verify", "changeEmail"}
    <3>1. req[h].info \in Accounts
      BY <1>1, <1>2, <2>3 DEF Fits, Openers
    <3>2. Trusted(Written(req[h]))
      BY <1>1, <1>2, <2>3, <3>1, ConfirmedTrust DEF WriterOK
    <3> QED BY <2>1, <3>2 DEF Trusted
  <2> QED BY <1>1, <1>2, <2>2, <2>3 DEF Placed
<1>3. CASE keyStale
  <2>1. clean[h] /\ req[h].op \in KeyWriters /\ Len(todo[h]) = 1
    BY <1>3, Settling DEF Decided
  <2>2. CASE req[h].op \in Changes
    <3>1. Head(todo[h]) = "activate" /\ statusKey = account
      BY <1>1, <2>1, <2>2 DEF NextTo, WriterOK
    <3> QED BY <3>1 DEF KeyEffects, At
  <2>3. CASE req[h].op \in {"verify", "changeEmail"}
    BY <1>1, <1>2, <2>1, <2>3 DEF NextTo
  <2>4. CASE req[h].op \in Closers
    <3>1. Head(todo[h]) = "dropMap" /\ statusKey = None
      BY <1>1, <2>1, <2>4 DEF InOrder, WriterOK
    <3> QED BY <3>1 DEF KeyEffects, At
  <2> QED BY <2>1, <2>2, <2>3, <2>4 DEF KeyWriters
<1>4. CASE ~keyStale /\ Head(todo[h]) = "setStatus"
  BY <1>1, <1>2, <1>4 DEF Placed, KeyWriters
<1>5. CASE ~keyStale /\ Head(todo[h]) # "setStatus"
  <2>1. ~Midway /\ statusKey' = statusKey
    BY <1>5, StillMidway DEF Decided, KeyEffects, At
  <2>2. Trusted(statusKey)
    BY <1>5, <2>1 DEF RefuseInv, KeyInv, KeyTrusted, Decided
  <2>3. ~(At(h, "writeAccount") /\ Busy(h)')
    BY WritingIsMidway DEF Decided
  <2> QED BY <1>1, <2>1, <2>2, <2>3, TrustGrows DEF KeyEffects
<1> QED BY <1>3, <1>4, <1>5

\* Where there is no key, a firm session lets in nobody the row does not.
LEMMA TurnSessions ==
  ASSUME RefuseInv, NEW h \in Handlers, NEW q, Turn(h, q), KeyEffects(h, q)
  PROVE  SessionsTrusted'
<1> SUFFICES ASSUME Decided', statusKey' = None, ~Dropping', NEW t \in firm', session'[t] # None
             PROVE  Accepted(session'[t]) => Accepted(account')
  BY DEF SessionsTrusted, Trusted, Accepted
<1>1. /\ Fits(req[h], todo[h]) /\ Placed(req[h].op, todo[h]) /\ NextTo(req[h].op, todo[h])
      /\ InOrder(req[h].op, todo[h]) /\ KeyOK(h) /\ Busy(h)
      /\ account \in Accounts /\ statusKey \in Infos \cup {None} /\ None \notin Infos
      /\ req[h].op \in Openers => req[h].token \notin firm
  BY OwnFacts DEF Turn
<1>12. firm' \subseteq firm
       \/ (clean[h] /\ req[h].op \in Openers /\ firm' = firm \cup {req[h].token})
  BY TurnEffects DEF TurnHistory, RefuseInv, SessionInv
<1>2. ~At(h, "setStatus")
  BY <1>1, WrittenType DEF KeyEffects, At
\* Who drops the key is about to drop the map.
<1>3. ~At(h, "dropStatus")
  <2> SUFFICES ASSUME At(h, "dropStatus") PROVE FALSE
    OBVIOUS
  <2>1. Busy(h)' /\ Len(todo[h]) # 1 /\ todo'[h] = Tail(todo[h])
    BY TurnNext DEF KeyEffects, At
  <2>2. Head(todo'[h]) = "dropMap"
    BY <1>1, <2>1 DEF Placed, NextTo, At
  <2> QED BY <2>1, <2>2 DEF Dropping, At
<1>4. ~At(h, "dropMap")
  <2> SUFFICES ASSUME At(h, "dropMap") PROVE FALSE
    OBVIOUS
  <2>1. req[h].op \in Closers /\ Len(todo[h]) = 1
    BY <1>1 DEF Placed, InOrder, At
  <2>4. firm' = {}
    <3>1. Complete(h)
      BY DEF KeyEffects
    <3> QED BY <2>1, <3>1 DEF Complete, Closers, Openers
  <2> QED BY <2>4
<1>5. statusKey = None
  BY <1>2, <1>3 DEF KeyEffects
<1>6. ~keyStale
  <2> SUFFICES ASSUME keyStale PROVE FALSE
    OBVIOUS
  <2>1. clean[h] /\ req[h].op \in KeyWriters /\ Len(todo[h]) = 1
    BY Settling DEF Decided
  <2>2. req[h].op \in Changes => statusKey = account
    BY <1>1, <2>1 DEF NextTo, KeyOK, WriterOK
  <2> QED BY <1>1, <1>2, <1>4, <1>5, <2>1, <2>2, AccountsAreInfos DEF KeyWriters, NextTo, InOrder, At
<1>7. ~Midway /\ ~Dropping
  <2>1. ~Midway
    BY <1>2, StillMidway DEF Decided
  <2>2. ASSUME NEW g \in Handlers, At(g, "dropMap") PROVE FALSE
    <3>1. todo'[g] = todo[g]
      BY <1>4, <2>2 DEF Turn, Moves
    <3> QED BY <2>2, <3>1 DEF Dropping, At, Busy
  <2> QED BY <2>1, <2>2 DEF Dropping
<1>8. ASSUME NEW i, Trusted(i) PROVE Accepted(i) => Accepted(account')
  <2>1. ~(At(h, "writeAccount") /\ Busy(h)')
    BY WritingIsMidway DEF Decided
  <2> QED BY <1>1, <1>8, <2>1, TrustGrows DEF KeyEffects
<1>9. t \in Tokens
  <2>1. req[h].op \in Openers => req[h].token \in Tokens
    BY <1>1 DEF Fits, RefuseInv, SessionInv, Typed, HistoryOK
  <2> QED BY <1>12, <2>1 DEF RefuseInv, SessionInv, Typed, HistoryOK
<1>10. CASE t \in firm
  <2>1. ~(At(h, "setSession") /\ t = req[h].token)
    BY <1>1, <1>5, <1>10 DEF Placed, KeyOK, RefreshOK, At
  <2>2. session'[t] = session[t]
    BY <1>9, <2>1 DEF KeyEffects
  <2>3. Trusted(session[t])
    BY <1>5, <1>6, <1>7, <1>10, <2>2 DEF RefuseInv, KeyInv, SessionsTrusted, Decided
  <2> QED BY <1>8, <2>2, <2>3
<1>11. CASE t \notin firm
  <2>1. t = req[h].token /\ clean[h] /\ req[h].op \in Openers /\ Len(todo[h]) = 1
    BY <1>11, TurnEffects DEF Turn, TurnHistory, RefuseInv, SessionInv
  <2>2. req[h].op = "login" /\ Head(todo[h]) = "writeMap"
    BY <1>1, <1>2, <2>1 DEF NextTo, Openers, At
  <2>3. session'[t] = session[t]
    BY <1>9, <2>2 DEF KeyEffects, At
  <2>4. Trusted(session[t])
    BY <1>1, <1>5, <1>6, <1>7, <2>1, <2>2, <2>3 DEF KeyOK, LoginOK, Decided
  <2> QED BY <1>8, <2>3, <2>4
<1> QED BY <1>10, <1>11

\* A turn keeps the invariant.
LEMMA TurnRefuse ==
  ASSUME RefuseInv, SessionInv', NEW h \in Handlers, NEW q, Turn(h, q), KeyEffects(h, q)
  PROVE  RefuseInv'
<1>1. \A g \in Handlers : KeyOK(g)'
  BY OwnKey, OthersKey
<1> QED BY <1>1, TurnKey, TurnSessions DEF RefuseInv, KeyInv

\* Whatever goes on to another statement is not left with the same ones.
LEMMA AdvanceOn ==
  ASSUME Typed, NEW h \in Handlers, NEW q, Busy(h), Advance(h, q) \/ Leave(h), Busy(h)'
  PROVE  Len(todo[h]) # 1 /\ todo'[h] = Tail(todo[h]) /\ todo'[h] # todo[h]
<1>1. todo[h] \in Seq(Statements) /\ todo[h] # <<>>
  BY Serving DEF Typed, LeftOK
<1>2. /\ Leave(h) => todo'[h] = <<>>
      /\ Advance(h, q) /\ Len(todo[h]) = 1 => todo'[h] = <<>>
  BY DEF Leave, Advance, Complete, Typed, HandlersOK
<1>3. Advance(h, q) /\ Len(todo[h]) # 1 => todo'[h] = Tail(todo[h])
  BY DEF Advance, Typed, HandlersOK
<1>4. Tail(todo[h]) # todo[h]
  <2> DEFINE s == todo[h]
  <2>1. s \in Seq(Statements) /\ s # <<>>
    BY <1>1
  <2> HIDE DEF s
  <2>2. Len(Tail(s)) = Len(s) - 1 /\ Len(s) \in Nat
    BY <2>1
  <2>3. Tail(s) # s
    BY <2>2
  <2> QED BY <2>3 DEF s
<1> QED BY <1>2, <1>3, <1>4 DEF Busy

\* The statements that only read, or touch neither the row nor the key.
LEMMA QuietRefuse ==
  ASSUME RefuseInv, SessionInv', NEW h \in Handlers, NEW q, q.op = req[h].op, q.token = req[h].token,
         Busy(h), Advance(h, q) \/ Leave(h), UNCHANGED <<account, statusKey, issued, clean>>,
         Busy(h)' => ~At(h, "confirm") /\ ~At(h, "writeAccount"),
         ~At(h, "setStatus"), ~At(h, "dropStatus"),
         At(h, "readAccount") /\ Busy(h)' => q.info = account,
         ~At(h, "readAccount") /\ ~At(h, "readSession") /\ ~At(h, "readStatus") =>
           q.info = req[h].info,
         At(h, "readStatus") /\ Busy(h)' => statusKey # None,
         At(h, "dropMap") => Complete(h),
         At(h, "setSession") => session'[req[h].token] = Written(req[h]),
         \A t \in Tokens : \/ session'[t] = session[t] \/ session'[t] = None
                           \/ /\ At(h, "setSession") /\ t = req[h].token
                              /\ session'[t] = Written(req[h])
  PROVE  RefuseInv'
<1>1. Turn(h, q)
  BY AdvanceTurn DEF RefuseInv, SessionInv
<1>2. Busy(h)' => todo'[h] # todo[h]
  BY AdvanceOn DEF RefuseInv, SessionInv
<1>3. KeyEffects(h, q)
  BY <1>2 DEF KeyEffects
<1> QED BY <1>1, <1>3, TurnRefuse

LEMMA ReadingRefuse ==
  ASSUME RefuseInv, SessionInv', NEW h \in Handlers,
         ReadAccount(h) \/ ReadMap(h) \/ ReadSession(h) \/ ReadStatus(h)
  PROVE  RefuseInv'
<1>1. Busy(h) /\ req[h] \in Requests /\ UNCHANGED <<account, statusKey, session, issued>>
  BY Serving DEF ReadAccount, ReadMap, ReadSession, ReadStatus, At, RefuseInv, SessionInv, Typed, cache
<1>2. ASSUME NEW q, Advance(h, q) \/ Leave(h) PROVE clean' = clean
  BY <1>2 DEF Advance, Complete, Leave
<1>3. CASE ReadAccount(h)
  <2> DEFINE q == [req[h] EXCEPT !.info = account, !.unranked = req[h].op \in Changes /\ points = 0]
  <2>1. q.op = req[h].op /\ q.token = req[h].token /\ q.info = account
    BY <1>1 DEF Requests
  <2>2. At(h, "readAccount") /\ (Advance(h, q) \/ Leave(h))
    BY <1>3 DEF ReadAccount
  <2> HIDE DEF q
  <2> QED BY <1>1, <1>2, <2>1, <2>2, QuietRefuse DEF At
<1>4. CASE ReadMap(h)
  <2> DEFINE q == [req[h] EXCEPT !.map = tokenMap]
  <2>1. q.op = req[h].op /\ q.token = req[h].token /\ q.info = req[h].info
    BY <1>1 DEF Requests
  <2>2. At(h, "readMap") /\ Advance(h, q)
    BY <1>4 DEF ReadMap
  <2> HIDE DEF q
  <2> QED BY <1>1, <1>2, <2>1, <2>2, QuietRefuse DEF At
<1>5. CASE ReadSession(h)
  <2> DEFINE q == [req[h] EXCEPT !.info = session[req[h].token]]
  <2>1. q.op = req[h].op /\ q.token = req[h].token
    BY <1>1 DEF Requests
  <2>2. At(h, "readSession") /\ (Advance(h, q) \/ Leave(h))
    BY <1>5 DEF ReadSession
  <2> HIDE DEF q
  <2> QED BY <1>1, <1>2, <2>1, <2>2, QuietRefuse DEF At
<1>6. CASE ReadStatus(h)
  <2> DEFINE q == [req[h] EXCEPT !.info = statusKey]
  <2>1. q.op = req[h].op /\ q.token = req[h].token
    BY <1>1 DEF Requests
  <2>2. At(h, "readStatus") /\ (Advance(h, q) \/ Leave(h)) /\ (Leave(h) \/ statusKey # None)
    BY <1>6 DEF ReadStatus
  <2>3. Leave(h) => ~Busy(h)'
    BY <1>1 DEF Leave, Busy, RefuseInv, SessionInv, Typed, HandlersOK
  <2> HIDE DEF q
  <2> QED BY <1>1, <1>2, <2>1, <2>2, <2>3, QuietRefuse DEF At
<1> QED BY <1>3, <1>4, <1>5, <1>6

LEMMA CacheRefuse ==
  ASSUME RefuseInv, SessionInv', NEW h \in Handlers,
         Activate(h) \/ SetSession(h) \/ WriteMap(h) \/ CloseSession(h) \/ DropMap(h) \/ Fail(h)
  PROVE  RefuseInv'
<1>1. /\ Busy(h) /\ UNCHANGED <<account, statusKey, issued>>
      /\ Advance(h, req[h]) \/ Leave(h)
      /\ Head(todo[h]) \in {"activate", "setSession", "writeMap", "closeSession", "dropMap",
                            "readAccount", "confirm", "writeAccount"}
      /\ Head(todo[h]) \in {"readAccount", "confirm", "writeAccount"} => Leave(h)
      /\ session \in [Tokens -> Infos \cup {None}]
      /\ req[h].op = req[h].op /\ req[h].token = req[h].token /\ req[h].info = req[h].info
  BY DEF Activate, SetSession, WriteMap, CloseSession, DropMap, Fail, At, cache, RefuseInv,
     SessionInv, Typed, TablesOK
<1>2. clean' = clean /\ (Leave(h) => ~Busy(h)')
  BY <1>1 DEF Advance, Complete, Leave, Busy, RefuseInv, SessionInv, Typed, HandlersOK
<1>3. \A t \in Tokens : \/ session'[t] = session[t] \/ session'[t] = None
                        \/ /\ At(h, "setSession") /\ t = req[h].token
                           /\ session'[t] = Written(req[h])
  BY <1>1 DEF Activate, SetSession, WriteMap, CloseSession, DropMap, Fail, cache
<1>4. Head(todo[h]) = "dropMap" => Complete(h)
  <2> SUFFICES ASSUME Head(todo[h]) = "dropMap" PROVE Complete(h)
    OBVIOUS
  <2>1. Advance(h, req[h]) /\ Len(todo[h]) = 1
    BY <1>1, OwnFacts DEF DropMap, Activate, SetSession, WriteMap, CloseSession, Fail, At, InOrder
  <2> QED BY <2>1 DEF Advance
<1>5. Head(todo[h]) = "setSession" => session'[req[h].token] = Written(req[h])
  <2> SUFFICES ASSUME Head(todo[h]) = "setSession" PROVE session'[req[h].token] = Written(req[h])
    OBVIOUS
  <2>1. req[h].token \in Tokens
    BY <1>1, OwnFacts DEF Placed, Fits, Openers, RefuseInv, SessionInv, Typed, HistoryOK
  <2> QED BY <1>1, <2>1 DEF DropMap, Activate, SetSession, WriteMap, CloseSession, Fail, At
<1> QED BY <1>1, <1>2, <1>3, <1>4, <1>5, QuietRefuse DEF At

LEMMA WritingRefuse ==
  ASSUME RefuseInv, SessionInv', NEW h \in Handlers,
         Confirm(h) \/ WriteAccount(h) \/ SetStatus(h) \/ DropStatus(h)
  PROVE  RefuseInv'
<1>1. /\ Busy(h) /\ UNCHANGED <<session, issued>> /\ Advance(h, req[h])
      /\ Head(todo[h]) \in {"confirm", "writeAccount", "setStatus", "dropStatus"}
  BY DEF Confirm, WriteAccount, SetStatus, DropStatus, At, cache
<1>2. clean' = clean
  BY <1>1 DEF Advance, Complete
<1>3. /\ Placed(req[h].op, todo[h]) /\ NextTo(req[h].op, todo[h])
  BY <1>1, OwnFacts
<1>4. Turn(h, req[h])
  BY <1>1, <1>2, AdvanceTurn DEF RefuseInv, SessionInv
<1>5. Busy(h)' => todo'[h] # todo[h]
  BY <1>1, AdvanceOn DEF RefuseInv, SessionInv
<1>6. Len(todo[h]) # 1 => Busy(h)'
  <2>1. todo[h] \in Seq(Statements)
    BY <1>1, Serving DEF RefuseInv, SessionInv, Typed, LeftOK
  <2>2. Len(todo[h]) # 1 => todo'[h] = Tail(todo[h]) /\ Tail(todo[h]) # <<>>
    BY <1>1, Serving DEF Advance, RefuseInv, SessionInv, Typed, HandlersOK, LeftOK
  <2> QED BY <2>2 DEF Busy
<1>7. KeyEffects(h, req[h])
  <2>1. CASE Confirm(h)
    <3>1. \/ account' = account /\ req[h].op = "verify" /\ req[h].info.mail = "available"
          \/ account' = [account EXCEPT !.mail = "available"]
      BY <2>1 DEF Confirm
    <3>2. statusKey' = statusKey /\ Head(todo[h]) = "confirm"
      BY <2>1 DEF Confirm, At, cache
    <3> QED BY <1>1, <1>5, <3>1, <3>2 DEF KeyEffects, At
  <2>2. CASE WriteAccount(h)
    <3>1. account' = Written(req[h])
      BY <1>1, <1>3, <2>2 DEF WriteAccount, Written, Placed, At, Changes
    <3>2. Busy(h)'
      <4>1. Head(todo[h]) = "writeAccount"
        BY <2>2 DEF WriteAccount, At
      <4>2. Len(todo[h]) # 1
        BY <1>3, <4>1 DEF Placed
      <4> QED BY <1>6, <4>2
    <3>3. statusKey' = statusKey /\ Head(todo[h]) = "writeAccount"
      BY <2>2 DEF WriteAccount, At, cache
    <3>4. /\ At(h, "writeAccount") /\ ~At(h, "confirm") /\ ~At(h, "readAccount")
          /\ ~At(h, "readStatus") /\ ~At(h, "setStatus") /\ ~At(h, "dropStatus")
          /\ ~At(h, "dropMap") /\ ~At(h, "setSession")
      <4>1. Busy(h) /\ Head(todo[h]) = "writeAccount"
        BY <1>1, <3>3
      <4> QED BY <4>1 DEF At
    <3> QED BY <1>1, <1>5, <3>1, <3>2, <3>3, <3>4 DEF KeyEffects
  <2>3. CASE SetStatus(h)
    BY <1>1, <1>5, <2>3 DEF SetStatus, KeyEffects, At
  <2>4. CASE DropStatus(h)
    <3>1. Busy(h)'
      BY <1>3, <1>6, <2>4 DEF DropStatus, Placed, NextTo, At
    <3> QED BY <1>1, <1>5, <2>4, <3>1 DEF DropStatus, KeyEffects, At
  <2> QED BY <2>1, <2>2, <2>3, <2>4
<1> QED BY <1>4, <1>7, TurnRefuse

LEMMA CloseSessionsRefuse ==
  ASSUME RefuseInv, SessionInv', NEW h \in Handlers, CloseSessions(h)
  PROVE  RefuseInv'
<1>1. /\ Busy(h) /\ Head(todo[h]) = "closeSessions"
      /\ UNCHANGED <<account, statusKey, issued>>
      /\ req[h] \in Requests /\ session \in [Tokens -> Infos \cup {None}]
  BY Serving DEF CloseSessions, At, RefuseInv, SessionInv, Typed, TablesOK
<1>2. CASE Advance(h, req[h]) /\ UNCHANGED session
  <2>1. clean' = clean
    BY <1>2 DEF Advance, Complete
  <2> QED BY <1>1, <1>2, <2>1, QuietRefuse DEF At
<1>3. ASSUME NEW t \in req[h].map \ {req[h].token}, session' = [session EXCEPT ![t] = None],
             req' = [req EXCEPT ![h].map = req[h].map \ {t}],
             UNCHANGED <<todo, clean, firm, loose, ended, keyStale>>
      PROVE  RefuseInv'
  <2> DEFINE q == [req[h] EXCEPT !.map = req[h].map \ {t}]
  <2>1. /\ q.op = req[h].op /\ q.token = req[h].token /\ q.info = req[h].info
        /\ req' = [req EXCEPT ![h] = q]
    BY <1>1, <1>3 DEF Requests
  <2> HIDE DEF q
  <2>2. req'[h] = q /\ Moves(h, q)
    BY <1>3, <2>1 DEF Moves, RefuseInv, SessionInv, Typed, HandlersOK
  <2>3. Turn(h, q)
    BY <1>1, <1>3, <2>1, <2>2 DEF Turn
  <2>4. /\ At(h, "closeSessions") /\ ~At(h, "confirm") /\ ~At(h, "readAccount")
        /\ ~At(h, "readStatus") /\ ~At(h, "setStatus") /\ ~At(h, "dropStatus")
        /\ ~At(h, "dropMap") /\ ~At(h, "setSession") /\ ~At(h, "writeAccount")
    BY <1>1 DEF At
  <2>5. \A x \in Tokens : session'[x] = session[x] \/ session'[x] = None
    BY <1>1, <1>3
  <2>6. KeyEffects(h, q)
    BY <1>1, <2>1, <2>4, <2>5 DEF KeyEffects
  <2> QED BY <2>3, <2>6, TurnRefuse
<1> QED BY <1>2, <1>3 DEF CloseSessions

LEMMA ReceiveRefuse ==
  ASSUME RefuseInv, SessionInv', NEW h \in Handlers,
         NEW op \in Operations, NEW t \in Tokens \cup {None}, Receive(h, op, t)
  PROVE  RefuseInv'
<1>1. /\ todo'[h] = Program(op) /\ req'[h].op = op /\ ~Busy(h)
      /\ UNCHANGED <<account, session, statusKey>>
      /\ \A g \in Handlers \ {h} : req'[g] = req[g] /\ todo'[g] = todo[g] /\ (clean'[g] => clean[g])
      /\ firm' \subseteq firm /\ (~keyStale' => ~keyStale)
  BY DEF Receive, cache, RefuseInv, SessionInv, Typed, HandlersOK, HistoryOK
<1>2. Head(Program(op)) \in {"readAccount", "readSession", "closeSession", "readMap"}
      /\ (Head(Program(op)) = "readMap" => op \in Closers)
  BY SessionAssumption DEF Program, AllOperations, Openers, Closers, Changes, LoginUser, VerifyEmail,
     GetUserCacheInfo, RemoveUserTokens, UpdateUserStatus
<1>3. KeyOK(h)'
  BY <1>1, <1>2 DEF KeyOK, WriterOK, RefreshOK, LoginOK, At, Closers, Changes
<1>4. Decided' => Decided
  <2> SUFFICES ASSUME Decided' PROVE Decided
    OBVIOUS
  <2>1. ASSUME NEW g \in Handlers, At(g, "setStatus"), req[g].op \in Changes PROVE FALSE
    BY <1>1, <2>1 DEF Decided, Midway, At, Busy
  <2> QED BY <1>1, <2>1 DEF Decided, Midway
<1>5. ~Dropping' => ~Dropping
  BY <1>1 DEF Dropping, At, Busy
<1>6. ASSUME NEW g \in Handlers \ {h} PROVE KeyOK(g)'
  <2>1. KeyOK(g)
    BY DEF RefuseInv, KeyInv
  <2>2. Written(req[g])' = Written(req[g])
    BY <1>1 DEF Written, Changed
  <2>3. WriterOK(g)'
    BY <1>1, <2>1, <2>2 DEF KeyOK, WriterOK, Busy
  <2>4. RefreshOK(g)'
    BY <1>1, <2>1 DEF KeyOK, RefreshOK, At, Busy
  <2>5. LoginOK(g)'
    BY <1>1, <1>4, <2>1 DEF KeyOK, LoginOK, Trusted, Accepted, Busy
  <2> QED BY <2>3, <2>4, <2>5 DEF KeyOK
<1>7. KeyTrusted' /\ SessionsTrusted'
  BY <1>1, <1>4, <1>5 DEF RefuseInv, KeyInv, KeyTrusted, SessionsTrusted, Trusted, Accepted
<1> QED BY <1>3, <1>6, <1>7 DEF RefuseInv, KeyInv

LEMMA FileRefuse ==
  ASSUME RefuseInv, SessionInv', Save \/ Crash \/ UNCHANGED vars
  PROVE  RefuseInv'
<1>1. CASE Crash
  <2>1. \A h \in Handlers : todo'[h] = <<>>
    BY <1>1 DEF Crash
  <2>2. \A h \in Handlers : KeyOK(h)'
    BY <2>1 DEF KeyOK, WriterOK, RefreshOK, LoginOK, At, Busy
  <2>3. ~keyStale' => /\ ~keyStale /\ saved = Cached /\ account' = account
                      /\ firm' = firm /\ \A h \in Handlers : ~Busy(h)
    BY <1>1 DEF Crash
  <2>4. ~keyStale' => session' = session /\ statusKey' = statusKey
    BY <1>1, <2>3 DEF Crash, Cached
  <2>5. ~keyStale' => Decided /\ ~Dropping
    BY <2>3 DEF Decided, Midway, Dropping, At
  <2>6. KeyTrusted' /\ SessionsTrusted'
    BY <2>3, <2>4, <2>5 DEF RefuseInv, KeyInv, KeyTrusted, SessionsTrusted, Trusted, Accepted, Decided
  <2> QED BY <2>2, <2>6 DEF RefuseInv, KeyInv
<1>2. CASE Save \/ UNCHANGED vars
  <2>1. UNCHANGED <<account, session, statusKey, todo, req, clean, firm, keyStale>>
    BY <1>2 DEF Save, vars, cache, history
  <2>2. \A h \in Handlers : KeyOK(h)'
    <3> TAKE h \in Handlers
    <3>1. KeyOK(h)
      BY DEF RefuseInv, KeyInv
    <3> QED BY <2>1, <3>1 DEF KeyOK, WriterOK, RefreshOK, LoginOK, At, Busy, Decided, Midway, Trusted,
         Accepted, Written, Changed
  <2>3. KeyTrusted' /\ SessionsTrusted'
    BY <2>1 DEF RefuseInv, KeyInv, KeyTrusted, SessionsTrusted, Trusted, Accepted, Decided, Midway,
       Dropping, At, Busy
  <2> QED BY <2>2, <2>3 DEF RefuseInv, KeyInv
<1> QED BY <1>1, <1>2

LEMMA InitRefuse == Init => RefuseInv
<1> SUFFICES ASSUME Init PROVE RefuseInv
  OBVIOUS
<1>1. /\ \A h \in Handlers : todo[h] = <<>>
      /\ statusKey = None /\ firm = {}
  BY DEF Init, Empty
<1>2. \A h \in Handlers : KeyOK(h)
  BY <1>1 DEF KeyOK, WriterOK, RefreshOK, LoginOK, At, Busy
<1>3. KeyTrusted /\ SessionsTrusted
  BY <1>1 DEF KeyTrusted, SessionsTrusted
<1> QED BY <1>2, <1>3, InitSession DEF RefuseInv, KeyInv

LEMMA NextRefuse == RefuseInv /\ [Next]_vars => RefuseInv'
<1> SUFFICES ASSUME RefuseInv, [Next]_vars PROVE RefuseInv'
  OBVIOUS
<1>1. SessionInv'
  BY NextSession DEF RefuseInv
<1>2. ASSUME NEW h \in Handlers, Step(h) PROVE RefuseInv'
  BY <1>1, <1>2, ReadingRefuse, CacheRefuse, WritingRefuse, CloseSessionsRefuse DEF Step
<1> QED BY <1>1, <1>2, ReceiveRefuse, CacheRefuse, FileRefuse DEF Next

\* "The user is suspended" (MustAuthAndAccountAvailable, updateUserStatus): when
\* nothing is in flight and the last change of status met no conflicting request,
\* no open session lets in a user whom the row does not let in, for any number of
\* tokens, handlers and requests.
THEOREM SuspendedIsNotLetIn == Spec => []SuspendedIsRefused
<1>1. RefuseInv => SuspendedIsRefused
  <2> SUFFICES ASSUME RefuseInv, Quiet, ~keyStale, NEW t \in firm, session[t] # None,
                      Accepted(Effective(t))
               PROVE  Accepted(account)
    BY DEF SuspendedIsRefused
  <2>1. Decided /\ ~Dropping
    BY DEF Quiet, Decided, Midway, Dropping, At
  <2>2. CASE statusKey # None
    BY <2>1, <2>2 DEF RefuseInv, KeyInv, KeyTrusted, Trusted, Effective
  <2>3. CASE statusKey = None
    BY <2>1, <2>3 DEF RefuseInv, KeyInv, SessionsTrusted, Trusted, Effective
  <2> QED BY <2>2, <2>3
<1> QED BY InitRefuse, NextRefuse, <1>1, PTL DEF Spec
=============================================================================
