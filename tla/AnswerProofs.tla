----------------------------- MODULE AnswerProofs -----------------------------
(***************************************************************************)
(* Theorems about AnswerLifecycle, for any number of answers, users,       *)
(* questions, handlers and requests, and whichever statements fail.        *)
(***************************************************************************)
EXTENDS AnswerLifecycle, SequenceTheorems, FiniteSetTheorems, TLAPS

-----------------------------------------------------------------------------
(* What is left of a request *)

\* s is what is left of p.
Suffix(s, p) ==
  /\ Len(s) \in 0..Len(p)
  /\ \A i \in 1..Len(s) : s[i] = p[Len(p) - Len(s) + i]

\* The statements of every request.
Places(op, p) ==
  /\ op = "add" =>
       /\ Len(p) = 8
       /\ p[1] = "restrict" /\ p[2] = "insert" /\ p[3] = "queueReview" /\ p[4] = "setStatus"
       /\ p[5] = "countQuestion" /\ p[6] = "saveQuestion" /\ p[7] = "countUser"
       /\ p[8] = "saveUser"
  /\ op \in {"remove", "recover"} =>
       /\ Len(p) = 6
       /\ p[1] = IF op = "remove" THEN "readToRemove" ELSE "readToRecover"
       /\ p[2] = "setStatus"
       /\ p[3] = "countQuestion" /\ p[4] = "saveQuestion" /\ p[5] = "countUser"
       /\ p[6] = "saveUser"
  /\ op \in {"approve", "reject"} =>
       /\ Len(p) = 7
       /\ p[1] = "readReview" /\ p[2] = "setStatus"
       /\ p[3] = "countQuestion" /\ p[4] = "saveQuestion" /\ p[5] = "countUser"
       /\ p[6] = "saveUser" /\ p[7] = "closeReview"
  /\ op = "report" => Len(p) = 1 /\ p[1] = "addReport"
  /\ op = "reportDelete" =>
       /\ Len(p) = 8
       /\ p[1] = "readReport" /\ p[2] = "readToRemove" /\ p[3] = "setStatus"
       /\ p[4] = "countQuestion" /\ p[5] = "saveQuestion" /\ p[6] = "countUser"
       /\ p[7] = "saveUser" /\ p[8] = "closeReport"
  /\ op \in {"reportEdit", "reportIgnore"} =>
       Len(p) = 2 /\ p[1] = "readReport" /\ p[2] = "closeReport"

LEMMA Concatenation ==
  ASSUME NEW s \in Seq(Statements), NEW t \in Seq(Statements)
  PROVE  /\ Len(s) \in Nat
         /\ s \o t \in Seq(Statements) /\ Len(s \o t) = Len(s) + Len(t)
         /\ \A i \in 1..Len(s) : (s \o t)[i] = s[i]
         /\ \A i \in 1..Len(t) : (s \o t)[Len(s) + i] = t[i]
<1>1. Len(s) \in Nat /\ Len(t) \in Nat
  BY LenProperties
<1>2. /\ s \o t \in Seq(Statements) /\ Len(s \o t) = Len(s) + Len(t)
      /\ \A i \in 1..(Len(s) + Len(t)) :
           (s \o t)[i] = IF i <= Len(s) THEN s[i] ELSE t[i - Len(s)]
  BY ConcatProperties
<1>3. ASSUME NEW i \in 1..Len(t)
      PROVE  (s \o t)[Len(s) + i] = t[i]
  <2>1. Len(s) + i \in 1..(Len(s) + Len(t)) /\ ~(Len(s) + i <= Len(s)) /\ (Len(s) + i) - Len(s) = i
    BY <1>1
  <2> QED BY <1>2, <2>1
<1> QED BY <1>1, <1>2, <1>3

\* A program that goes on with a refresh, or with one more statement.
LEMMA ThenRefresh ==
  ASSUME NEW s \in Seq(Statements)
  PROVE  /\ s \o Refresh \in Seq(Statements) /\ Len(s \o Refresh) = Len(s) + 4
         /\ \A i \in 1..Len(s) : (s \o Refresh)[i] = s[i]
         /\ (s \o Refresh)[Len(s) + 1] = "countQuestion"
         /\ (s \o Refresh)[Len(s) + 2] = "saveQuestion"
         /\ (s \o Refresh)[Len(s) + 3] = "countUser"
         /\ (s \o Refresh)[Len(s) + 4] = "saveUser"
<1>1. /\ Refresh \in Seq(Statements) /\ Len(Refresh) = 4
      /\ Refresh[1] = "countQuestion" /\ Refresh[2] = "saveQuestion"
      /\ Refresh[3] = "countUser" /\ Refresh[4] = "saveUser"
  BY DEF Refresh, Statements
<1>2. 1 \in 1..4 /\ 2 \in 1..4 /\ 3 \in 1..4 /\ 4 \in 1..4
  OBVIOUS
<1>3. \A i \in 1..Len(Refresh) : (s \o Refresh)[Len(s) + i] = Refresh[i]
  BY <1>1, Concatenation
<1>4. /\ (s \o Refresh)[Len(s) + 1] = Refresh[1] /\ (s \o Refresh)[Len(s) + 2] = Refresh[2]
      /\ (s \o Refresh)[Len(s) + 3] = Refresh[3] /\ (s \o Refresh)[Len(s) + 4] = Refresh[4]
  BY <1>1, <1>2, <1>3
<1> QED BY <1>1, <1>4, Concatenation

LEMMA TwoThenRefresh ==
  ASSUME NEW s \in Seq(Statements), Len(s) = 2, NEW r, r = s \o Refresh
  PROVE  /\ r \in Seq(Statements) /\ Len(r) = 6
         /\ r[1] = s[1] /\ r[2] = s[2]
         /\ r[3] = "countQuestion" /\ r[4] = "saveQuestion"
         /\ r[5] = "countUser" /\ r[6] = "saveUser"
<1>1. /\ Len(s) + 1 = 3 /\ Len(s) + 2 = 4 /\ Len(s) + 3 = 5 /\ Len(s) + 4 = 6
      /\ 1 \in 1..Len(s) /\ 2 \in 1..Len(s)
  OBVIOUS
<1>2. /\ r \in Seq(Statements) /\ Len(r) = Len(s) + 4
      /\ \A i \in 1..Len(s) : r[i] = s[i]
      /\ r[Len(s) + 1] = "countQuestion" /\ r[Len(s) + 2] = "saveQuestion"
      /\ r[Len(s) + 3] = "countUser" /\ r[Len(s) + 4] = "saveUser"
  BY ThenRefresh
<1> QED BY <1>1, <1>2, Zenon

LEMMA ThreeThenRefresh ==
  ASSUME NEW s \in Seq(Statements), Len(s) = 3, NEW r, r = s \o Refresh
  PROVE  /\ r \in Seq(Statements) /\ Len(r) = 7
         /\ r[1] = s[1] /\ r[2] = s[2] /\ r[3] = s[3]
         /\ r[4] = "countQuestion" /\ r[5] = "saveQuestion"
         /\ r[6] = "countUser" /\ r[7] = "saveUser"
<1>1. /\ Len(s) + 1 = 4 /\ Len(s) + 2 = 5 /\ Len(s) + 3 = 6 /\ Len(s) + 4 = 7
      /\ 1 \in 1..Len(s) /\ 2 \in 1..Len(s) /\ 3 \in 1..Len(s)
  OBVIOUS
<1>2. /\ r \in Seq(Statements) /\ Len(r) = Len(s) + 4
      /\ \A i \in 1..Len(s) : r[i] = s[i]
      /\ r[Len(s) + 1] = "countQuestion" /\ r[Len(s) + 2] = "saveQuestion"
      /\ r[Len(s) + 3] = "countUser" /\ r[Len(s) + 4] = "saveUser"
  BY ThenRefresh
<1> QED BY <1>1, <1>2, Zenon

LEMMA FourThenRefresh ==
  ASSUME NEW s \in Seq(Statements), Len(s) = 4, NEW r, r = s \o Refresh
  PROVE  /\ r \in Seq(Statements) /\ Len(r) = 8
         /\ r[1] = s[1] /\ r[2] = s[2] /\ r[3] = s[3] /\ r[4] = s[4]
         /\ r[5] = "countQuestion" /\ r[6] = "saveQuestion"
         /\ r[7] = "countUser" /\ r[8] = "saveUser"
<1>1. /\ Len(s) + 1 = 5 /\ Len(s) + 2 = 6 /\ Len(s) + 3 = 7 /\ Len(s) + 4 = 8
      /\ 1 \in 1..Len(s) /\ 2 \in 1..Len(s) /\ 3 \in 1..Len(s) /\ 4 \in 1..Len(s)
  OBVIOUS
<1>2. /\ r \in Seq(Statements) /\ Len(r) = Len(s) + 4
      /\ \A i \in 1..Len(s) : r[i] = s[i]
      /\ r[Len(s) + 1] = "countQuestion" /\ r[Len(s) + 2] = "saveQuestion"
      /\ r[Len(s) + 3] = "countUser" /\ r[Len(s) + 4] = "saveUser"
  BY ThenRefresh
<1> QED BY <1>1, <1>2, Zenon

LEMMA ThenOne ==
  ASSUME NEW s \in Seq(Statements), NEW t \in Statements
  PROVE  /\ s \o <<t>> \in Seq(Statements) /\ Len(s \o <<t>>) = Len(s) + 1
         /\ \A i \in 1..Len(s) : (s \o <<t>>)[i] = s[i]
         /\ (s \o <<t>>)[Len(s) + 1] = t
<1> DEFINE u == <<t>>
<1>1. u \in Seq(Statements) /\ Len(u) = 1 /\ u[1] = t /\ 1 \in 1..Len(u)
  OBVIOUS
<1> HIDE DEF u
<1>2. /\ s \o u \in Seq(Statements) /\ Len(s \o u) = Len(s) + 1
      /\ \A i \in 1..Len(s) : (s \o u)[i] = s[i]
      /\ (s \o u)[Len(s) + 1] = t
  BY <1>1, Concatenation
<1> QED BY <1>2 DEF u

LEMMA ProgramPlaces ==
  ASSUME NEW op \in AllOperations
  PROVE  Program(op) \in Seq(Statements) /\ Places(op, Program(op))
<1>1. CASE op = "add"
  <2> DEFINE s == <<"restrict", "insert", "queueReview", "setStatus">>
  <2>1. /\ s \in Seq(Statements) /\ Len(s) = 4 /\ s[1] = "restrict" /\ s[2] = "insert"
        /\ s[3] = "queueReview" /\ s[4] = "setStatus"
    BY DEF Statements
  <2>2. Program(op) = s \o Refresh
    BY <1>1 DEF Program, AddAnswer
  <2> HIDE DEF s
  <2> QED BY <1>1, <2>1, <2>2, FourThenRefresh DEF Places
<1>2. CASE op \in {"remove", "recover"}
  <2> DEFINE s == <<IF op = "remove" THEN "readToRemove" ELSE "readToRecover", "setStatus">>
  <2>1. /\ s \in Seq(Statements) /\ Len(s) = 2 /\ s[2] = "setStatus"
        /\ s[1] = IF op = "remove" THEN "readToRemove" ELSE "readToRecover"
    BY DEF Statements
  <2>2. Program(op) = s \o Refresh
    BY <1>2 DEF Program, RemoveAnswer, RecoverAnswer
  <2> HIDE DEF s
  <2> QED BY <1>2, <2>1, <2>2, TwoThenRefresh DEF Places
<1>3. CASE op \in {"approve", "reject"}
  <2> DEFINE s == <<"readReview", "setStatus">>
             r == s \o Refresh
  <2>1. s \in Seq(Statements) /\ Len(s) = 2 /\ s[1] = "readReview" /\ s[2] = "setStatus"
    BY DEF Statements
  <2>2. Program(op) = r \o <<"closeReview">> /\ "closeReview" \in Statements
    BY <1>3 DEF Program, Decide, Statements
  <2> HIDE DEF s
  <2>3. /\ r \in Seq(Statements) /\ Len(r) = 6 /\ r[1] = "readReview" /\ r[2] = "setStatus"
        /\ r[3] = "countQuestion" /\ r[4] = "saveQuestion" /\ r[5] = "countUser" /\ r[6] = "saveUser"
    BY <2>1, TwoThenRefresh
  <2> HIDE DEF r
  <2> DEFINE p == r \o <<"closeReview">>
  <2>4. /\ p \in Seq(Statements) /\ Len(p) = Len(r) + 1
        /\ \A i \in 1..Len(r) : p[i] = r[i]
        /\ p[Len(r) + 1] = "closeReview"
    BY <2>2, <2>3, ThenOne
  <2>5. Program(op) = p
    BY <2>2
  <2> HIDE DEF p
  <2>6. /\ Len(r) + 1 = 7
        /\ 1 \in 1..Len(r) /\ 2 \in 1..Len(r) /\ 3 \in 1..Len(r) /\ 4 \in 1..Len(r) /\ 5 \in 1..Len(r) /\ 6 \in 1..Len(r)
    BY <2>3
  <2>7. /\ Len(p) = 7
        /\ p[1] = r[1] /\ p[2] = r[2] /\ p[3] = r[3] /\ p[4] = r[4] /\ p[5] = r[5] /\ p[6] = r[6]
        /\ p[7] = "closeReview"
    BY <2>4, <2>6, Zenon
  <2> QED BY <1>3, <2>3, <2>4, <2>5, <2>7 DEF Places
<1>4. CASE op = "reportDelete"
  <2> DEFINE s == <<"readReport", "readToRemove", "setStatus">>
             r == s \o Refresh
  <2>1. /\ s \in Seq(Statements) /\ Len(s) = 3 /\ s[1] = "readReport" /\ s[2] = "readToRemove"
        /\ s[3] = "setStatus"
    BY DEF Statements
  <2>2. Program(op) = r \o <<"closeReport">> /\ "closeReport" \in Statements
    BY <1>4 DEF Program, ReportDelete, Statements
  <2> HIDE DEF s
  <2>3. /\ r \in Seq(Statements) /\ Len(r) = 7 /\ r[1] = "readReport" /\ r[2] = "readToRemove"
        /\ r[3] = "setStatus" /\ r[4] = "countQuestion" /\ r[5] = "saveQuestion"
        /\ r[6] = "countUser" /\ r[7] = "saveUser"
    BY <2>1, ThreeThenRefresh
  <2> HIDE DEF r
  <2> DEFINE p == r \o <<"closeReport">>
  <2>4. /\ p \in Seq(Statements) /\ Len(p) = Len(r) + 1
        /\ \A i \in 1..Len(r) : p[i] = r[i]
        /\ p[Len(r) + 1] = "closeReport"
    BY <2>2, <2>3, ThenOne
  <2>5. Program(op) = p
    BY <2>2
  <2> HIDE DEF p
  <2>6. /\ Len(r) + 1 = 8
        /\ 1 \in 1..Len(r) /\ 2 \in 1..Len(r) /\ 3 \in 1..Len(r) /\ 4 \in 1..Len(r) /\ 5 \in 1..Len(r) /\ 6 \in 1..Len(r) /\ 7 \in 1..Len(r)
    BY <2>3
  <2>7. /\ Len(p) = 8
        /\ p[1] = r[1] /\ p[2] = r[2] /\ p[3] = r[3] /\ p[4] = r[4] /\ p[5] = r[5] /\ p[6] = r[6] /\ p[7] = r[7]
        /\ p[8] = "closeReport"
    BY <2>4, <2>6, Zenon
  <2> QED BY <1>4, <2>3, <2>4, <2>5, <2>7 DEF Places
<1>5. CASE op = "report"
  BY <1>5 DEF Program, Statements, Places
<1>6. CASE op \in {"reportEdit", "reportIgnore"}
  <2>1. Program(op) = <<"readReport", "closeReport">>
    BY <1>6 DEF Program
  <2>2. /\ Program(op) \in Seq(Statements) /\ Len(Program(op)) = 2
        /\ Program(op)[1] = "readReport" /\ Program(op)[2] = "closeReport"
    BY <2>1 DEF Statements
  <2> QED BY <1>6, <2>2 DEF Places
<1> QED BY <1>1, <1>2, <1>3, <1>4, <1>5, <1>6 DEF AllOperations

\* Skipping statements leaves a suffix.
LEMMA SkipSuffix ==
  ASSUME NEW p \in Seq(Statements), NEW s \in Seq(Statements), Suffix(s, p),
         NEW n \in Nat, n <= Len(s)
  PROVE  /\ SubSeq(s, n + 1, Len(s)) \in Seq(Statements)
         /\ Len(SubSeq(s, n + 1, Len(s))) = Len(s) - n
         /\ Suffix(SubSeq(s, n + 1, Len(s)), p)
<1> DEFINE t == SubSeq(s, n + 1, Len(s))
<1>1. Len(s) \in Nat /\ Len(p) \in Nat
  BY LenProperties
<1>2. \A i \in (n + 1)..Len(s) : s[i] \in Statements
  BY <1>1, ElementOfSeq
<1>3. /\ t \in Seq(Statements) /\ Len(t) = Len(s) - n
      /\ \A i \in 1..(Len(s) - n) : t[i] = s[n + i]
  <2>1. n + 1 \in Int /\ Len(s) \in Int
    BY <1>1
  <2>2. /\ t \in Seq(Statements)
        /\ Len(t) = IF n + 1 <= Len(s) THEN Len(s) - (n + 1) + 1 ELSE 0
        /\ \A i \in 1..(Len(s) - (n + 1) + 1) : t[i] = s[(n + 1) + i - 1]
    BY <1>2, <2>1, SubSeqProperties
  <2>3. Len(t) = Len(s) - n
    BY <1>1, <2>2
  <2>4. ASSUME NEW i \in 1..(Len(s) - n)
        PROVE  t[i] = s[n + i]
    <3>1. i \in 1..(Len(s) - (n + 1) + 1) /\ (n + 1) + i - 1 = n + i
      BY <1>1
    <3> QED BY <2>2, <3>1
  <2> QED BY <2>2, <2>3, <2>4
<1> HIDE DEF t
<1>4. ASSUME NEW i \in 1..Len(t)
      PROVE  t[i] = p[Len(p) - Len(t) + i]
  <2>1. n + i \in 1..Len(s) /\ Len(p) - Len(s) + (n + i) = Len(p) - Len(t) + i
    BY <1>1, <1>3
  <2>2. t[i] = s[n + i]
    BY <1>3
  <2> QED BY <2>1, <2>2 DEF Suffix
<1>5. Len(t) \in 0..Len(p)
  BY <1>1, <1>3 DEF Suffix
<1> QED BY <1>3, <1>4, <1>5 DEF Suffix, t
-----------------------------------------------------------------------------
(* Types *)

\* Where a request with n statements left stands.
Standing(op, n, s) ==
  /\ op = "add" =>
       \/ n = 8 /\ s = "restrict"
       \/ n = 7 /\ s = "insert"
       \/ n = 6 /\ s = "queueReview"
       \/ n = 5 /\ s = "setStatus"
       \/ n = 4 /\ s = "countQuestion"
       \/ n = 3 /\ s = "saveQuestion"
       \/ n = 2 /\ s = "countUser"
       \/ n = 1 /\ s = "saveUser"
  /\ op \in {"remove", "recover"} =>
       \/ n = 6 /\ s = IF op = "remove" THEN "readToRemove" ELSE "readToRecover"
       \/ n = 5 /\ s = "setStatus"
       \/ n = 4 /\ s = "countQuestion"
       \/ n = 3 /\ s = "saveQuestion"
       \/ n = 2 /\ s = "countUser"
       \/ n = 1 /\ s = "saveUser"
  /\ op \in {"approve", "reject"} =>
       \/ n = 7 /\ s = "readReview"
       \/ n = 6 /\ s = "setStatus"
       \/ n = 5 /\ s = "countQuestion"
       \/ n = 4 /\ s = "saveQuestion"
       \/ n = 3 /\ s = "countUser"
       \/ n = 2 /\ s = "saveUser"
       \/ n = 1 /\ s = "closeReview"
  /\ op = "report" => n = 1 /\ s = "addReport"
  /\ op = "reportDelete" =>
       \/ n = 8 /\ s = "readReport"
       \/ n = 7 /\ s = "readToRemove"
       \/ n = 6 /\ s = "setStatus"
       \/ n = 5 /\ s = "countQuestion"
       \/ n = 4 /\ s = "saveQuestion"
       \/ n = 3 /\ s = "countUser"
       \/ n = 2 /\ s = "saveUser"
       \/ n = 1 /\ s = "closeReport"
  /\ op \in {"reportEdit", "reportIgnore"} =>
       \/ n = 2 /\ s = "readReport"
       \/ n = 1 /\ s = "closeReport"

LEMMA SuffixStands ==
  ASSUME NEW op \in AllOperations, NEW s \in Seq(Statements), s # <<>>, Suffix(s, Program(op))
  PROVE  /\ Len(s) \in Nat \ {0} /\ Len(s) <= Len(Program(op))
         /\ Standing(op, Len(s), Head(s))
<1> DEFINE p == Program(op)
           n == Len(s)
           k == Len(p) - n + 1
           at == Head(s)
<1>1. n \in Nat \ {0} /\ n <= Len(p) /\ Len(p) \in Nat
  BY ProgramPlaces, LenProperties, EmptySeq DEF Suffix
<1>2. Places(op, p)
  BY ProgramPlaces
<1>3. k = Len(p) - n + 1
  OBVIOUS
<1>4. at = p[k]
  <2>1. Head(s) = s[1] /\ 1 \in 1..n
    BY <1>1
  <2> QED BY <2>1 DEF Suffix
<1> SUFFICES Standing(op, n, at)
  BY <1>1
<1> HIDE DEF p, n, k, at
<1>5. CASE op \in {"add", "reportDelete"}
  <2>1. Len(p) = 8
    BY <1>2, <1>5, Zenon DEF Places
  <2>2. \/ n = 8 /\ k = 1
        \/ n = 7 /\ k = 2
        \/ n = 6 /\ k = 3
        \/ n = 5 /\ k = 4
        \/ n = 4 /\ k = 5
        \/ n = 3 /\ k = 6
        \/ n = 2 /\ k = 7
        \/ n = 1 /\ k = 8
    BY <1>1, <1>3, <2>1
  <2>3. CASE op = "add"
    BY <1>2, <1>4, <2>2, <2>3 DEF Places, Standing
  <2>4. CASE op = "reportDelete"
    BY <1>2, <1>4, <2>2, <2>4 DEF Places, Standing
  <2> QED BY <1>5, <2>3, <2>4
<1>6. CASE op \in {"remove", "recover"}
  <2>1. Len(p) = 6
    BY <1>2, <1>6, Zenon DEF Places
  <2>2. \/ n = 6 /\ k = 1
        \/ n = 5 /\ k = 2
        \/ n = 4 /\ k = 3
        \/ n = 3 /\ k = 4
        \/ n = 2 /\ k = 5
        \/ n = 1 /\ k = 6
    BY <1>1, <1>3, <2>1
  <2>3. CASE op = "remove"
    BY <1>2, <1>4, <2>2, <2>3 DEF Places, Standing
  <2>4. CASE op = "recover"
    BY <1>2, <1>4, <2>2, <2>4 DEF Places, Standing
  <2> QED BY <1>6, <2>3, <2>4
<1>7. CASE op \in {"approve", "reject"}
  <2>1. Len(p) = 7
    BY <1>2, <1>7, Zenon DEF Places
  <2>2. \/ n = 7 /\ k = 1
        \/ n = 6 /\ k = 2
        \/ n = 5 /\ k = 3
        \/ n = 4 /\ k = 4
        \/ n = 3 /\ k = 5
        \/ n = 2 /\ k = 6
        \/ n = 1 /\ k = 7
    BY <1>1, <1>3, <2>1
  <2>3. CASE op = "approve"
    BY <1>2, <1>4, <2>2, <2>3 DEF Places, Standing
  <2>4. CASE op = "reject"
    BY <1>2, <1>4, <2>2, <2>4 DEF Places, Standing
  <2> QED BY <1>7, <2>3, <2>4
<1>8. CASE op \in {"report"}
  <2>1. Len(p) = 1
    BY <1>2, <1>8, Zenon DEF Places
  <2>2. \/ n = 1 /\ k = 1
    BY <1>1, <1>3, <2>1
  <2>3. CASE op = "report"
    BY <1>2, <1>4, <2>2, <2>3 DEF Places, Standing
  <2> QED BY <1>8, <2>3
<1>9. CASE op \in {"reportEdit", "reportIgnore"}
  <2>1. Len(p) = 2
    BY <1>2, <1>9, Zenon DEF Places
  <2>2. \/ n = 2 /\ k = 1
        \/ n = 1 /\ k = 2
    BY <1>1, <1>3, <2>1
  <2>3. CASE op = "reportEdit"
    BY <1>2, <1>4, <2>2, <2>3 DEF Places, Standing
  <2>4. CASE op = "reportIgnore"
    BY <1>2, <1>4, <2>2, <2>4 DEF Places, Standing
  <2> QED BY <1>9, <2>3, <2>4
<1> QED BY <1>5, <1>6, <1>7, <1>8, <1>9 DEF AllOperations
\* What a handler serves.
WorkAt(h) ==
  IF todo[h] = <<>> THEN req[h] = NoRequest
  ELSE req[h] \in Requests /\ Suffix(todo[h], Program(req[h].op))

ControlOK ==
  /\ todo \in [Handlers -> Seq(Statements)]
  /\ req \in [Handlers -> Requests \cup {NoRequest}]
  /\ \A h \in Handlers : WorkAt(h)

Counts == 0..Cardinality(Answers)

DataOK ==
  /\ status \in [Answers -> Statuses]
  /\ review \in [Answers -> ReviewStatuses]
  /\ report \in [Answers -> ReportStatuses]
  /\ answerCount \in [Counted -> Counts]
  /\ received \in 0..MaxRequests
  /\ tally \in [Handlers -> Counts]
  /\ clean \in [Handlers -> BOOLEAN]
  /\ exact \in [Counted -> BOOLEAN]
  /\ broken \in [Answers -> BOOLEAN]
  /\ overtaken \subseteq Answers
  /\ restored \subseteq Handlers

Typed == ControlOK /\ DataOK

\* Only handler h moves, over n statements.
Moves(h, n) ==
  /\ \A g \in Handlers \ {h} : todo'[g] = todo[g] /\ req'[g] = req[g]
  /\ todo' \in [Handlers -> Seq(Statements)] /\ req' \in [Handlers -> Requests \cup {NoRequest}]
  /\ n \in 1..Len(todo[h]) /\ Len(todo'[h]) = Len(todo[h]) - n
  /\ IF n = Len(todo[h]) THEN todo'[h] = <<>> /\ req'[h] = NoRequest
     ELSE todo'[h] # <<>> /\ req'[h] = req[h] /\ Suffix(todo'[h], Program(req[h].op))

LEMMA HandlerFacts ==
  ASSUME Typed, NEW h \in Handlers, Busy(h)
  PROVE  /\ req[h] \in Requests /\ req[h].op \in AllOperations /\ req[h].answer \in Answers
         /\ Answer(h) = req[h].answer /\ req[h].verdict \in AllVerdicts
         /\ QuestionOf[Answer(h)] \in Counted /\ Author[Answer(h)] \in Counted
         /\ QuestionOf[Answer(h)] # Author[Answer(h)]
         /\ Len(todo[h]) \in Nat \ {0} /\ Suffix(todo[h], Program(req[h].op))
         /\ todo[h] \in Seq(Statements)
         /\ Standing(req[h].op, Len(todo[h]), Head(todo[h]))
<1>1. /\ req[h] \in Requests /\ Suffix(todo[h], Program(req[h].op))
      /\ todo[h] # <<>> /\ todo[h] \in Seq(Statements)
  BY DEF Typed, ControlOK, WorkAt, Busy
<1>2. /\ req[h].op \in AllOperations /\ req[h].answer \in Answers /\ req[h].verdict \in AllVerdicts
      /\ Answer(h) = req[h].answer
  BY <1>1 DEF Requests, Answer
<1>3. QuestionOf[Answer(h)] \in Questions /\ Author[Answer(h)] \in Users
  BY <1>2, AnswerAssumption
<1>4. QuestionOf[Answer(h)] # Author[Answer(h)]
  BY <1>3, AnswerAssumption
<1> QED BY <1>1, <1>2, <1>3, <1>4, SuffixStands DEF Counted

LEMMA ShortOfAll ==
  ASSUME NEW n \in Nat, n \in {2, 3, 4, 5, 6, 7}
  PROVE  n - 1 \in 1..n /\ 2 \in 1..n
OBVIOUS

LEMMA SkipMoves ==
  ASSUME Typed, NEW h \in Handlers, Busy(h), NEW n \in 1..Len(todo[h]), Skip(h, n)
  PROVE  Moves(h, n)
<1> DEFINE p == Program(req[h].op)
           t == SubSeq(todo[h], n + 1, Len(todo[h]))
<1>1. /\ Len(todo[h]) \in Nat \ {0} /\ todo[h] \in Seq(Statements) /\ p \in Seq(Statements)
      /\ Suffix(todo[h], p) /\ n \in Nat /\ n <= Len(todo[h])
  BY HandlerFacts, ProgramPlaces
<1>2. t \in Seq(Statements) /\ Len(t) = Len(todo[h]) - n /\ Suffix(t, p)
  BY <1>1, SkipSuffix
<1> HIDE DEF p, t
<1>3. todo' = [todo EXCEPT ![h] = t]
      /\ req' = [req EXCEPT ![h] = IF Len(todo[h]) = n THEN NoRequest ELSE @]
  BY DEF Skip, t
<1>4. t = <<>> <=> Len(todo[h]) = n
  BY <1>1, <1>2, EmptySeq
<1> QED BY <1>1, <1>2, <1>3, <1>4 DEF Moves, Typed, ControlOK, p

LEMMA AdvanceMoves ==
  ASSUME Typed, NEW h \in Handlers, Busy(h), Advance(h)
  PROVE  Moves(h, 1)
<1>1. 1 \in 1..Len(todo[h])
  BY HandlerFacts
<1> QED BY <1>1, SkipMoves DEF Advance

\* A request that returns is over, but a report whose answer is deleted still
\* has to be closed.
LEMMA ReturnMoves ==
  ASSUME Typed, NEW h \in Handlers, Busy(h), Return(h)
  PROVE  \/ Moves(h, Len(todo[h]))
         \/ /\ req[h].op = "reportDelete" /\ Len(todo[h]) \in {2, 3, 4, 5, 6, 7}
            /\ Moves(h, Len(todo[h]) - 1)
<1>1. Len(todo[h]) \in Nat \ {0} /\ Standing(req[h].op, Len(todo[h]), Head(todo[h]))
  BY HandlerFacts
<1>2. CASE req[h].op = "reportDelete" /\ Head(todo[h]) \notin {"readReport", "closeReport"}
  <2>1. Len(todo[h]) \in {2, 3, 4, 5, 6, 7}
    BY <1>1, <1>2 DEF Standing
  <2>2. Skip(h, Len(todo[h]) - 1)
    BY <1>2 DEF Return
  <2>3. Len(todo[h]) - 1 \in 1..Len(todo[h])
    BY <1>1, <2>1, ShortOfAll
  <2> QED BY <1>2, <2>1, <2>2, <2>3, SkipMoves
<1>3. CASE ~(req[h].op = "reportDelete" /\ Head(todo[h]) \notin {"readReport", "closeReport"})
  <2>1. Skip(h, Len(todo[h])) /\ Len(todo[h]) \in 1..Len(todo[h])
    BY <1>1, <1>3 DEF Return
  <2> QED BY <2>1, SkipMoves
<1> QED BY <1>2, <1>3

LEMMA MovesKeep ==
  ASSUME Typed, NEW h \in Handlers, Busy(h), NEW n, Moves(h, n)
  PROVE  ControlOK'
<1>1. ASSUME NEW g \in Handlers
      PROVE  WorkAt(g)'
  <2>1. CASE g # h
    BY <2>1 DEF Moves, Typed, ControlOK, WorkAt
  <2>2. CASE g = h
    BY <2>2, HandlerFacts DEF Moves, WorkAt
  <2> QED BY <2>1, <2>2
<1> QED BY <1>1 DEF ControlOK, Moves

LEMMA VisibleCount ==
  ASSUME NEW x
  PROVE  Visible(x) \in Counts
<1> DEFINE seen == {a \in Answers : x \in {QuestionOf[a], Author[a]} /\ status[a] = "available"}
<1>1. IsFiniteSet(Answers) /\ seen \subseteq Answers
  BY AnswerAssumption
<1> HIDE DEF seen
<1>2. IsFiniteSet(seen) /\ Cardinality(seen) <= Cardinality(Answers)
  BY <1>1, FS_Subset
<1>3. Cardinality(seen) \in Nat /\ Cardinality(Answers) \in Nat
  BY <1>1, <1>2, FS_CardinalityType
<1>4. Cardinality(seen) \in Counts
  BY <1>2, <1>3 DEF Counts
<1> QED BY <1>4 DEF Visible, seen

LEMMA ZeroCount == 0 \in Counts
<1>1. Cardinality(Answers) \in Nat
  BY AnswerAssumption, FS_CardinalityType
<1> QED BY <1>1 DEF Counts

LEMMA TypedInit == Init => Typed
<1> SUFFICES ASSUME Init PROVE Typed
  OBVIOUS
<1>1. ControlOK
  BY DEF Init, ControlOK, WorkAt
<1>2. 0 \in 0..MaxRequests
  BY AnswerAssumption
<1> QED BY <1>1, <1>2, ZeroCount DEF Init, Typed, DataOK, Statuses, ReviewStatuses, ReportStatuses

LEMMA ReceiveTyped ==
  ASSUME Typed, NEW h \in Handlers, NEW op \in Operations, NEW a \in Answers,
         NEW verdict \in Verdicts, Receive(h, op, a, verdict)
  PROVE  Typed'
<1> DEFINE q == [op |-> op, answer |-> a, verdict |-> verdict]
           p == Program(op)
<1>1. q \in Requests /\ q.op = op
  BY AnswerAssumption DEF Requests
<1>2. op \in AllOperations
  BY AnswerAssumption
<1>3. p \in Seq(Statements) /\ p # <<>> /\ Suffix(p, p)
  <2>1. p \in Seq(Statements) /\ Places(op, p)
    BY <1>2, ProgramPlaces
  <2> HIDE DEF p
  <2>2. Len(p) \in Nat /\ Len(p) # 0
    BY <1>2, <2>1, LenProperties DEF Places, AllOperations
  <2> QED BY <2>1, <2>2, EmptySeq DEF Suffix
<1>4. /\ todo' = [todo EXCEPT ![h] = p] /\ req' = [req EXCEPT ![h] = q]
      /\ received' = received + 1 /\ received < MaxRequests
      /\ UNCHANGED <<table, tally, broken, overtaken>> /\ restored' = restored \ {h}
  BY DEF Receive
<1>5. clean' \in [Handlers -> BOOLEAN]
  <2>1. /\ clean' = [g \in Handlers |-> IF g = h THEN {i \in Handlers : Busy(i)} = {}
                                        ELSE clean[g] /\ g \notin {i \in Handlers : Busy(i)}]
    BY DEF Receive
  <2> QED BY <2>1 DEF Typed, DataOK
<1>6. exact' \in [Counted -> BOOLEAN]
  BY DEF Receive, Typed, DataOK
<1>7. p = Program(op)
  OBVIOUS
<1> HIDE DEF p, q
<1>8. ASSUME NEW g \in Handlers
      PROVE  WorkAt(g)'
  <2>1. CASE g = h
    <3>1. todo'[g] = p /\ req'[g] = q
      BY <1>4, <2>1 DEF Typed, ControlOK
    <3> QED BY <1>1, <1>3, <1>7, <3>1 DEF WorkAt
  <2>2. CASE g # h
    BY <1>4, <2>2 DEF Typed, ControlOK, WorkAt
  <2> QED BY <2>1, <2>2
<1>9. ControlOK'
  BY <1>1, <1>3, <1>4, <1>8 DEF Typed, ControlOK
<1>10. received' \in 0..MaxRequests
  BY <1>4, AnswerAssumption DEF Typed, DataOK
<1> QED BY <1>4, <1>5, <1>6, <1>9, <1>10 DEF Typed, DataOK, table

LEMMA RemoveAllTyped ==
  ASSUME Typed, NEW u \in Users, RemoveAllUserAnswer(u)
  PROVE  Typed'
<1>1. ControlOK'
  BY DEF RemoveAllUserAnswer, Typed, ControlOK, WorkAt
<1>2. status' \in [Answers -> Statuses]
  BY DEF RemoveAllUserAnswer, Typed, DataOK, Statuses
<1>3. exact' \in [Counted -> BOOLEAN] /\ clean' \in [Handlers -> BOOLEAN]
  BY DEF RemoveAllUserAnswer, Typed, DataOK
<1>4. received' \in 0..MaxRequests
  BY AnswerAssumption DEF RemoveAllUserAnswer, Typed, DataOK
<1> QED BY <1>1, <1>2, <1>3, <1>4 DEF RemoveAllUserAnswer, Typed, DataOK

LEMMA StatementGoesOn ==
  ASSUME Typed, NEW h \in Handlers, Step(h) \/ Fail(h) \/ Die(h) \/ Tolerate(h)
  PROVE  Busy(h) /\ \E n \in 1..Len(todo[h]) : Moves(h, n)
<1>1. Busy(h)
  BY DEF Step, CheckRestriction, Insert, QueueReview, ReadToRemove, ReadToRecover, ReadReview, ReadReport,
         SetStatus, CountQuestion, SaveQuestion, CountUser, SaveUser, Count, Save, CloseReview,
         AddReport, CloseReport, Fail, Die, Tolerate, Break, At
<1>2. Len(todo[h]) \in Nat \ {0} /\ Standing(req[h].op, Len(todo[h]), Head(todo[h]))
  BY <1>1, HandlerFacts
<1>3. CASE Advance(h)
  BY <1>1, <1>2, <1>3, AdvanceMoves
<1>4. CASE Return(h)
  <2>1. Len(todo[h]) \in 1..Len(todo[h])
    BY <1>2
  <2>2. Len(todo[h]) \in {2, 3, 4, 5, 6, 7} => Len(todo[h]) - 1 \in 1..Len(todo[h])
    BY <1>2, ShortOfAll
  <2> QED BY <1>1, <1>4, <2>1, <2>2, ReturnMoves
<1>5. CASE Skip(h, Len(todo[h]))
  BY <1>1, <1>2, <1>5, SkipMoves
<1>6. CASE Skip(h, 2) /\ (At(h, "countQuestion") \/ At(h, "countUser"))
  <2>1. Head(todo[h]) \in {"countQuestion", "countUser"} /\ req[h].op \in AllOperations
    BY <1>1, <1>6, HandlerFacts DEF At
  <2>2. Len(todo[h]) \in {2, 3, 4, 5}
    BY <1>2, <2>1 DEF Standing, AllOperations
  <2>3. 2 \in 1..Len(todo[h])
    BY <1>2, <2>2, ShortOfAll
  <2> QED BY <1>1, <1>6, <2>3, SkipMoves
<1> QED BY <1>1, <1>3, <1>4, <1>5, <1>6
        DEF Step, CheckRestriction, Insert, QueueReview, ReadToRemove, ReadToRecover, ReadReview, ReadReport,
            SetStatus, CountQuestion, SaveQuestion, CountUser, SaveUser, Count, Save, CloseReview,
            AddReport, CloseReport, Fail, Die, Tolerate

LEMMA StatementData ==
  ASSUME Typed, NEW h \in Handlers, Step(h) \/ Fail(h) \/ Die(h) \/ Tolerate(h)
  PROVE  DataOK'
<1>1. Busy(h)
  BY StatementGoesOn
<1>2. /\ req[h] \in Requests /\ Answer(h) \in Answers
      /\ QuestionOf[Answer(h)] \in Counted /\ Author[Answer(h)] \in Counted
      /\ req[h].verdict \in AllVerdicts
  BY <1>1, HandlerFacts
<1>3. CASE CheckRestriction(h) \/ ReadToRemove(h) \/ ReadToRecover(h) \/ ReadReview(h) \/ ReadReport(h)
  BY <1>3 DEF CheckRestriction, ReadToRemove, ReadToRecover, ReadReview, ReadReport, table, history,
              Typed, DataOK
<1>4. CASE Insert(h)
  BY <1>4, <1>2 DEF Insert, history, Typed, DataOK, Statuses
<1>5. CASE QueueReview(h)
  BY <1>5, <1>2 DEF QueueReview, history, Typed, DataOK, ReviewStatuses
<1>6. CASE SetStatus(h)
  <2>1. NewStatus(req[h]) \in Statuses
    BY <1>2 DEF NewStatus, StatusOf, AllVerdicts, Statuses
  <2>2. overtaken' \subseteq Answers /\ restored' \subseteq Handlers
    BY <1>6, <1>2 DEF SetStatus, Typed, DataOK
  <2>3. /\ status' = [status EXCEPT ![Answer(h)] = NewStatus(req[h])]
        /\ UNCHANGED <<review, report, answerCount, received, tally, clean, exact, broken>>
    BY <1>6 DEF SetStatus
  <2> QED BY <1>2, <2>1, <2>2, <2>3 DEF Typed, DataOK
<1>7. ASSUME NEW s, NEW x \in Counted, Count(h, s, x)
      PROVE  DataOK'
  BY <1>7, VisibleCount DEF Count, table, history, Typed, DataOK
<1>8. ASSUME NEW s, NEW x \in Counted, Save(h, s, x)
      PROVE  DataOK'
  <2>1. exact' \in [Counted -> BOOLEAN]
    <3>1. exact' = [exact EXCEPT ![x] = exact[x] \/ clean[h]]
      BY <1>8 DEF Save
    <3> QED BY <3>1 DEF Typed, DataOK
  <2> QED BY <1>8, <2>1, ZeroCount DEF Save, Typed, DataOK
<1>9. CASE CountQuestion(h) \/ CountUser(h)
  BY <1>9, <1>2, <1>7 DEF CountQuestion, CountUser
<1>10. CASE SaveQuestion(h) \/ SaveUser(h)
  BY <1>10, <1>2, <1>8 DEF SaveQuestion, SaveUser
<1>11. CASE CloseReview(h)
  BY <1>11, <1>2 DEF CloseReview, history, Typed, DataOK, ReviewStatuses
<1>12. CASE AddReport(h)
  BY <1>12, <1>2 DEF AddReport, history, Typed, DataOK, ReportStatuses
<1>13. CASE CloseReport(h)
  BY <1>13, <1>2 DEF CloseReport, history, Typed, DataOK, ReportStatuses
<1>14. CASE Fail(h) \/ Die(h) \/ Tolerate(h)
  <2>1. /\ broken' = [broken EXCEPT ![Answer(h)] = TRUE] /\ clean' = [clean EXCEPT ![h] = FALSE]
        /\ exact' = [exact EXCEPT ![QuestionOf[Answer(h)]] = FALSE, ![Author[Answer(h)]] = FALSE]
        /\ overtaken' = overtaken /\ restored' = restored
    BY <1>14 DEF Fail, Die, Tolerate, Break
  <2> QED BY <1>14, <1>2, <2>1, ZeroCount DEF Fail, Die, Tolerate, table, Typed, DataOK
<1> QED BY <1>3, <1>4, <1>5, <1>6, <1>9, <1>10, <1>11, <1>12, <1>13, <1>14 DEF Step

LEMMA TypedStep ==
  ASSUME Typed, [Next]_vars
  PROVE  Typed'
<1>1. CASE \E h \in Handlers, op \in Operations, a \in Answers, verdict \in Verdicts :
             Receive(h, op, a, verdict)
  BY <1>1, ReceiveTyped
<1>2. CASE \E h \in Handlers : Step(h) \/ Fail(h) \/ Die(h) \/ Tolerate(h)
  BY <1>2, StatementGoesOn, StatementData, MovesKeep DEF Typed
<1>3. CASE \E u \in Users : RemoveAllUserAnswer(u)
  BY <1>3, RemoveAllTyped
<1>4. CASE UNCHANGED vars
  BY <1>4 DEF vars, table, history, Typed, DataOK, ControlOK, WorkAt
<1> QED BY <1>1, <1>2, <1>3, <1>4 DEF Next

\* Every variable of AnswerLifecycle has its type, whatever fails.
THEOREM TypeCorrect == Spec => []TypeOK
<1>1. Typed => TypeOK
  <2> SUFFICES ASSUME Typed PROVE TypeOK
    OBVIOUS
  <2>1. ASSUME NEW h \in Handlers
        PROVE  Busy(h) <=> req[h] # NoRequest
    BY AnswerAssumption DEF Typed, ControlOK, WorkAt, Busy
  <2> QED BY <2>1 DEF Typed, ControlOK, DataOK, TypeOK, Counts
<1> QED BY <1>1, TypedInit, TypedStep, PTL DEF Spec
-----------------------------------------------------------------------------
(* What follows a statement *)

Refreshing == {"add", "remove", "recover", "approve", "reject", "reportDelete"}

Follows(op, s, done, next) ==
  /\ s = "restrict" => op = "add" /\ ~done /\ next = "insert"
  /\ s = "insert" => op = "add" /\ ~done /\ next = "queueReview"
  /\ s = "queueReview" => op = "add" /\ ~done /\ next = "setStatus"
  /\ s = "readToRemove" => op \in {"remove", "reportDelete"} /\ ~done /\ next = "setStatus"
  /\ s = "readToRecover" => op = "recover" /\ ~done /\ next = "setStatus"
  /\ s = "readReview" => op \in {"approve", "reject"} /\ ~done /\ next = "setStatus"
  /\ s = "readReport" => /\ op \in {"reportDelete", "reportEdit", "reportIgnore"} /\ ~done
                         /\ next = IF op = "reportDelete" THEN "readToRemove" ELSE "closeReport"
  /\ s = "setStatus" => op \in Refreshing /\ ~done /\ next = "countQuestion"
  /\ s = "countQuestion" => op \in Refreshing /\ ~done /\ next = "saveQuestion"
  /\ s = "saveQuestion" => op \in Refreshing /\ ~done /\ next = "countUser"
  /\ s = "countUser" => op \in Refreshing /\ ~done /\ next = "saveUser"
  /\ s = "saveUser" => \/ op \in {"add", "remove", "recover"} /\ done
                       \/ op \in {"approve", "reject"} /\ ~done /\ next = "closeReview"
                       \/ op = "reportDelete" /\ ~done /\ next = "closeReport"
  /\ s = "closeReview" => op \in {"approve", "reject"} /\ done
  /\ s = "addReport" => op = "report" /\ done
  /\ s = "closeReport" => op \in {"reportDelete", "reportEdit", "reportIgnore"} /\ done

LEMMA NextStatement ==
  ASSUME Typed, NEW h \in Handlers, Busy(h), Moves(h, 1)
  PROVE  Follows(req[h].op, Head(todo[h]), todo'[h] = <<>>, Head(todo'[h]))
<1> DEFINE op == req[h].op
           n == Len(todo[h])
           s == Head(todo[h])
           done == todo'[h] = <<>>
           next == Head(todo'[h])
<1>1. op \in AllOperations /\ n \in Nat \ {0} /\ Standing(op, n, s)
  BY HandlerFacts
<1>2. done <=> n = 1
  BY DEF Moves
<1>3. ~done => Standing(op, n - 1, next)
  <2>1. ~done => /\ todo'[h] # <<>> /\ todo'[h] \in Seq(Statements) /\ Len(todo'[h]) = n - 1
                 /\ Suffix(todo'[h], Program(op))
    BY DEF Moves
  <2> QED BY <1>1, <2>1, SuffixStands
<1> SUFFICES Follows(op, s, done, next)
  OBVIOUS
<1> HIDE DEF op, n, s, done, next
<1>4. CASE op = "add"
  BY <1>1, <1>2, <1>3, <1>4 DEF Standing, Follows, Refreshing
<1>5. CASE op \in {"remove", "recover"}
  BY <1>1, <1>2, <1>3, <1>5 DEF Standing, Follows, Refreshing
<1>6. CASE op \in {"approve", "reject"}
  BY <1>1, <1>2, <1>3, <1>6 DEF Standing, Follows, Refreshing
<1>7. CASE op \in {"report", "reportEdit", "reportIgnore"}
  BY <1>1, <1>2, <1>3, <1>7 DEF Standing, Follows, Refreshing
<1>8. CASE op = "reportDelete"
  BY <1>1, <1>2, <1>3, <1>8 DEF Standing, Follows, Refreshing
<1> QED BY <1>1, <1>4, <1>5, <1>6, <1>7, <1>8 DEF AllOperations

\* Where a request that returns early goes on.
LEMMA AfterReturn ==
  ASSUME Typed, NEW h \in Handlers, Busy(h), Return(h)
  PROVE  /\ \E n \in 1..Len(todo[h]) : Moves(h, n)
         /\ todo'[h] # <<>> => req[h].op = "reportDelete" /\ Head(todo'[h]) = "closeReport"
<1>1. Len(todo[h]) \in Nat \ {0}
  BY HandlerFacts
<1>2. CASE Moves(h, Len(todo[h]))
  BY <1>1, <1>2 DEF Moves
<1>3. CASE /\ req[h].op = "reportDelete" /\ Len(todo[h]) \in {2, 3, 4, 5, 6, 7}
           /\ Moves(h, Len(todo[h]) - 1)
  <2>1. Len(todo[h]) - 1 \in 1..Len(todo[h])
    BY <1>1, <1>3, ShortOfAll
  <2>2. /\ todo'[h] # <<>> /\ todo'[h] \in Seq(Statements)
        /\ Suffix(todo'[h], Program("reportDelete"))
    BY <1>1, <1>3 DEF Moves
  <2>3. Len(todo'[h]) = 1
    BY <1>1, <1>3 DEF Moves
  <2>4. Standing("reportDelete", 1, Head(todo'[h]))
    BY <2>2, <2>3, SuffixStands DEF AllOperations
  <2> QED BY <1>3, <2>1, <2>4 DEF Standing
<1> QED BY <1>2, <1>3, ReturnMoves

\* An addition that is past its first statement does not come back to it.
LEMMA PastInsert ==
  ASSUME Typed, NEW h \in Handlers, Busy(h), NEW n \in 1..Len(todo[h]), Moves(h, n),
         Head(todo[h]) # "restrict", todo'[h] # <<>>, req[h].op = "add"
  PROVE  Head(todo'[h]) \notin {"restrict", "insert"}
<1> DEFINE k == Len(todo[h])
           l == Len(todo'[h])
           s == Head(todo[h])
           t == Head(todo'[h])
<1>1. k \in Nat \ {0} /\ Standing("add", k, s)
  BY HandlerFacts
<1>2. n \in 1..k /\ l = k - n
  BY DEF Moves
<1>3. l \in Nat \ {0} /\ Standing("add", l, t)
  <2>1. todo'[h] # <<>> /\ todo'[h] \in Seq(Statements) /\ Suffix(todo'[h], Program("add"))
    BY DEF Moves
  <2> QED BY <2>1, SuffixStands DEF AllOperations
<1> SUFFICES s # "restrict" => t \notin {"restrict", "insert"}
  OBVIOUS
<1> HIDE DEF k, l, s, t
<1>4. k \in {1, 2, 3, 4, 5, 6, 7, 8} /\ (k = 8 => s = "restrict")
  BY <1>1 DEF Standing
<1>5. l \in {7, 8} => k = 8
  BY <1>1, <1>2, <1>4
<1> QED BY <1>3, <1>4, <1>5 DEF Standing

\* An addition that still has to write a status is past none of its first three
\* statements but one.
LEMMA AddsLater ==
  ASSUME Typed, NEW h \in Handlers, Busy(h), NEW n \in 1..Len(todo[h]), Moves(h, n),
         NEW a, Adding(h, a)'
  PROVE  /\ req[h].op = "add" /\ Answer(h) = a
         /\ Head(todo[h]) \in {"restrict", "insert", "queueReview"}
<1> DEFINE k == Len(todo[h])
           l == Len(todo'[h])
           s == Head(todo[h])
           t == Head(todo'[h])
<1>1. todo'[h] # <<>> /\ req'[h] = req[h] /\ req'[h].op = "add" /\ t \in {"queueReview", "setStatus"}
  BY DEF Moves, Adding, Busy
<1>2. Answer(h) = a
  BY <1>1 DEF Adding, Answer
<1>3. k \in Nat \ {0} /\ Standing("add", k, s)
  BY <1>1, HandlerFacts
<1>4. n \in 1..k /\ l = k - n
  BY DEF Moves
<1>5. l \in Nat \ {0} /\ Standing("add", l, t)
  <2>1. todo'[h] # <<>> /\ todo'[h] \in Seq(Statements) /\ Suffix(todo'[h], Program("add"))
    BY <1>1 DEF Moves
  <2> QED BY <2>1, SuffixStands DEF AllOperations
<1>6. s \in {"restrict", "insert", "queueReview"}
  <2> HIDE DEF k, l, s, t
  <2>1. l \in {5, 6}
    BY <1>1, <1>5 DEF Standing
  <2>2. k \in {6, 7, 8}
    <3>1. k \in {1, 2, 3, 4, 5, 6, 7, 8}
      BY <1>3 DEF Standing
    <3> QED BY <1>4, <2>1, <3>1
  <2> QED BY <1>3, <2>2 DEF Standing
<1> QED BY <1>1, <1>2, <1>6

-----------------------------------------------------------------------------
(* Waiting answers, and reported ones *)

\* An answer is added by one request only.
OneAdds ==
  \A g, h \in Handlers :
    /\ Busy(g) /\ req[g].op = "add"
    /\ Busy(h) /\ req[h].op = "add" /\ Answer(g) = Answer(h)
    => g = h

\* Nobody writes "pending" to answer a again.
Decided(a) == status[a] # "pending" /\ \A g \in Handlers : ~Adding(g, a)

AnswerInv(a) ==
  /\ status[a] = "none" => review[a] = "none" /\ report[a] = "none"
  /\ a \notin overtaken /\ review[a] \in {"approved", "rejected"} => Decided(a)
  /\ status[a] = "pending" /\ ~broken[a] /\ a \notin overtaken =>
       review[a] = "pending" \/ \E h \in Handlers : Adding(h, a)

\* The request of h has decided the review of its answer.
Deciding(h) ==
  req[h].op \in {"approve", "reject"} /\ Head(todo[h]) \notin {"readReview", "setStatus"}

\* How far the request of h has come.
WorkInv(h) ==
  Busy(h) =>
    /\ status[Answer(h)] = "none" <=> req[h].op = "add" /\ Head(todo[h]) \in {"restrict", "insert"}
    /\ /\ req[h].op = "add" /\ Head(todo[h]) = "setStatus" /\ req[h].verdict = "needReview"
       /\ ~broken[Answer(h)]
       => review[Answer(h)] # "none"
    /\ Deciding(h) /\ Answer(h) \notin overtaken => Decided(Answer(h))
    /\ req[h].op = "reportDelete" =>
         \/ Head(todo[h]) \in {"readReport", "readToRemove", "setStatus"}
         \/ status[Answer(h)] = "deleted" \/ broken[Answer(h)] \/ h \in restored

Waiting == OneAdds /\ (\A a \in Answers : AnswerInv(a)) /\ (\A h \in Handlers : WorkInv(h))

\* What a statement of one handler leaves to the others: it is enough to look at
\* its own answer and its own request.
LEMMA OwnAnswer ==
  ASSUME Typed, Waiting, NEW h \in Handlers, Busy(h), NEW n \in 1..Len(todo[h]), Moves(h, n),
         NEW a \in Answers, Answer(h) = a,
         \A b \in Answers \ {a} : /\ status'[b] = status[b] /\ review'[b] = review[b]
                                  /\ report'[b] = report[b] /\ broken'[b] = broken[b]
                                  /\ b \in overtaken' <=> b \in overtaken,
         broken[a] => broken'[a],
         a \in overtaken => a \in overtaken',
         \A g \in Handlers \ {h} : g \in restored => g \in restored',
         status[a] # "none" => status'[a] # "none",
         status[a] = "none" => status'[a] = "none" \/ req[h].op = "add",
         review[a] # "none" => review'[a] # "none",
         status'[a] = "pending" =>
           status[a] = "pending" \/ (req[h].op = "add" /\ Head(todo[h]) \in {"insert", "setStatus"}),
         \/ status'[a] \in {status[a], "deleted"} \/ status[a] = "none"
         \/ \A g \in Handlers \ {h} : Busy(g) /\ Answer(g) = a => g \in restored',
         AnswerInv(a)', WorkInv(h)'
  PROVE  Waiting'
<1>1. \A g \in Handlers \ {h} : todo'[g] = todo[g] /\ req'[g] = req[g]
  BY DEF Moves
<1>2. \A g \in Handlers \ {h} : /\ Busy(g)' <=> Busy(g)
                                /\ Answer(g)' = Answer(g)
                                /\ Deciding(g)' <=> Deciding(g)
  BY <1>1 DEF Busy, Answer, Deciding
<1>3. \A g \in Handlers \ {h} : \A b \in Answers : Adding(g, b)' <=> Adding(g, b)
  BY <1>1, <1>2 DEF Adding
<1>4. Busy(h)' => req'[h] = req[h] /\ Answer(h)' = a
  BY DEF Moves, Busy, Answer
<1>5. \A b \in Answers \ {a} : ~Adding(h, b) /\ ~Adding(h, b)'
  BY <1>4 DEF Adding
<1>6. OneAdds'
  <2> SUFFICES ASSUME NEW g \in Handlers, NEW i \in Handlers,
                      Busy(g)', req'[g].op = "add", Busy(i)', req'[i].op = "add",
                      Answer(g)' = Answer(i)'
               PROVE  g = i
    BY DEF OneAdds
  <2>1. /\ Busy(g) /\ req[g].op = "add" /\ Answer(g)' = Answer(g)
        /\ Busy(i) /\ req[i].op = "add" /\ Answer(i)' = Answer(i)
    BY <1>1, <1>2, <1>4
  <2> QED BY <2>1 DEF OneAdds, Waiting
<1>7. WorkInv(h)
  BY DEF Waiting
<1>8. ASSUME Decided(a), status[a] # "none"
      PROVE  Decided(a)'
  <2>1. ~(req[h].op = "add" /\ Head(todo[h]) \in {"restrict", "insert"})
    BY <1>7, <1>8 DEF WorkInv
  <2>2. ~Adding(h, a)
    BY <1>8 DEF Decided
  <2>3. ~(req[h].op = "add" /\ Head(todo[h]) \in {"restrict", "insert", "queueReview", "setStatus"})
    BY <2>1, <2>2 DEF Adding
  <2>4. ~Adding(h, a)'
    BY <2>3, AddsLater
  <2>5. \A g \in Handlers : ~Adding(g, a)'
    BY <1>3, <1>8, <2>4 DEF Decided
  <2>6. status'[a] # "pending"
    BY <1>8, <2>3 DEF Decided
  <2> QED BY <2>5, <2>6 DEF Decided
<1>9. ASSUME NEW b \in Answers \ {a}, Decided(b)
      PROVE  Decided(b)'
  BY <1>3, <1>5, <1>9 DEF Decided
<1>10. ASSUME NEW g \in Handlers
       PROVE  WorkInv(g)'
  <2>1. CASE g = h
    BY <2>1
  <2>2. CASE g # h
    <3> SUFFICES ASSUME Busy(g)'
                 PROVE  WorkInv(g)'
      BY DEF WorkInv
    <3>0. Busy(g) /\ Answer(g) \in Answers
      BY <1>2, <2>2, HandlerFacts
    <3> PICK b \in Answers : Answer(g) = b
      BY <3>0
    <3>1. /\ Busy(g) /\ Answer(g)' = b /\ todo'[g] = todo[g] /\ req'[g] = req[g]
          /\ Deciding(g)' <=> Deciding(g)
      BY <1>1, <1>2, <2>2, <3>0
    <3>2. WorkInv(g)
      BY DEF Waiting
    <3>3. /\ status[b] = "none" <=> req[g].op = "add" /\ Head(todo[g]) \in {"restrict", "insert"}
          /\ /\ req[g].op = "add" /\ Head(todo[g]) = "setStatus" /\ req[g].verdict = "needReview"
             /\ ~broken[b]
             => review[b] # "none"
          /\ Deciding(g) /\ b \notin overtaken => Decided(b)
          /\ req[g].op = "reportDelete" =>
               \/ Head(todo[g]) \in {"readReport", "readToRemove", "setStatus"}
               \/ status[b] = "deleted" \/ broken[b] \/ g \in restored
      BY <3>1, <3>2 DEF WorkInv
    <3>4. status'[b] = "none" <=> status[b] = "none"
      <4>1. CASE b # a
        BY <3>1, <4>1
      <4>2. CASE b = a /\ status[a] = "none"
        <5>1. req[g].op = "add" /\ Busy(g) /\ Answer(g) = a
          BY <3>1, <3>3, <4>2
        <5>2. req[h].op # "add"
          BY <2>2, <5>1 DEF OneAdds, Waiting
        <5> QED BY <4>2, <5>2
      <4>3. CASE b = a /\ status[a] # "none"
        BY <4>3
      <4> QED BY <4>1, <4>2, <4>3
    <3>5. /\ broken[b] => broken'[b]
          /\ review[b] # "none" => review'[b] # "none"
          /\ b \in overtaken => b \in overtaken'
      BY <3>1
    <3>6. Decided(b) /\ status[b] # "none" => Decided(b)'
      BY <1>8, <1>9, <3>1
    <3>7. Deciding(g) => status[b] # "none"
      BY <3>3 DEF Deciding
    <3>8. req[g].op = "reportDelete" =>
            \/ Head(todo[g]) \in {"readReport", "readToRemove", "setStatus"}
            \/ status'[b] = "deleted" \/ broken'[b] \/ g \in restored'
      <4> SUFFICES ASSUME req[g].op = "reportDelete",
                          Head(todo[g]) \notin {"readReport", "readToRemove", "setStatus"}
                   PROVE  status'[b] = "deleted" \/ broken'[b] \/ g \in restored'
        OBVIOUS
      <4>1. CASE b # a \/ broken[b] \/ g \in restored
        BY <2>2, <3>1, <3>3, <3>5, <4>1
      <4>2. CASE b = a /\ status[a] = "deleted"
        BY <2>2, <3>1, <4>2
      <4> QED BY <3>3, <4>1, <4>2
    <3>9. /\ status'[b] = "none" <=> req[g].op = "add" /\ Head(todo[g]) \in {"restrict", "insert"}
          /\ /\ req[g].op = "add" /\ Head(todo[g]) = "setStatus" /\ req[g].verdict = "needReview"
             /\ ~broken'[b]
             => review'[b] # "none"
          /\ Deciding(g)' /\ b \notin overtaken' => Decided(b)'
      BY <3>1, <3>3, <3>4, <3>5, <3>6, <3>7
    <3>10. Decided(Answer(g))' <=> Decided(b)'
      BY <3>1 DEF Decided
    <3> QED BY <3>1, <3>8, <3>9, <3>10 DEF WorkInv
  <2> QED BY <2>1, <2>2
<1>11. ASSUME NEW b \in Answers
       PROVE  AnswerInv(b)'
  <2>1. CASE b = a
    BY <2>1
  <2>2. CASE b # a
    <3>1. /\ status'[b] = status[b] /\ review'[b] = review[b] /\ report'[b] = report[b]
          /\ broken'[b] = broken[b] /\ b \in overtaken' <=> b \in overtaken
      BY <2>2
    <3>2. \A g \in Handlers : Adding(g, b)' <=> Adding(g, b)
      BY <1>3, <1>5, <2>2
    <3>3. AnswerInv(b)
      BY DEF Waiting
    <3> QED BY <3>1, <3>2, <3>3 DEF AnswerInv, Decided
  <2> QED BY <2>1, <2>2
<1> QED BY <1>6, <1>10, <1>11 DEF Waiting

\* The program is as it was, or goes on with the next statement.
LEMMA AdvanceFollows ==
  ASSUME Typed, NEW h \in Handlers, Busy(h), Advance(h)
  PROVE  /\ 1 \in 1..Len(todo[h]) /\ Moves(h, 1)
         /\ Follows(req[h].op, Head(todo[h]), todo'[h] = <<>>, Head(todo'[h]))
         /\ todo'[h] # <<>> => req'[h] = req[h]
<1>1. Moves(h, 1)
  BY AdvanceMoves
<1>2. 1 \in 1..Len(todo[h])
  BY HandlerFacts
<1> QED BY <1>1, <1>2, NextStatement DEF Moves

\* A handler that is done promises nothing.
LEMMA DoneWork ==
  ASSUME NEW h \in Handlers, todo'[h] = <<>>
  PROVE  WorkInv(h)'
BY DEF WorkInv, Busy

\* A statement that writes neither the status nor the review of its answer.
LEMMA SameAnswer ==
  ASSUME Typed, Waiting, NEW h \in Handlers, Busy(h), NEW n \in 1..Len(todo[h]), Moves(h, n),
         NEW a \in Answers, Answer(h) = a,
         status' = status, review' = review, overtaken' = overtaken, restored' = restored,
         \A b \in Answers \ {a} : report'[b] = report[b] /\ broken'[b] = broken[b],
         broken[a] => broken'[a],
         status[a] = "none" => report'[a] = report[a],
         broken'[a] \/ Head(todo[h]) \notin {"queueReview", "setStatus"},
         WorkInv(h)'
  PROVE  Waiting'
<1>1. AnswerInv(a) /\ WorkInv(h)
  BY DEF Waiting
<1>2. \A g \in Handlers \ {h} : Adding(g, a)' <=> Adding(g, a)
  BY DEF Moves, Adding, Busy, Answer
<1>3. Adding(h, a)' => Adding(h, a) \/ status[a] = "none"
  <2> SUFFICES ASSUME Adding(h, a)'
               PROVE  Adding(h, a) \/ status[a] = "none"
    OBVIOUS
  <2>1. req[h].op = "add" /\ Head(todo[h]) \in {"restrict", "insert", "queueReview"}
    BY AddsLater
  <2> QED BY <1>1, <2>1 DEF WorkInv, Adding
<1>4. ASSUME a \notin overtaken, review[a] \in {"approved", "rejected"}
      PROVE  Decided(a)'
  <2>1. Decided(a) /\ status[a] # "none"
    BY <1>1, <1>4 DEF AnswerInv
  <2> QED BY <1>2, <1>3, <2>1 DEF Decided
<1>5. ASSUME status[a] = "pending", ~broken'[a], a \notin overtaken, review[a] # "pending"
      PROVE  \E g \in Handlers : Adding(g, a)'
  <2>1. PICK g \in Handlers : Adding(g, a)
    BY <1>1, <1>5 DEF AnswerInv
  <2>2. g # h
    BY <1>5, <2>1 DEF Adding
  <2> QED BY <1>2, <2>1, <2>2
<1>6. AnswerInv(a)'
  <2>1. status'[a] = "none" => review'[a] = "none" /\ report'[a] = "none"
    BY <1>1 DEF AnswerInv
  <2>2. a \notin overtaken' /\ review'[a] \in {"approved", "rejected"} => Decided(a)'
    BY <1>4
  <2>3. status'[a] = "pending" /\ ~broken'[a] /\ a \notin overtaken' =>
          review'[a] = "pending" \/ \E g \in Handlers : Adding(g, a)'
    BY <1>5
  <2> QED BY <2>1, <2>2, <2>3 DEF AnswerInv
<1>7. \/ status'[a] \in {status[a], "deleted"} \/ status[a] = "none"
      \/ \A g \in Handlers \ {h} : Busy(g) /\ Answer(g) = a => g \in restored'
  OBVIOUS
<1> QED BY <1>6, <1>7, OwnAnswer

\* Whatever h does, it goes on with its own request or ends it.
LEMMA OwnWork ==
  ASSUME Typed, Waiting, NEW h \in Handlers, Busy(h), NEW n \in 1..Len(todo[h]), Moves(h, n),
         NEW a \in Answers, Answer(h) = a,
         todo'[h] # <<>> =>
           /\ status'[a] = "none" <=> req[h].op = "add" /\ Head(todo'[h]) \in {"restrict", "insert"}
           /\ /\ req[h].op = "add" /\ Head(todo'[h]) = "setStatus" /\ req[h].verdict = "needReview"
              /\ ~broken'[a]
              => review'[a] # "none"
           /\ /\ req[h].op \in {"approve", "reject"} /\ Head(todo'[h]) \notin {"readReview", "setStatus"}
              /\ a \notin overtaken'
              => Decided(a)'
           /\ req[h].op = "reportDelete" =>
                \/ Head(todo'[h]) \in {"readReport", "readToRemove", "setStatus"}
                \/ status'[a] = "deleted" \/ broken'[a] \/ h \in restored'
  PROVE  WorkInv(h)'
<1>1. CASE todo'[h] = <<>>
  BY <1>1, DoneWork
<1>2. CASE todo'[h] # <<>>
  <2>1. req'[h] = req[h] /\ Answer(h)' = a
    BY <1>2 DEF Moves, Answer
  <2>2. Decided(Answer(h))' <=> Decided(a)'
    BY <2>1 DEF Decided
  <2> QED BY <1>2, <2>1, <2>2 DEF WorkInv, Deciding
<1> QED BY <1>1, <1>2

\* Nobody starts to add an answer by a request that does not add.
LEMMA DecidedStays ==
  ASSUME Typed, NEW h \in Handlers, Busy(h), NEW n \in 1..Len(todo[h]), Moves(h, n),
         NEW a \in Answers, Decided(a), req[h].op # "add", status'[a] # "pending"
  PROVE  Decided(a)'
<1>1. \A g \in Handlers \ {h} : Adding(g, a)' <=> Adding(g, a)
  BY DEF Moves, Adding, Busy, Answer
<1>2. ~Adding(h, a)'
  BY AddsLater
<1> QED BY <1>1, <1>2 DEF Decided

LEMMA FailureWaits ==
  ASSUME Typed, Waiting, NEW h \in Handlers, NEW a \in Answers, Answer(h) = a, Fail(h) \/ Die(h) \/ Tolerate(h)
  PROVE  Waiting'
<1> DEFINE op == req[h].op
           s == Head(todo[h])
<1>1. /\ Busy(h) /\ broken' = [broken EXCEPT ![a] = TRUE]
      /\ status' = status /\ review' = review /\ report' = report
      /\ overtaken' = overtaken /\ restored' = restored
  BY DEF Fail, Die, Tolerate, Break, table
<1>2. a \in Answers /\ Len(todo[h]) \in Nat \ {0} /\ Standing(op, Len(todo[h]), s) /\ op \in AllOperations
  BY <1>1, HandlerFacts
<1>3. broken'[a] /\ \A b \in Answers \ {a} : broken'[b] = broken[b]
  BY <1>1, <1>2 DEF Typed, DataOK
<1>4. PICK n \in 1..Len(todo[h]) : Moves(h, n)
  BY StatementGoesOn
<1>5. WorkInv(h)
  BY DEF Waiting
<1>6. ASSUME todo'[h] # <<>>
      PROVE  \/ op = "reportDelete"
             \/ s \in {"queueReview", "countQuestion", "saveQuestion", "countUser", "saveUser"}
  <2>1. CASE Tolerate(h)
    BY <2>1 DEF Tolerate, At
  <2>2. CASE Fail(h)
    <3>1. Return(h)
      BY <2>2 DEF Fail
    <3> QED BY <1>1, <1>6, <3>1, AfterReturn
  <2>3. CASE Die(h)
    <3>1. Skip(h, Len(todo[h])) /\ Len(todo[h]) \in 1..Len(todo[h])
      BY <1>2, <2>3 DEF Die
    <3>2. todo'[h] = <<>>
      BY <1>1, <3>1, SkipMoves DEF Moves
    <3> QED BY <1>6, <3>2
  <2> QED BY <2>1, <2>2, <2>3
<1>7. ASSUME todo'[h] # <<>>
      PROVE  /\ status'[a] = "none" <=> op = "add" /\ Head(todo'[h]) \in {"restrict", "insert"}
             /\ op \in {"approve", "reject"} /\ a \notin overtaken' => Decided(a)'
  <2>1. op = "add" => Head(todo'[h]) \notin {"restrict", "insert"}
    BY <1>1, <1>4, <1>6, <1>7, PastInsert
  <2>2. status[a] # "none"
    BY <1>1, <1>5, <1>6, <1>7 DEF WorkInv
  <2>3. ASSUME op \in {"approve", "reject"}, a \notin overtaken
        PROVE  Decided(a)'
    <3>1. s \notin {"readReview", "setStatus"}
      BY <1>6, <1>7, <2>3
    <3>2. Decided(a)
      BY <1>1, <1>5, <2>3, <3>1 DEF WorkInv, Deciding
    <3>3. op # "add"
      BY <2>3
    <3> QED BY <1>1, <1>2, <1>4, <3>2, <3>3, DecidedStays DEF Decided
  <2> QED BY <1>1, <2>1, <2>2, <2>3
<1>8. WorkInv(h)'
  BY <1>1, <1>2, <1>3, <1>4, <1>7, OwnWork
<1> QED BY <1>1, <1>2, <1>3, <1>4, <1>8, SameAnswer

LEMMA LookWaits ==
  ASSUME Typed, Waiting, NEW h \in Handlers, NEW a \in Answers, Answer(h) = a,
         \/ CheckRestriction(h) \/ ReadToRemove(h) \/ ReadToRecover(h)
         \/ ReadReview(h) \/ ReadReport(h)
  PROVE  Waiting'
<1> DEFINE op == req[h].op
           s == Head(todo[h])
<1>1. /\ Busy(h) /\ status' = status /\ review' = review /\ report' = report /\ broken' = broken
      /\ overtaken' = overtaken /\ restored' = restored
      /\ s \in {"restrict", "readToRemove", "readToRecover", "readReview", "readReport"}
  BY DEF CheckRestriction, ReadToRemove, ReadToRecover, ReadReview, ReadReport, At, table, history
<1>2. a \in Answers /\ Standing(op, Len(todo[h]), s) /\ op \in AllOperations
  BY <1>1, HandlerFacts
<1>3. WorkInv(h)
  BY DEF Waiting
<1>4. status[a] = "none" <=> op = "add"
  <2>1. op = "add" <=> s = "restrict"
    BY <1>1, <1>2 DEF Standing, AllOperations
  <2> QED BY <1>1, <1>3, <2>1 DEF WorkInv
<1>5. CASE Advance(h)
  <2>1. /\ 1 \in 1..Len(todo[h]) /\ Moves(h, 1)
        /\ Follows(op, s, todo'[h] = <<>>, Head(todo'[h]))
    BY <1>1, <1>5, AdvanceFollows
  <2>2. ASSUME todo'[h] # <<>>
        PROVE  /\ op = "add" => Head(todo'[h]) = "insert"
               /\ op \in {"approve", "reject"} => Head(todo'[h]) = "setStatus"
               /\ op = "reportDelete" => Head(todo'[h]) \in {"readToRemove", "setStatus"}
    <3>1. Follows(op, s, FALSE, Head(todo'[h]))
      BY <2>1, <2>2
    <3> QED BY <1>1, <3>1 DEF Follows
  <2>3. WorkInv(h)'
    BY <1>1, <1>2, <1>4, <2>1, <2>2, OwnWork
  <2> QED BY <1>1, <1>2, <2>1, <2>3, SameAnswer
<1>6. CASE Return(h)
  <2>1. /\ \E n \in 1..Len(todo[h]) : Moves(h, n)
        /\ todo'[h] # <<>> => op = "reportDelete" /\ Head(todo'[h]) = "closeReport"
    BY <1>1, <1>6, AfterReturn
  <2>2. PICK n \in 1..Len(todo[h]) : Moves(h, n)
    BY <2>1
  <2>3. ASSUME todo'[h] # <<>>
        PROVE  status[a] = "deleted"
    <3>1. op = "reportDelete" /\ s # "readReport"
      <4>1. CASE s = "readReport"
        <5>1. Skip(h, Len(todo[h])) /\ Len(todo[h]) \in 1..Len(todo[h])
          BY <1>1, <1>6, <4>1, HandlerFacts DEF Return
        <5>2. todo'[h] = <<>>
          BY <1>1, <5>1, SkipMoves DEF Moves
        <5> QED BY <2>3, <5>2
      <4> QED BY <2>1, <2>3, <4>1
    <3>2. s = "readToRemove"
      BY <1>1, <1>2, <3>1 DEF Standing
    <3>3. ReadToRemove(h)
      BY <3>2 DEF CheckRestriction, ReadToRemove, ReadToRecover, ReadReview, ReadReport, At
    <3>4. CASE Advance(h)
      <4>1. Follows(op, s, todo'[h] = <<>>, Head(todo'[h]))
        BY <1>1, <3>4, AdvanceFollows
      <4>2. Head(todo'[h]) = "closeReport"
        BY <2>1, <2>3
      <4> QED BY <3>2, <4>1, <4>2 DEF Follows
    <3> QED BY <3>3, <3>4 DEF ReadToRemove
  <2>4. WorkInv(h)'
    BY <1>1, <1>2, <1>4, <2>1, <2>2, <2>3, OwnWork
  <2> QED BY <1>1, <1>2, <2>2, <2>4, SameAnswer
<1> QED BY <1>5, <1>6 DEF CheckRestriction, ReadToRemove, ReadToRecover, ReadReview, ReadReport

\* The statements that leave the status and the review of the answer alone.
LEMMA OtherWriteWaits ==
  ASSUME Typed, Waiting, NEW h \in Handlers, NEW a \in Answers, Answer(h) = a,
         \/ AddReport(h) \/ CloseReport(h)
         \/ CountQuestion(h) \/ CountUser(h) \/ SaveQuestion(h) \/ SaveUser(h)
  PROVE  Waiting'
<1> DEFINE op == req[h].op
           s == Head(todo[h])
           next == Head(todo'[h])
           done == todo'[h] = <<>>
<1>1. /\ Busy(h) /\ Advance(h) /\ broken' = broken /\ status' = status /\ review' = review
      /\ overtaken' = overtaken /\ restored' = restored
      /\ s \in {"addReport", "closeReport", "countQuestion", "countUser", "saveQuestion", "saveUser"}
      /\ report' = report \/ \E x \in ReportStatuses : report' = [report EXCEPT ![a] = x]
  <2>1. CASE AddReport(h) \/ CloseReport(h)
    <3>1. a \in Answers
      BY <2>1, HandlerFacts DEF AddReport, CloseReport, At
    <3> QED BY <2>1, <3>1 DEF AddReport, CloseReport, At, history, ReportStatuses, Typed, DataOK
  <2>2. CASE CountQuestion(h) \/ CountUser(h) \/ SaveQuestion(h) \/ SaveUser(h)
    BY <2>2 DEF CountQuestion, CountUser, SaveQuestion, SaveUser, Count, Save, At, table, history
  <2> QED BY <2>1, <2>2
<1>2. a \in Answers /\ op \in AllOperations
  BY <1>1, HandlerFacts
<1>3. 1 \in 1..Len(todo[h]) /\ Moves(h, 1) /\ Follows(op, s, done, next)
  BY <1>1, AdvanceFollows
<1>4. WorkInv(h)
  BY DEF Waiting
<1>5. status[a] # "none"
  BY <1>1, <1>4 DEF WorkInv
<1>6. \A b \in Answers \ {a} : report'[b] = report[b]
  BY <1>1, <1>2 DEF Typed, DataOK
<1>7. ASSUME ~done
      PROVE  /\ next \notin {"restrict", "insert", "setStatus"}
             /\ op \in {"approve", "reject"} /\ a \notin overtaken => Decided(a)'
             /\ op = "reportDelete" => status[a] = "deleted" \/ broken[a] \/ h \in restored
  <2>1. Follows(op, s, FALSE, next)
    BY <1>3, <1>7
  <2> HIDE DEF next, done
  <2>2. next \notin {"restrict", "insert", "setStatus"}
    BY <1>1, <2>1 DEF Follows
  <2>3. op = "reportDelete" => status[a] = "deleted" \/ broken[a] \/ h \in restored
    BY <1>1, <1>4 DEF WorkInv
  <2>4. ASSUME op \in {"approve", "reject"}, a \notin overtaken
        PROVE  Decided(a)'
    <3>1. Decided(a)
      BY <1>1, <1>4, <2>4 DEF WorkInv, Deciding
    <3>2. op # "add"
      BY <2>4
    <3> QED BY <1>1, <1>2, <1>3, <3>1, <3>2, DecidedStays DEF Decided
  <2> QED BY <2>2, <2>3, <2>4
<1>8. WorkInv(h)'
  BY <1>1, <1>2, <1>3, <1>5, <1>7, OwnWork
<1> QED BY <1>1, <1>2, <1>3, <1>5, <1>6, <1>8, SameAnswer

LEMMA InsertWaits ==
  ASSUME Typed, Waiting, NEW h \in Handlers, NEW a \in Answers, Answer(h) = a, Insert(h)
  PROVE  Waiting'
<1>1. /\ Busy(h) /\ Advance(h) /\ status' = [status EXCEPT ![a] = "pending"]
      /\ UNCHANGED <<review, report, broken, overtaken, restored>> /\ Head(todo[h]) = "insert"
  BY DEF Insert, At, history
<1>2. a \in Answers
  BY <1>1, HandlerFacts
<1>3. /\ 1 \in 1..Len(todo[h]) /\ Moves(h, 1)
      /\ req[h].op = "add" /\ todo'[h] # <<>> /\ Head(todo'[h]) = "queueReview" /\ req'[h] = req[h]
  BY <1>1, AdvanceFollows DEF Follows
<1>4. status'[a] = "pending" /\ \A b \in Answers \ {a} : status'[b] = status[b]
  BY <1>1, <1>2 DEF Typed, DataOK
<1>5. status[a] = "none" /\ review[a] = "none"
  <2>1. WorkInv(h) /\ AnswerInv(a)
    BY <1>2 DEF Waiting
  <2> QED BY <1>1, <1>3, <2>1 DEF WorkInv, AnswerInv
<1>6. Adding(h, a)'
  BY <1>3 DEF Adding, Busy, Answer
<1>7. AnswerInv(a)'
  BY <1>1, <1>4, <1>5, <1>6 DEF AnswerInv
<1>8. WorkInv(h)'
  <2>1. /\ status'[a] # "none" /\ req[h].op = "add"
        /\ Head(todo'[h]) \notin {"restrict", "insert", "setStatus"}
    BY <1>3, <1>4
  <2> QED BY <1>1, <1>2, <1>3, <2>1, OwnWork
<1> QED BY <1>1, <1>2, <1>3, <1>4, <1>5, <1>7, <1>8, OwnAnswer

LEMMA QueueWaits ==
  ASSUME Typed, Waiting, NEW h \in Handlers, NEW a \in Answers, Answer(h) = a, QueueReview(h)
  PROVE  Waiting'
<1>1. /\ Busy(h) /\ Advance(h) /\ Head(todo[h]) = "queueReview"
      /\ review' = [review EXCEPT ![a] = IF req[h].verdict = "needReview" THEN "pending" ELSE @]
      /\ UNCHANGED <<status, report, broken, overtaken, restored>>
  BY DEF QueueReview, At, history
<1>2. a \in Answers
  BY <1>1, HandlerFacts
<1>3. /\ 1 \in 1..Len(todo[h]) /\ Moves(h, 1)
      /\ req[h].op = "add" /\ todo'[h] # <<>> /\ Head(todo'[h]) = "setStatus" /\ req'[h] = req[h]
  BY <1>1, AdvanceFollows DEF Follows
<1>4. /\ review'[a] = IF req[h].verdict = "needReview" THEN "pending" ELSE review[a]
      /\ \A b \in Answers \ {a} : review'[b] = review[b]
  BY <1>1, <1>2 DEF Typed, DataOK
<1>5. WorkInv(h) /\ AnswerInv(a)
  BY <1>2 DEF Waiting
<1>6. Adding(h, a) /\ Adding(h, a)' /\ status[a] # "none"
  BY <1>1, <1>3, <1>5 DEF Adding, Busy, Answer, WorkInv
<1>7. AnswerInv(a)'
  <2>1. review'[a] \in {"approved", "rejected"} => review[a] \in {"approved", "rejected"}
    BY <1>4
  <2>2. ~Decided(a)
    BY <1>6 DEF Decided
  <2> QED BY <1>1, <1>4, <1>5, <1>6, <2>1, <2>2 DEF AnswerInv
<1>8. WorkInv(h)'
  BY <1>1, <1>2, <1>3, <1>4, <1>6, OwnWork
<1>9. review[a] # "none" => review'[a] # "none"
  BY <1>4
<1> QED BY <1>1, <1>2, <1>3, <1>4, <1>6, <1>7, <1>8, <1>9, OwnAnswer

LEMMA CloseWaits ==
  ASSUME Typed, Waiting, NEW h \in Handlers, NEW a \in Answers, Answer(h) = a, CloseReview(h)
  PROVE  Waiting'
<1>1. /\ Busy(h) /\ Advance(h) /\ Head(todo[h]) = "closeReview"
      /\ review' = [review EXCEPT ![a] = IF req[h].op = "approve" THEN "approved" ELSE "rejected"]
      /\ UNCHANGED <<status, report, broken, overtaken, restored>>
  BY DEF CloseReview, At, history
<1>2. a \in Answers
  BY <1>1, HandlerFacts
<1>3. /\ 1 \in 1..Len(todo[h]) /\ Moves(h, 1)
      /\ req[h].op \in {"approve", "reject"} /\ todo'[h] = <<>>
  BY <1>1, AdvanceFollows DEF Follows
<1>4. review'[a] \in {"approved", "rejected"} /\ \A b \in Answers \ {a} : review'[b] = review[b]
  BY <1>1, <1>2 DEF Typed, DataOK
<1>5. WorkInv(h) /\ AnswerInv(a)
  BY <1>2 DEF Waiting
<1>6. status[a] # "none" /\ (a \notin overtaken => Decided(a))
  BY <1>1, <1>3, <1>5 DEF WorkInv, Deciding
<1>7. a \notin overtaken => Decided(a)'
  BY <1>1, <1>2, <1>3, <1>6, DecidedStays DEF Decided
<1>8. AnswerInv(a)'
  BY <1>1, <1>6, <1>7 DEF AnswerInv, Decided
<1>9. WorkInv(h)'
  BY <1>3, DoneWork
<1>10. review'[a] # "none"
  BY <1>4
<1> QED BY <1>1, <1>2, <1>3, <1>4, <1>6, <1>8, <1>9, <1>10, OwnAnswer

LEMMA StatusWaits ==
  ASSUME Typed, Waiting, NEW h \in Handlers, NEW a \in Answers, Answer(h) = a, SetStatus(h)
  PROVE  Waiting'
<1> DEFINE op == req[h].op
           new == NewStatus(req[h])
           sharing == {g \in Handlers \ {h} : Busy(g) /\ Answer(g) = a}
<1>1. /\ Busy(h) /\ Advance(h) /\ Head(todo[h]) = "setStatus"
      /\ status' = [status EXCEPT ![a] = new]
      /\ UNCHANGED <<review, report, broken>>
      /\ overtaken' = IF op \in {"approve", "reject"} /\ \E g \in Handlers : Adding(g, a)
                      THEN overtaken \cup {a} ELSE overtaken
      /\ restored' = IF new = "deleted" THEN restored \ {h} ELSE restored \cup sharing
  BY DEF SetStatus, At
<1>2. a \in Answers /\ req[h].verdict \in AllVerdicts /\ op \in AllOperations
  BY <1>1, HandlerFacts
<1>3. /\ 1 \in 1..Len(todo[h]) /\ Moves(h, 1) /\ op \in Refreshing
      /\ todo'[h] # <<>> /\ Head(todo'[h]) = "countQuestion" /\ req'[h] = req[h]
  BY <1>1, AdvanceFollows DEF Follows
<1>4. status'[a] = new /\ \A b \in Answers \ {a} : status'[b] = status[b]
  BY <1>1, <1>2 DEF Typed, DataOK
<1>5. WorkInv(h) /\ AnswerInv(a)
  BY <1>2 DEF Waiting
<1>6. /\ op # "add" => new = IF op \in {"recover", "approve"} THEN "available" ELSE "deleted"
      /\ op = "add" /\ new = "pending" => req[h].verdict = "needReview"
      /\ new \in {"available", "pending", "deleted"}
  BY <1>2, <1>3 DEF NewStatus, StatusOf, AllVerdicts, Refreshing
<1>7. status[a] # "none" /\ new # "none"
  BY <1>1, <1>5, <1>6 DEF WorkInv
<1> HIDE DEF new, op, sharing
<1>8. /\ \A b \in Answers \ {a} : b \in overtaken' <=> b \in overtaken
      /\ a \in overtaken => a \in overtaken'
      /\ \A g \in Handlers \ {h} : g \in restored => g \in restored'
      /\ new # "deleted" => \A g \in Handlers \ {h} : Busy(g) /\ Answer(g) = a => g \in restored'
  BY <1>1 DEF sharing
<1>9. ~Adding(h, a)'
  BY <1>1, <1>3, AddsLater
<1>10. op = "add" => Adding(h, a)
  BY <1>1 DEF Adding, op
<1>11. op # "add" => ~Adding(h, a)
  BY DEF Adding, op
<1>12. \A g \in Handlers \ {h} : Adding(g, a)' <=> Adding(g, a)
  BY <1>3 DEF Moves, Adding, Busy, Answer
<1>13. ASSUME a \notin overtaken', review[a] \in {"approved", "rejected"}
       PROVE  Decided(a)'
  <2>1. Decided(a)
    BY <1>5, <1>8, <1>13 DEF AnswerInv
  <2>2. op # "add"
    BY <1>10, <2>1 DEF Decided
  <2>3. status'[a] # "pending"
    BY <1>4, <1>6, <2>2
  <2> QED BY <1>9, <1>12, <2>1, <2>3 DEF Decided
<1>14. ASSUME status'[a] = "pending", ~broken[a], a \notin overtaken'
       PROVE  review[a] = "pending"
  <2>1. op = "add" /\ req[h].verdict = "needReview"
    BY <1>4, <1>6, <1>14
  <2>2. review[a] # "none"
    BY <1>1, <1>5, <1>14, <2>1 DEF WorkInv, op
  <2>3. a \notin overtaken /\ ~Decided(a)
    BY <1>8, <1>10, <1>14, <2>1 DEF Decided
  <2>4. review[a] \notin {"approved", "rejected"}
    BY <1>5, <2>3 DEF AnswerInv
  <2>5. review[a] \in ReviewStatuses
    BY <1>2 DEF Typed, DataOK
  <2> QED BY <2>2, <2>4, <2>5 DEF ReviewStatuses
<1>15. AnswerInv(a)'
  BY <1>1, <1>4, <1>7, <1>13, <1>14 DEF AnswerInv
<1>16. ASSUME op \in {"approve", "reject"}, a \notin overtaken'
       PROVE  Decided(a)'
  <2>1. \A g \in Handlers : ~Adding(g, a)
    BY <1>1, <1>16
  <2>2. status'[a] # "pending"
    BY <1>4, <1>6, <1>16
  <2> QED BY <1>9, <1>12, <2>1, <2>2 DEF Decided
<1>17. op = "reportDelete" => status'[a] = "deleted"
  BY <1>4, <1>6
<1>18. WorkInv(h)'
  BY <1>1, <1>2, <1>3, <1>4, <1>7, <1>16, <1>17, OwnWork DEF op
<1>19. status'[a] = "pending" =>
         status[a] = "pending" \/ (req[h].op = "add" /\ Head(todo[h]) \in {"insert", "setStatus"})
  BY <1>1, <1>4, <1>6 DEF op
<1>20. \/ status'[a] \in {status[a], "deleted"} \/ status[a] = "none"
       \/ \A g \in Handlers \ {h} : Busy(g) /\ Answer(g) = a => g \in restored'
  BY <1>4, <1>8
<1> QED BY <1>1, <1>2, <1>3, <1>4, <1>7, <1>8, <1>15, <1>18, <1>19, <1>20, OwnAnswer

LEMMA ReceiveWaits ==
  ASSUME Typed, Waiting, NEW h \in Handlers, NEW op \in Operations, NEW a \in Answers,
         NEW verdict \in Verdicts, Receive(h, op, a, verdict)
  PROVE  Waiting'
<1>1. /\ ~Busy(h) /\ UNCHANGED <<status, review, report, broken, overtaken>> /\ restored' = restored \ {h}
      /\ op = "add" => \A g \in Handlers : Busy(g) => ~(req[g].op = "add" /\ Answer(g) = a)
      /\ Offered(op, a)
  BY DEF Receive, table, Answer
<1>2. op \in AllOperations
  BY AnswerAssumption
<1>3. /\ todo'[h] = Program(op) /\ req'[h] = [op |-> op, answer |-> a, verdict |-> verdict]
      /\ \A g \in Handlers \ {h} : todo'[g] = todo[g] /\ req'[g] = req[g]
  BY DEF Receive, Typed, ControlOK
<1>4. /\ op = "add" => Head(Program(op)) = "restrict"
      /\ op \in {"approve", "reject"} => Head(Program(op)) = "readReview"
      /\ op = "reportDelete" => Head(Program(op)) = "readReport"
  <2>1. Program(op) \in Seq(Statements) /\ Places(op, Program(op))
    BY <1>2, ProgramPlaces
  <2>2. Head(Program(op)) = Program(op)[1]
    OBVIOUS
  <2> QED BY <1>2, <2>1, <2>2 DEF Places, AllOperations
<1>5. req'[h].op = op /\ Answer(h)' = a
  BY <1>3 DEF Answer
<1>6. \A g \in Handlers \ {h} : (Busy(g)' <=> Busy(g)) /\ Answer(g)' = Answer(g)
  BY <1>3 DEF Busy, Answer
<1>7. status[a] = "none" <=> op = "add"
  <2>1. AnswerInv(a)
    BY DEF Waiting
  <2> QED BY <1>1, <1>2, <2>1 DEF Offered, AnswerInv, AllOperations
<1>8. \A g \in Handlers : \A b \in Answers : Adding(g, b)' <=> Adding(g, b)
  <2>1. \A b \in Answers : ~Adding(h, b) /\ ~Adding(h, b)'
    <3>1. \A b \in Answers : ~Adding(h, b)
      BY <1>1 DEF Adding
    <3>2. op = "add" => Head(todo'[h]) = "restrict"
      BY <1>3, <1>4
    <3>3. \A b \in Answers : ~Adding(h, b)'
      BY <1>5, <3>2 DEF Adding
    <3> QED BY <3>1, <3>3
  <2>2. \A g \in Handlers \ {h} : \A b \in Answers : Adding(g, b)' <=> Adding(g, b)
    BY <1>3, <1>6 DEF Adding
  <2> QED BY <2>1, <2>2
<1>9. OneAdds'
  <2> SUFFICES ASSUME NEW g \in Handlers, NEW i \in Handlers,
                      Busy(g)', req'[g].op = "add", Busy(i)', req'[i].op = "add",
                      Answer(g)' = Answer(i)'
               PROVE  g = i
    BY DEF OneAdds
  <2>1. CASE g # h /\ i # h
    BY <1>3, <1>6, <2>1 DEF OneAdds, Waiting
  <2>2. CASE g = h /\ i # h
    BY <1>1, <1>3, <1>5, <1>6, <2>2
  <2>3. CASE g # h /\ i = h
    BY <1>1, <1>3, <1>5, <1>6, <2>3
  <2> QED BY <2>1, <2>2, <2>3
<1>10. \A b \in Answers : Decided(b)' <=> Decided(b)
  BY <1>1, <1>8 DEF Decided
<1>11. ASSUME NEW g \in Handlers
       PROVE  WorkInv(g)'
  <2>1. CASE g = h
    <3>1. /\ op = "add" => Head(todo'[h]) = "restrict"
          /\ op \in {"approve", "reject"} => Head(todo'[h]) = "readReview"
          /\ op = "reportDelete" => Head(todo'[h]) = "readReport"
      BY <1>3, <1>4
    <3>2. status'[a] = "none" <=> op = "add"
      BY <1>1, <1>7
    <3>3. req'[g].op = op /\ Answer(g)' = a
      BY <1>5, <2>1
    <3> QED BY <2>1, <3>1, <3>2, <3>3 DEF WorkInv, Deciding
  <2>2. CASE g # h
    <3> SUFFICES ASSUME Busy(g)'
                 PROVE  WorkInv(g)'
      BY DEF WorkInv
    <3>1. /\ Busy(g) /\ Answer(g)' = Answer(g) /\ todo'[g] = todo[g] /\ req'[g] = req[g]
          /\ Answer(g) \in Answers /\ WorkInv(g)
      BY <1>3, <1>6, <2>2, HandlerFacts DEF Waiting
    <3>2. Decided(Answer(g))' <=> Decided(Answer(g))
      BY <1>1, <1>8, <3>1 DEF Decided
    <3>3. g \in restored => g \in restored'
      BY <1>1, <2>2
    <3> QED BY <1>1, <3>1, <3>2, <3>3 DEF WorkInv, Deciding
  <2> QED BY <2>1, <2>2
<1>12. ASSUME NEW b \in Answers
       PROVE  AnswerInv(b)'
  <2>1. AnswerInv(b)
    BY DEF Waiting
  <2> QED BY <1>1, <1>8, <1>10, <2>1 DEF AnswerInv
<1> QED BY <1>9, <1>11, <1>12 DEF Waiting

LEMMA RemoveAllWaits ==
  ASSUME Typed, Waiting, NEW u \in Users, RemoveAllUserAnswer(u)
  PROVE  Waiting'
<1>1. /\ UNCHANGED <<todo, req, review, report, broken, overtaken, restored>>
      /\ \A a \in Answers : \/ status'[a] = status[a]
                            \/ status'[a] = "deleted" /\ status[a] # "none"
  BY DEF RemoveAllUserAnswer
<1>2. \A g \in Handlers : /\ Busy(g)' <=> Busy(g)
                          /\ Answer(g)' = Answer(g)
                          /\ Deciding(g)' <=> Deciding(g)
                          /\ \A a \in Answers : Adding(g, a)' <=> Adding(g, a)
  BY <1>1 DEF Busy, Answer, Deciding, Adding
<1>3. \A a \in Answers : Decided(a) => Decided(a)'
  BY <1>1, <1>2 DEF Decided
<1>4. ASSUME NEW h \in Handlers, Busy(h)
      PROVE  WorkInv(h)'
  <2>1. Answer(h) \in Answers /\ WorkInv(h)
    BY <1>4, HandlerFacts DEF Waiting
  <2>2. Decided(Answer(h)) => Decided(Answer(h))'
    BY <1>1, <1>2, <1>3, <2>1 DEF Decided
  <2> QED BY <1>1, <1>2, <1>4, <2>1, <2>2 DEF WorkInv
<1>5. ASSUME NEW a \in Answers
      PROVE  AnswerInv(a)'
  <2>1. AnswerInv(a)
    BY DEF Waiting
  <2> QED BY <1>1, <1>2, <1>3, <2>1 DEF AnswerInv
<1>6. OneAdds'
  BY <1>1 DEF OneAdds, Waiting, Busy, Answer
<1>7. \A h \in Handlers : ~Busy(h) => WorkInv(h)'
  BY <1>2 DEF WorkInv
<1> QED BY <1>4, <1>5, <1>6, <1>7 DEF Waiting

LEMMA WaitingInit == Init => Waiting
BY DEF Init, Waiting, OneAdds, AnswerInv, WorkInv, Busy, Decided

LEMMA WaitingStep ==
  ASSUME Typed, Waiting, [Next]_vars
  PROVE  Waiting'
<1>1. CASE \E h \in Handlers, op \in Operations, a \in Answers, verdict \in Verdicts :
             Receive(h, op, a, verdict)
  BY <1>1, ReceiveWaits
<1>2. ASSUME NEW h \in Handlers, Step(h) \/ Fail(h) \/ Die(h) \/ Tolerate(h)
      PROVE  Waiting'
  <2>1. Answer(h) \in Answers
    BY <1>2, StatementGoesOn, HandlerFacts
  <2> QED BY <1>2, <2>1, FailureWaits, LookWaits, OtherWriteWaits, InsertWaits, QueueWaits, CloseWaits,
             StatusWaits
          DEF Step
<1>3. CASE \E u \in Users : RemoveAllUserAnswer(u)
  BY <1>3, RemoveAllWaits
<1>4. CASE UNCHANGED vars
  BY <1>4 DEF vars, table, history, Waiting, OneAdds, AnswerInv, Decided, Adding, WorkInv, Deciding,
              Busy, Answer
<1> QED BY <1>1, <1>2, <1>3, <1>4 DEF Next

\* An answer that waits can be decided: its review is pending, however its
\* requests overlapped, unless one of them failed or Insert wrote over a
\* decision (AnswerService.Insert, ReviewService.UpdateReview).
THEOREM WaitingIsQueued == Spec => []PendingIsQueued
<1>1. Waiting => PendingIsQueued
  BY DEF Waiting, AnswerInv, Adding, PendingIsQueued, Quiet
<1> QED BY <1>1, TypedInit, TypedStep, WaitingInit, WaitingStep, PTL DEF Spec

\* A report is not closed as handled by a deletion while its answer can be seen,
\* unless the deletion failed or another request in between gave the answer a
\* status again (ReportService.ReviewReport).
THEOREM ReportedAnswerIsDeleted == Spec => ReportedIsDeleted
<1>1. ASSUME Waiting, NEW h \in Handlers, NEW a \in Answers,
             At(h, "closeReport"), req[h].op = "reportDelete", Answer(h) = a
      PROVE  status[a] = "deleted" \/ broken[a] \/ h \in restored
  BY <1>1 DEF Waiting, WorkInv, At
<1>2. Waiting /\ [Next]_vars =>
        [\A h \in Handlers, a \in Answers :
           /\ At(h, "closeReport") /\ req[h].op = "reportDelete" /\ Answer(h) = a
           /\ report'[a] = "completed" /\ report[a] = "pending"
           => status[a] = "deleted" \/ broken[a] \/ h \in restored]_vars
  BY <1>1
<1> QED BY <1>2, TypedInit, TypedStep, WaitingInit, WaitingStep, PTL DEF Spec, ReportedIsDeleted
-----------------------------------------------------------------------------
(* The counters *)

Targets(h) == {QuestionOf[Answer(h)], Author[Answer(h)]}

\* The request of h has written a status, and is yet to save the counter of x.
ToSave(h, x) ==
  /\ Busy(h)
  /\ \/ /\ x = QuestionOf[Answer(h)]
        /\ Head(todo[h]) \in {"countQuestion", "saveQuestion"}
     \/ /\ x = Author[Answer(h)]
        /\ Head(todo[h]) \in {"countQuestion", "saveQuestion", "countUser", "saveUser"}

\* A clean request runs alone, and so does one that an exact counter survives.
Alone ==
  \A g, h \in Handlers :
    Busy(g) /\ Busy(h) /\ (clean[g] \/ \E x \in Counted : exact[x]) => g = h

\* What is about to be saved is right if what was counted still holds.
TallyInv(h) ==
  /\ At(h, "saveQuestion") /\ (clean[h] \/ exact[QuestionOf[Answer(h)]])
       => tally[h] = Visible(QuestionOf[Answer(h)])
  /\ At(h, "saveUser") /\ (clean[h] \/ exact[Author[Answer(h)]])
       => tally[h] = Visible(Author[Answer(h)])

CountInv(x) ==
  exact[x] => answerCount[x] = Visible(x) \/ \E h \in Handlers : ToSave(h, x)

Counting == Alone /\ (\A h \in Handlers : TallyInv(h)) /\ (\A x \in Counted : CountInv(x))

\* A statement whose answer stays as visible as it was changes no count.
LEMMA SameVisible ==
  ASSUME NEW x, NEW a,
         \A b \in Answers : b # a => status'[b] = status[b],
         \/ x \notin {QuestionOf[a], Author[a]}
         \/ status'[a] = "available" <=> status[a] = "available"
  PROVE  Visible(x)' = Visible(x)
<1> DEFINE seen == {b \in Answers : x \in {QuestionOf[b], Author[b]} /\ status[b] = "available"}
           seenNext == {b \in Answers : x \in {QuestionOf[b], Author[b]} /\ status'[b] = "available"}
<1>1. seen = seenNext
  <2>1. ASSUME NEW b \in Answers
        PROVE  b \in seen <=> b \in seenNext
    <3>1. CASE b # a
      BY <3>1
    <3>2. CASE b = a
      BY <3>2
    <3> QED BY <3>1, <3>2
  <2> QED BY <2>1
<1>2. Visible(x) = Cardinality(seen) /\ Visible(x)' = Cardinality(seenNext)
  BY DEF Visible
<1> QED BY <1>1, <1>2

LEMMA SameStatus ==
  ASSUME status' = status, NEW x
  PROVE  Visible(x)' = Visible(x)
BY DEF Visible

\* While a counter is exact, or its handler clean, nobody else is busy.
LEMMA NobodyElse ==
  ASSUME Counting, NEW h \in Handlers, Busy(h), NEW g \in Handlers, Busy(g), g # h
  PROVE  ~clean[g] /\ ~clean[h] /\ \A x \in Counted : ~exact[x]
BY DEF Counting, Alone

\* A statement of one handler: it is enough to look at its own counters.
LEMMA OwnCounters ==
  ASSUME Typed, Counting, NEW h \in Handlers, Busy(h), NEW n \in 1..Len(todo[h]), Moves(h, n),
         \A g \in Handlers \ {h} : clean'[g] = clean[g],
         clean'[h] => clean[h],
         \A x \in Counted : exact'[x] => exact[x] \/ clean[h],
         \A x \in Counted : x \notin Targets(h) =>
           /\ exact'[x] = exact[x] /\ answerCount'[x] = answerCount[x]
           /\ exact[x] => Visible(x)' = Visible(x),
         TallyInv(h)',
         \A x \in Targets(h) : CountInv(x)'
  PROVE  Counting'
<1>1. \A g \in Handlers \ {h} : todo'[g] = todo[g] /\ req'[g] = req[g]
  BY DEF Moves
<1>2. todo'[h] # <<>> => req'[h] = req[h]
  BY DEF Moves
<1>3. \A g \in Handlers : Busy(g)' => Busy(g) /\ Answer(g)' = Answer(g)
  BY <1>1, <1>2 DEF Busy, Answer
<1>4. \A g \in Handlers \ {h} : Busy(g) => ~clean[g] /\ ~clean[h] /\ \A x \in Counted : ~exact[x]
  BY NobodyElse
<1>5. \A g \in Handlers \ {h} : Busy(g) => ~clean'[g] /\ ~clean'[h] /\ \A x \in Counted : ~exact'[x]
  BY <1>4
<1>6. Alone'
  <2> SUFFICES ASSUME NEW g \in Handlers, NEW i \in Handlers, Busy(g)', Busy(i)', g # i,
                      clean'[g] \/ \E x \in Counted : exact'[x]
               PROVE  FALSE
    BY DEF Alone
  <2>1. Busy(g) /\ Busy(i)
    BY <1>3
  <2>2. CASE g = h
    BY <1>5, <2>1, <2>2
  <2>3. CASE g # h
    BY <1>5, <2>1, <2>3
  <2> QED BY <2>2, <2>3
<1>7. ASSUME NEW g \in Handlers
      PROVE  TallyInv(g)'
  <2>1. CASE g # h
    <3>1. Busy(g)' => /\ Answer(g)' = Answer(g) /\ ~clean'[g]
                      /\ QuestionOf[Answer(g)] \in Counted /\ Author[Answer(g)] \in Counted
                      /\ \A x \in Counted : ~exact'[x]
      BY <1>3, <1>5, <2>1, HandlerFacts
    <3> QED BY <3>1 DEF TallyInv, At
  <2> QED BY <2>1
<1>8. ASSUME NEW x \in Counted
      PROVE  CountInv(x)'
  <2>1. CASE x \notin Targets(h)
    <3>1. SUFFICES ASSUME exact'[x] PROVE CountInv(x)'
      BY DEF CountInv
    <3>2. exact[x] /\ Visible(x)' = Visible(x) /\ answerCount'[x] = answerCount[x]
      BY <2>1, <3>1
    <3>3. ASSUME NEW g \in Handlers, ToSave(g, x)
          PROVE  FALSE
      <4>1. Busy(g) /\ x \in Targets(g)
        BY <3>3 DEF ToSave, Targets
      <4>2. g # h
        BY <2>1, <4>1
      <4> QED BY <1>4, <3>2, <4>1, <4>2
    <3>4. answerCount[x] = Visible(x)
      BY <3>2, <3>3 DEF Counting, CountInv
    <3> QED BY <3>2, <3>4 DEF CountInv
  <2> QED BY <2>1
<1> QED BY <1>6, <1>7, <1>8 DEF Counting

\* As far as its own request is concerned, an exact counter is right unless the
\* request is to save it.
LEMMA OwnCount ==
  ASSUME Typed, Counting, NEW h \in Handlers, Busy(h), NEW x \in Counted, exact[x], ~ToSave(h, x)
  PROVE  answerCount[x] = Visible(x)
<1>1. ASSUME NEW g \in Handlers, ToSave(g, x)
      PROVE  FALSE
  <2>1. Busy(g) /\ g # h
    BY <1>1 DEF ToSave
  <2> QED BY <2>1, NobodyElse
<1> QED BY <1>1 DEF Counting, CountInv
LEMMA FailureCounts ==
  ASSUME Typed, Counting, NEW h \in Handlers, Fail(h) \/ Die(h) \/ Tolerate(h)
  PROVE  Counting'
<1>1. /\ Busy(h) /\ clean' = [clean EXCEPT ![h] = FALSE]
      /\ exact' = [exact EXCEPT ![QuestionOf[Answer(h)]] = FALSE, ![Author[Answer(h)]] = FALSE]
      /\ status' = status /\ answerCount' = answerCount
  BY DEF Fail, Die, Tolerate, Break, table
<1>2. QuestionOf[Answer(h)] \in Counted /\ Author[Answer(h)] \in Counted
  BY <1>1, HandlerFacts
<1>3. PICK n \in 1..Len(todo[h]) : Moves(h, n)
  BY StatementGoesOn
<1>4. /\ ~clean'[h] /\ \A g \in Handlers \ {h} : clean'[g] = clean[g]
      /\ \A x \in Targets(h) : ~exact'[x]
      /\ \A x \in Counted : x \notin Targets(h) => exact'[x] = exact[x]
      /\ \A x \in Counted : exact'[x] => exact[x]
  BY <1>1, <1>2 DEF Typed, DataOK, Targets
<1>5. TallyInv(h)'
  <2>1. Busy(h)' => Answer(h)' = Answer(h)
    BY <1>3 DEF Moves, Busy, Answer
  <2> QED BY <1>4, <2>1 DEF TallyInv, At, Targets
<1>6. \A x \in Targets(h) : CountInv(x)'
  BY <1>4 DEF CountInv
<1>7. \A x : Visible(x)' = Visible(x)
  BY <1>1, SameStatus
<1> QED BY <1>1, <1>3, <1>4, <1>5, <1>6, <1>7, OwnCounters

\* Statements that neither write a status nor count.
LEMMA QuietCounts ==
  ASSUME Typed, Counting, NEW h \in Handlers, Busy(h), NEW n \in 1..Len(todo[h]), Moves(h, n),
         Head(todo[h]) \notin {"countQuestion", "saveQuestion", "countUser", "saveUser"},
         todo'[h] # <<>> => Head(todo'[h]) \notin {"saveQuestion", "saveUser"},
         clean' = clean, exact' = exact, answerCount' = answerCount,
         \A x \in Counted : Visible(x)' = Visible(x)
  PROVE  Counting'
<1>1. Targets(h) \subseteq Counted
  BY HandlerFacts DEF Targets
<1>2. TallyInv(h)'
  BY DEF TallyInv, At, Busy
<1>3. ASSUME NEW x \in Targets(h)
      PROVE  CountInv(x)'
  <2>1. x \in Counted /\ ~ToSave(h, x)
    BY <1>1 DEF ToSave
  <2>2. exact[x] => answerCount[x] = Visible(x)
    BY <2>1, OwnCount
  <2> QED BY <2>1, <2>2 DEF CountInv
<1> QED BY <1>2, <1>3, OwnCounters

LEMMA LookCounts ==
  ASSUME Typed, Counting, NEW h \in Handlers,
         \/ CheckRestriction(h) \/ ReadToRemove(h) \/ ReadToRecover(h)
         \/ ReadReview(h) \/ ReadReport(h)
  PROVE  Counting'
<1>1. /\ Busy(h) /\ status' = status /\ clean' = clean /\ exact' = exact
      /\ answerCount' = answerCount
      /\ Head(todo[h]) \in {"restrict", "readToRemove", "readToRecover", "readReview", "readReport"}
  BY DEF CheckRestriction, ReadToRemove, ReadToRecover, ReadReview, ReadReport, At, table, history
<1>2. \A x \in Counted : Visible(x)' = Visible(x)
  BY <1>1, SameStatus
<1>3. CASE Advance(h)
  <2>1. /\ 1 \in 1..Len(todo[h]) /\ Moves(h, 1)
        /\ Follows(req[h].op, Head(todo[h]), todo'[h] = <<>>, Head(todo'[h]))
    BY <1>1, <1>3, AdvanceFollows
  <2>2. todo'[h] # <<>> => Head(todo'[h]) \notin {"saveQuestion", "saveUser"}
    BY <1>1, <2>1 DEF Follows
  <2> QED BY <1>1, <1>2, <2>1, <2>2, QuietCounts
<1>4. CASE Return(h)
  <2>1. /\ \E n \in 1..Len(todo[h]) : Moves(h, n)
        /\ todo'[h] # <<>> => Head(todo'[h]) = "closeReport"
    BY <1>1, <1>4, AfterReturn
  <2> QED BY <1>1, <1>2, <2>1, QuietCounts
<1> QED BY <1>3, <1>4 DEF CheckRestriction, ReadToRemove, ReadToRecover, ReadReview, ReadReport

LEMMA WriteCounts ==
  ASSUME Typed, Waiting, Counting, NEW h \in Handlers,
         \/ Insert(h) \/ QueueReview(h) \/ SetStatus(h) \/ CloseReview(h)
         \/ AddReport(h) \/ CloseReport(h)
  PROVE  Counting'
<1>1. /\ Busy(h) /\ Advance(h) /\ clean' = clean /\ exact' = exact /\ answerCount' = answerCount
      /\ Head(todo[h]) \in {"insert", "queueReview", "setStatus", "closeReview", "addReport",
                            "closeReport"}
  BY DEF Insert, QueueReview, SetStatus, CloseReview, AddReport, CloseReport, At, history
<1>2. /\ 1 \in 1..Len(todo[h]) /\ Moves(h, 1)
      /\ Follows(req[h].op, Head(todo[h]), todo'[h] = <<>>, Head(todo'[h]))
  BY <1>1, AdvanceFollows
<1>3. todo'[h] # <<>> => Head(todo'[h]) \notin {"saveQuestion", "saveUser"}
  BY <1>1, <1>2 DEF Follows
<1>4. Answer(h) \in Answers
  BY <1>1, HandlerFacts
<1>5. CASE Insert(h)
  <2>1. status' = [status EXCEPT ![Answer(h)] = "pending"] /\ Head(todo[h]) = "insert"
    BY <1>5 DEF Insert, At
  <2>2. status[Answer(h)] = "none"
    BY <1>1, <1>2, <2>1 DEF Waiting, WorkInv, Follows
  <2>3. /\ \A b \in Answers : b # Answer(h) => status'[b] = status[b]
        /\ status'[Answer(h)] = "available" <=> status[Answer(h)] = "available"
    BY <1>4, <2>1, <2>2 DEF Typed, DataOK
  <2>4. \A x \in Counted : Visible(x)' = Visible(x)
    BY <2>3, SameVisible
  <2> QED BY <1>1, <1>2, <1>3, <2>4, QuietCounts
<1>6. CASE QueueReview(h) \/ CloseReview(h) \/ AddReport(h) \/ CloseReport(h)
  <2>1. status' = status
    BY <1>6 DEF QueueReview, CloseReview, AddReport, CloseReport
  <2>2. \A x \in Counted : Visible(x)' = Visible(x)
    BY <2>1, SameStatus
  <2> QED BY <1>1, <1>2, <1>3, <2>2, QuietCounts
<1>7. CASE SetStatus(h)
  <2>1. status' = [status EXCEPT ![Answer(h)] = NewStatus(req[h])] /\ Head(todo[h]) = "setStatus"
    BY <1>7 DEF SetStatus, At
  <2>2. \A b \in Answers : b # Answer(h) => status'[b] = status[b]
    BY <2>1 DEF Typed, DataOK
  <2>3. \A x \in Counted : x \notin Targets(h) => Visible(x)' = Visible(x)
    BY <2>2, SameVisible DEF Targets
  <2>4. todo'[h] # <<>> /\ Head(todo'[h]) = "countQuestion" /\ req'[h] = req[h]
    BY <1>2, <2>1 DEF Follows, Moves
  <2>5. Answer(h)' = Answer(h)
    BY <2>4 DEF Answer
  <2>6. \A x \in Targets(h) : ToSave(h, x)'
    BY <2>4, <2>5 DEF ToSave, Targets, Busy
  <2>7. TallyInv(h)'
    BY <1>3 DEF TallyInv, At, Busy
  <2> QED BY <1>1, <1>2, <2>3, <2>6, <2>7, OwnCounters DEF CountInv
<1> QED BY <1>5, <1>6, <1>7

LEMMA CountCounts ==
  ASSUME Typed, Counting, NEW h \in Handlers,
         CountQuestion(h) \/ CountUser(h) \/ SaveQuestion(h) \/ SaveUser(h)
  PROVE  Counting'
<1> DEFINE q == QuestionOf[Answer(h)]
           u == Author[Answer(h)]
<1>1. /\ Busy(h) /\ Advance(h) /\ status' = status /\ clean' = clean
      /\ Head(todo[h]) \in {"countQuestion", "countUser", "saveQuestion", "saveUser"}
  BY DEF CountQuestion, CountUser, SaveQuestion, SaveUser, Count, Save, At, table, history
<1>2. /\ 1 \in 1..Len(todo[h]) /\ Moves(h, 1)
      /\ Follows(req[h].op, Head(todo[h]), todo'[h] = <<>>, Head(todo'[h]))
      /\ todo'[h] # <<>> => req'[h] = req[h]
  BY <1>1, AdvanceFollows
<1>3. q \in Counted /\ u \in Counted /\ q # u /\ Targets(h) = {q, u}
  BY <1>1, HandlerFacts DEF Targets
<1>4. todo'[h] # <<>> => Answer(h)' = Answer(h)
  BY <1>2 DEF Answer
<1>5. \A x : Visible(x)' = Visible(x)
  BY <1>1, SameStatus
<1>6. TallyInv(h)
  BY DEF Counting
<1>7. CASE CountQuestion(h)
  <2>1. /\ tally' = [tally EXCEPT ![h] = Visible(q)] /\ Head(todo[h]) = "countQuestion"
        /\ exact' = exact /\ answerCount' = answerCount
    BY <1>7 DEF CountQuestion, Count, At, table, history
  <2>2. todo'[h] # <<>> /\ Head(todo'[h]) = "saveQuestion" /\ Answer(h)' = Answer(h)
    BY <1>2, <1>4, <2>1 DEF Follows
  <2>3. TallyInv(h)'
    <3>1. tally'[h] = Visible(q)
      BY <2>1 DEF Typed, DataOK
    <3> QED BY <1>5, <2>2, <3>1 DEF TallyInv, At
  <2>4. \A x \in Targets(h) : ToSave(h, x)'
    BY <1>3, <2>2 DEF ToSave, Busy
  <2> QED BY <1>1, <1>2, <1>5, <2>1, <2>3, <2>4, OwnCounters DEF CountInv
<1>8. CASE CountUser(h)
  <2>1. /\ tally' = [tally EXCEPT ![h] = Visible(u)] /\ Head(todo[h]) = "countUser"
        /\ exact' = exact /\ answerCount' = answerCount
    BY <1>8 DEF CountUser, Count, At, table, history
  <2>2. todo'[h] # <<>> /\ Head(todo'[h]) = "saveUser" /\ Answer(h)' = Answer(h)
    BY <1>2, <1>4, <2>1 DEF Follows
  <2>3. TallyInv(h)'
    <3>1. tally'[h] = Visible(u)
      BY <2>1 DEF Typed, DataOK
    <3> QED BY <1>5, <2>2, <3>1 DEF TallyInv, At
  <2>5. exact[q] => answerCount[q] = Visible(q)
    BY <1>1, <1>3, <2>1, OwnCount DEF ToSave
  <2>6. ASSUME NEW x, x = q \/ x = u
        PROVE  CountInv(x)'
    <3>1. CASE x = q
      BY <1>5, <2>1, <2>5, <3>1 DEF CountInv
    <3>2. CASE x = u
      <4>1. ToSave(h, x)'
        BY <2>2, <3>2 DEF ToSave, Busy
      <4> QED BY <4>1 DEF CountInv
    <3> QED BY <2>6, <3>1, <3>2
  <2>7. \A x \in Targets(h) : CountInv(x)'
    BY <1>3, <2>6
  <2> QED BY <1>1, <1>2, <1>5, <2>1, <2>3, <2>7, OwnCounters
<1>9. CASE SaveQuestion(h)
  <2>1. /\ answerCount' = [answerCount EXCEPT ![q] = tally[h]] /\ At(h, "saveQuestion")
        /\ exact' = [exact EXCEPT ![q] = exact[q] \/ clean[h]]
    BY <1>9 DEF SaveQuestion, Save
  <2>2. Head(todo[h]) = "saveQuestion"
    BY <2>1 DEF At
  <2>3. todo'[h] # <<>> /\ Head(todo'[h]) = "countUser" /\ Answer(h)' = Answer(h)
    BY <1>2, <1>4, <2>2 DEF Follows
  <2>4. TallyInv(h)'
    BY <2>3 DEF TallyInv, At
  <2>6. /\ exact'[q] <=> exact[q] \/ clean[h]
        /\ answerCount'[q] = tally[h]
        /\ \A x \in Counted : x # q => exact'[x] = exact[x] /\ answerCount'[x] = answerCount[x]
    BY <1>3, <2>1 DEF Typed, DataOK
  <2>7. exact'[q] => answerCount'[q] = Visible(q)
    BY <1>6, <2>1, <2>6 DEF TallyInv
  <2>8. ASSUME NEW x, x = q \/ x = u
        PROVE  CountInv(x)'
    <3>1. CASE x = q
      BY <1>5, <2>7, <3>1 DEF CountInv
    <3>2. CASE x = u
      <4>1. ToSave(h, x)'
        BY <2>3, <3>2 DEF ToSave, Busy
      <4> QED BY <4>1 DEF CountInv
    <3> QED BY <2>8, <3>1, <3>2
  <2>9. \A x \in Targets(h) : CountInv(x)'
    BY <1>3, <2>8
  <2> QED BY <1>1, <1>2, <1>3, <1>5, <2>4, <2>6, <2>9, OwnCounters
<1>10. CASE SaveUser(h)
  <2>1. /\ answerCount' = [answerCount EXCEPT ![u] = tally[h]] /\ At(h, "saveUser")
        /\ exact' = [exact EXCEPT ![u] = exact[u] \/ clean[h]]
    BY <1>10 DEF SaveUser, Save
  <2>2. Head(todo[h]) = "saveUser"
    BY <2>1 DEF At
  <2>3. todo'[h] # <<>> => Head(todo'[h]) \in {"closeReview", "closeReport"}
    BY <1>2, <2>2 DEF Follows
  <2>4. TallyInv(h)'
    BY <2>3 DEF TallyInv, At, Busy
  <2>5. exact[q] => answerCount[q] = Visible(q)
    BY <1>1, <1>3, <2>2, OwnCount DEF ToSave
  <2>6. /\ exact'[u] <=> exact[u] \/ clean[h]
        /\ answerCount'[u] = tally[h]
        /\ \A x \in Counted : x # u => exact'[x] = exact[x] /\ answerCount'[x] = answerCount[x]
    BY <1>3, <2>1 DEF Typed, DataOK
  <2>7. exact'[u] => answerCount'[u] = Visible(u)
    BY <1>6, <2>1, <2>6 DEF TallyInv
  <2>8. \A x \in Targets(h) : CountInv(x)'
    BY <1>3, <1>5, <2>5, <2>6, <2>7 DEF CountInv
  <2> QED BY <1>1, <1>2, <1>3, <1>5, <2>4, <2>6, <2>8, OwnCounters
<1> QED BY <1>7, <1>8, <1>9, <1>10

LEMMA ReceiveCounts ==
  ASSUME Typed, Counting, NEW h \in Handlers, NEW op \in Operations, NEW a \in Answers,
         NEW verdict \in Verdicts, Receive(h, op, a, verdict)
  PROVE  Counting'
<1> DEFINE others == {g \in Handlers : Busy(g)}
<1>1. /\ ~Busy(h) /\ status' = status /\ answerCount' = answerCount
      /\ clean' = [g \in Handlers |-> IF g = h THEN others = {} ELSE clean[g] /\ g \notin others]
      /\ exact' = IF others = {} THEN exact ELSE [x \in Counted |-> FALSE]
  BY DEF Receive, table
<1>2. op \in AllOperations
  BY AnswerAssumption
<1>3. /\ todo'[h] = Program(op) /\ \A g \in Handlers \ {h} : todo'[g] = todo[g]
  BY DEF Receive, Typed, ControlOK
<1>4. Head(Program(op)) \notin {"saveQuestion", "saveUser"}
  <2>1. Program(op) \in Seq(Statements) /\ Places(op, Program(op))
    BY <1>2, ProgramPlaces
  <2>2. Head(Program(op)) = Program(op)[1]
    OBVIOUS
  <2> QED BY <1>2, <2>1, <2>2 DEF Places, AllOperations
<1>5. \A g \in Handlers \ {h} : Busy(g)' <=> Busy(g)
  BY <1>3 DEF Busy
<1>6. \A g \in Handlers \ {h} : Busy(g)' => ~clean'[g] /\ ~clean'[h] /\ \A x \in Counted : ~exact'[x]
  BY <1>1, <1>5
<1>7. Alone'
  <2> SUFFICES ASSUME NEW g \in Handlers, NEW i \in Handlers, Busy(g)', Busy(i)', g # i,
                      clean'[g] \/ \E x \in Counted : exact'[x]
               PROVE  FALSE
    BY DEF Alone
  <2> QED BY <1>6
<1>8. ASSUME NEW g \in Handlers
      PROVE  TallyInv(g)'
  <2>1. CASE g = h
    BY <1>3, <1>4, <2>1 DEF TallyInv, At
  <2>2. CASE g # h
    <3>1. Busy(g)' => /\ Answer(g)' = Answer(g) /\ ~clean'[g]
                      /\ QuestionOf[Answer(g)] \in Counted /\ Author[Answer(g)] \in Counted
                      /\ \A x \in Counted : ~exact'[x]
      <4>1. req'[g] = req[g]
        BY <2>2 DEF Receive, Typed, ControlOK
      <4>2. Answer(g)' = Answer(g)
        BY <4>1 DEF Answer
      <4> QED BY <1>5, <1>6, <2>2, <4>2, HandlerFacts
    <3> QED BY <3>1 DEF TallyInv, At
  <2> QED BY <2>1, <2>2
<1>9. ASSUME NEW x \in Counted
      PROVE  CountInv(x)'
  <2>1. SUFFICES ASSUME exact'[x] PROVE answerCount'[x] = Visible(x)'
    BY DEF CountInv
  <2>2. others = {} /\ exact[x]
    BY <1>1, <2>1
  <2>3. answerCount[x] = Visible(x)
    BY <2>2 DEF Counting, CountInv, ToSave
  <2> QED BY <1>1, <2>3, SameStatus
<1> QED BY <1>7, <1>8, <1>9 DEF Counting

LEMMA RemoveAllCounts ==
  ASSUME Typed, Counting, NEW u \in Users, RemoveAllUserAnswer(u)
  PROVE  Counting'
<1> DEFINE dropped == {a \in Answers : Author[a] = u /\ status[a] \notin {"none", "deleted"}}
<1>1. /\ todo' = todo /\ req' = req /\ answerCount' = answerCount
      /\ status' = [a \in Answers |-> IF a \in dropped THEN "deleted" ELSE status[a]]
      /\ exact' = [x \in Counted |->
                     exact[x] /\ x # u /\ x \notin {QuestionOf[a] : a \in dropped}]
      /\ clean' = [g \in Handlers |-> clean[g] /\ ~Busy(g)]
  BY DEF RemoveAllUserAnswer
<1>2. \A g \in Handlers : Busy(g)' = Busy(g) /\ Answer(g)' = Answer(g) /\ Head(todo[g])' = Head(todo[g])
  BY <1>1 DEF Busy, Answer
<1>3. \A x \in Counted : exact'[x] => exact[x]
  BY <1>1
<1>4. \A g \in Handlers : Busy(g) => ~clean'[g]
  BY <1>1
<1>5. Alone'
  BY <1>2, <1>3, <1>4 DEF Counting, Alone
<1>6. ASSUME NEW x \in Counted, exact'[x]
      PROVE  Visible(x)' = Visible(x)
  <2> DEFINE seen == {b \in Answers : x \in {QuestionOf[b], Author[b]} /\ status[b] = "available"}
             seenNext == {b \in Answers : x \in {QuestionOf[b], Author[b]} /\ status'[b] = "available"}
  <2>1. x # u /\ \A b \in dropped : x # QuestionOf[b]
    BY <1>1, <1>6
  <2>2. ASSUME NEW b \in Answers
        PROVE  b \in seen <=> b \in seenNext
    BY <1>1, <2>1
  <2>3. seen = seenNext
    BY <2>2
  <2>4. Visible(x) = Cardinality(seen) /\ Visible(x)' = Cardinality(seenNext)
    BY DEF Visible
  <2> QED BY <2>3, <2>4
<1>7. ASSUME NEW g \in Handlers
      PROVE  TallyInv(g)'
  <2>1. /\ QuestionOf[Answer(g)] \in Counted /\ exact'[QuestionOf[Answer(g)]] /\ At(g, "saveQuestion")
           => tally[g] = Visible(QuestionOf[Answer(g)])
        /\ Author[Answer(g)] \in Counted /\ exact'[Author[Answer(g)]] /\ At(g, "saveUser")
           => tally[g] = Visible(Author[Answer(g)])
    BY <1>3 DEF Counting, TallyInv
  <2>2. tally' = tally
    BY DEF RemoveAllUserAnswer
  <2>3. At(g, "saveQuestion") \/ At(g, "saveUser")
          => QuestionOf[Answer(g)] \in Counted /\ Author[Answer(g)] \in Counted
    BY HandlerFacts DEF At
  <2>4. \A t : At(g, t)' <=> At(g, t)
    BY <1>1 DEF At, Busy
  <2>5. Answer(g)' = Answer(g)
    BY <1>2
  <2>6. ASSUME At(g, "saveQuestion"), exact'[QuestionOf[Answer(g)]]
        PROVE  tally'[g] = Visible(QuestionOf[Answer(g)])'
    <3>1. Visible(QuestionOf[Answer(g)])' = Visible(QuestionOf[Answer(g)])
      BY <1>6, <2>3, <2>5, <2>6
    <3> QED BY <2>1, <2>2, <2>3, <2>6, <3>1
  <2>7. ASSUME At(g, "saveUser"), exact'[Author[Answer(g)]]
        PROVE  tally'[g] = Visible(Author[Answer(g)])'
    <3>1. Visible(Author[Answer(g)])' = Visible(Author[Answer(g)])
      BY <1>6, <2>3, <2>5, <2>7
    <3> QED BY <2>1, <2>2, <2>3, <2>7, <3>1
  <2> QED BY <1>4, <2>4, <2>5, <2>6, <2>7 DEF TallyInv, At
<1>8. ASSUME NEW x \in Counted
      PROVE  CountInv(x)'
  <2>1. \A g \in Handlers : ToSave(g, x)' <=> ToSave(g, x)
    BY <1>1 DEF ToSave, Busy, Answer
  <2> QED BY <1>1, <1>3, <1>6, <2>1 DEF CountInv, Counting
<1> QED BY <1>5, <1>7, <1>8 DEF Counting

LEMMA CountingInit == Init => Counting
<1> SUFFICES ASSUME Init PROVE Counting
  OBVIOUS
<1>1. \A h \in Handlers : ~Busy(h)
  BY DEF Init, Busy
<1>2. ASSUME NEW x \in Counted
      PROVE  answerCount[x] = Visible(x)
  <2> DEFINE seen == {b \in Answers : x \in {QuestionOf[b], Author[b]} /\ status[b] = "available"}
  <2>1. seen = {}
    BY DEF Init
  <2>2. Cardinality(seen) = 0
    BY <2>1, FS_EmptySet
  <2>3. Visible(x) = 0
    BY <2>2 DEF Visible
  <2> QED BY <2>3 DEF Init
<1> QED BY <1>1, <1>2 DEF Counting, Alone, TallyInv, At, CountInv

LEMMA CountingStep ==
  ASSUME Typed, Waiting, Counting, [Next]_vars
  PROVE  Counting'
<1>1. CASE \E h \in Handlers, op \in Operations, a \in Answers, verdict \in Verdicts :
             Receive(h, op, a, verdict)
  BY <1>1, ReceiveCounts
<1>2. CASE \E h \in Handlers : Step(h) \/ Fail(h) \/ Die(h) \/ Tolerate(h)
  BY <1>2, FailureCounts, LookCounts, WriteCounts, CountCounts DEF Step
<1>3. CASE \E u \in Users : RemoveAllUserAnswer(u)
  BY <1>3, RemoveAllCounts
<1>4. CASE UNCHANGED vars
  <2>1. \A h \in Handlers :
          /\ Busy(h)' <=> Busy(h)
          /\ Answer(h)' = Answer(h)
          /\ \A t : At(h, t)' <=> At(h, t)
          /\ \A x : ToSave(h, x)' <=> ToSave(h, x)
    BY <1>4 DEF vars, At, Busy, Answer, ToSave
  <2>2. \A x : Visible(x)' = Visible(x)
    BY <1>4, SameStatus DEF vars, table
  <2>3. Alone'
    BY <1>4, <2>1 DEF vars, history, Counting, Alone
  <2>4. \A h \in Handlers : TallyInv(h)'
    BY <1>4, <2>1, <2>2 DEF vars, history, Counting, TallyInv
  <2>5. \A x \in Counted : CountInv(x)'
    BY <1>4, <2>1, <2>2 DEF vars, table, history, Counting, CountInv
  <2> QED BY <2>3, <2>4, <2>5 DEF Counting
<1> QED BY <1>1, <1>2, <1>3, <1>4 DEF Next

\* The counters repair themselves: after a request that refreshes them and runs
\* alone they are right, until requests overlap, fail or bypass them
\* (QuestionCommon.UpdateAnswerCount, AnswerService.RemoveAnswer).
THEOREM CountersAreRepaired == Spec => []CountsRepaired
<1>1. Counting => CountsRepaired
  BY DEF Counting, CountInv, ToSave, CountsRepaired
<1> QED BY <1>1, TypedInit, TypedStep, WaitingInit, WaitingStep, CountingInit, CountingStep, PTL
        DEF Spec
===============================================================================
