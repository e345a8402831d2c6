--------------------------- MODULE TagNoticeProofs ---------------------------
(***************************************************************************)
(* Theorems about TagSynonym, for any number of tags, names and handlers,  *)
(* any requests and any failures; and, in the second half, theorems about  *)
(* NoticeQueue, for any number of posts, users, senders and events, any    *)
(* capacity of the channel, any failures and any crashes.  The two         *)
(* components share no state: a theorem is about the one whose             *)
(* specification, Spec or QueueSpec, it names.                             *)
(***************************************************************************)
EXTENDS TagSynonym, NoticeQueue, SequenceTheorems, FiniteSetTheorems, TLAPS

\* The statements that may be left of every operation.
AddLeft == {<<"checkName", "lookUp", "insert", "reply">>,
            <<"lookUp", "insert", "reply">>, <<"insert", "reply">>, <<"reply">>}
QuestionLeft == {<<"listNames", "lookUp", "insert", "relate", "reply">>,
                 <<"lookUp", "insert", "relate", "reply">>, <<"insert", "relate", "reply">>,
                 <<"relate", "reply">>, <<"reply">>}
SynonymsLeft ==
  {<<"readTag", "listNames", "lookUp", "insert", "listSynonyms", "drop", "link", "reply">>,
   <<"listNames", "lookUp", "insert", "listSynonyms", "drop", "link", "reply">>,
   <<"lookUp", "insert", "listSynonyms", "drop", "link", "reply">>,
   <<"insert", "listSynonyms", "drop", "link", "reply">>,
   <<"listSynonyms", "drop", "link", "reply">>, <<"drop", "link", "reply">>,
   <<"link", "reply">>, <<"reply">>}
EditLeft == {<<"readTag", "write", "listSynonyms", "link", "reply">>,
             <<"write", "listSynonyms", "link", "reply">>,
             <<"listSynonyms", "link", "reply">>, <<"link", "reply">>, <<"reply">>}
ApproveLeft == {<<"readTag", "listSynonyms", "link", "reply">>,
                <<"listSynonyms", "link", "reply">>, <<"link", "reply">>, <<"reply">>}
RemoveLeft == {<<"countUses", "countSynonyms", "delete", "reply">>,
               <<"countSynonyms", "delete", "reply">>, <<"delete", "reply">>, <<"reply">>}
RecoverLeft == {<<"readDeleted", "recover", "reply">>, <<"recover", "reply">>, <<"reply">>}

Left(op, s) ==
  \/ op = "add" /\ s \in AddLeft
  \/ op = "question" /\ s \in QuestionLeft
  \/ op = "synonyms" /\ s \in SynonymsLeft
  \/ op = "edit" /\ s \in EditLeft
  \/ op = "approve" /\ s \in ApproveLeft
  \/ op = "remove" /\ s \in RemoveLeft
  \/ op = "recover" /\ s \in RecoverLeft

\* The operations that read the tag they are about and change synonyms.
Linking == {"synonyms", "edit", "approve"}

\* What comes after a statement, and which operations it belongs to.
After(op, s) == Left(op, Tail(s)) /\ Tail(s) # <<>> /\ Head(Tail(s)) # "readTag"

LeftOK(op, s) ==
  /\ s \in Seq(Statements) /\ s # <<>>
  /\ Head(s) # "reply" => After(op, s)
  /\ Head(s) \notin {"readTag", "reply"} => Head(Tail(s)) # "listNames"
  /\ Head(s) \in {"listNames", "lookUp", "write"} => After(op, Tail(s))
  /\ Head(s) \in {"listNames", "write"} => After(op, Tail(Tail(s)))

Placed(op, s) ==
  /\ Head(s) \in {"readTag", "listSynonyms", "link"} => op \in Linking
  /\ Head(s) \in {"listNames", "lookUp", "insert"} => op \in {"add", "question", "synonyms"}
  /\ Head(s) = "checkName" => op = "add" /\ Head(Tail(s)) = "lookUp"
  /\ Head(s) = "listNames" => Head(Tail(s)) = "lookUp"
  /\ Head(s) \in {"listNames", "lookUp"} /\ op = "synonyms" => Head(Tail(s)) \in {"lookUp", "insert"}
  /\ Head(s) = "readTag" => Head(Tail(s)) \in {"listNames", "write", "listSynonyms"}
  /\ Head(s) = "lookUp" => Head(Tail(s)) = "insert"
  /\ Head(s) = "listSynonyms" /\ op = "synonyms" => Head(Tail(s)) = "drop"
  /\ Head(s) = "listSynonyms" /\ op # "synonyms" => Head(Tail(s)) = "link"
  /\ Head(s) = "drop" => op = "synonyms" /\ Head(Tail(s)) = "link"
  /\ Head(s) = "link" => Head(Tail(s)) = "reply"
  /\ Head(s) = "write" => /\ op = "edit"
                          /\ Head(Tail(s)) = "listSynonyms" /\ Head(Tail(Tail(Tail(s)))) = "reply"
  /\ Head(s) \in {"countUses", "countSynonyms", "delete"} => op = "remove"
  /\ op = "edit" /\ Head(s) # "reply" /\ Head(Tail(s)) \in {"listSynonyms", "link"} =>
       Head(s) \in {"write", "listSynonyms"}
  /\ Head(s) \in {"readDeleted", "recover"} => op = "recover"

\* The rests of a sequence, as Skip takes them.
LEMMA Rests ==
  ASSUME NEW s \in Seq(Statements), s # <<>>
  PROVE  /\ SubSeq(s, 2, Len(s)) = Tail(s)
         /\ Tail(s) # <<>> => SubSeq(s, 3, Len(s)) = Tail(Tail(s))
         /\ Tail(s) # <<>> /\ Tail(Tail(s)) # <<>> =>
              SubSeq(s, 4, Len(s)) = Tail(Tail(Tail(s)))
<1>1. ASSUME NEW m \in 2..3, m <= Len(s), NEW n \in Nat, n = m + 1
      PROVE  Tail(SubSeq(s, m, Len(s))) = SubSeq(s, n, Len(s))
  BY <1>1, HeadTailOfSubSeq
<1>2. SubSeq(s, 2, Len(s)) = Tail(s)
  BY TailIsSubSeq
<1>3. Tail(s) \in Seq(Statements) /\ Len(Tail(s)) = Len(s) - 1
  BY HeadTailProperties
<1>4. ASSUME Tail(s) # <<>>
      PROVE  /\ Len(s) \in Nat /\ 2 <= Len(s) /\ SubSeq(s, 3, Len(s)) = Tail(Tail(s))
             /\ Tail(Tail(s)) # <<>> => 3 <= Len(s)
  <2>1. Len(s) \in Nat /\ 2 <= Len(s)
    BY <1>3, <1>4
  <2>2. SubSeq(s, 3, Len(s)) = Tail(Tail(s))
    BY <1>1, <1>2, <2>1
  <2>3. Len(Tail(Tail(s))) = Len(Tail(s)) - 1 /\ Tail(Tail(s)) \in Seq(Statements)
    BY <1>3, <1>4, HeadTailProperties
  <2> QED BY <1>3, <2>1, <2>2, <2>3
<1>5. ASSUME Tail(s) # <<>>, Tail(Tail(s)) # <<>>
      PROVE  SubSeq(s, 4, Len(s)) = Tail(Tail(Tail(s)))
  <2>1. Len(s) \in Nat /\ 3 <= Len(s) /\ SubSeq(s, 3, Len(s)) = Tail(Tail(s))
    BY <1>4, <1>5
  <2>2. Tail(SubSeq(s, 3, Len(s))) = SubSeq(s, 4, Len(s))
    BY <1>1, <2>1
  <2> QED BY <2>1, <2>2
<1> QED BY <1>2, <1>4, <1>5

LEMMA LeftFacts ==
  ASSUME NEW op, NEW s, Left(op, s)
  PROVE  LeftOK(op, s) /\ Placed(op, s)
<1>1. CASE op = "add" /\ s \in AddLeft
  <2>1. CASE s = <<"checkName", "lookUp", "insert", "reply">>
    BY <1>1, <2>1 DEF LeftOK, After, Placed, Left, AddLeft, Linking, Statements
  <2>2. CASE s = <<"lookUp", "insert", "reply">>
    BY <1>1, <2>2 DEF LeftOK, After, Placed, Left, AddLeft, Linking, Statements
  <2>3. CASE s = <<"insert", "reply">>
    BY <1>1, <2>3 DEF LeftOK, After, Placed, Left, AddLeft, Linking, Statements
  <2>4. CASE s = <<"reply">>
    BY <1>1, <2>4 DEF LeftOK, After, Placed, Left, AddLeft, Linking, Statements
  <2> QED BY <1>1, <2>1, <2>2, <2>3, <2>4 DEF AddLeft
<1>2. CASE op = "question" /\ s \in QuestionLeft
  <2>1. CASE s = <<"listNames", "lookUp", "insert", "relate", "reply">>
    BY <1>2, <2>1 DEF LeftOK, After, Placed, Left, QuestionLeft, Linking, Statements
  <2>2. CASE s = <<"lookUp", "insert", "relate", "reply">>
    BY <1>2, <2>2 DEF LeftOK, After, Placed, Left, QuestionLeft, Linking, Statements
  <2>3. CASE s = <<"insert", "relate", "reply">>
    BY <1>2, <2>3 DEF LeftOK, After, Placed, Left, QuestionLeft, Linking, Statements
  <2>4. CASE s = <<"relate", "reply">>
    BY <1>2, <2>4 DEF LeftOK, After, Placed, Left, QuestionLeft, Linking, Statements
  <2>5. CASE s = <<"reply">>
    BY <1>2, <2>5 DEF LeftOK, After, Placed, Left, QuestionLeft, Linking, Statements
  <2> QED BY <1>2, <2>1, <2>2, <2>3, <2>4, <2>5 DEF QuestionLeft
<1>3. CASE op = "synonyms" /\ s \in SynonymsLeft
  <2>1. CASE s = <<"readTag", "listNames", "lookUp", "insert", "listSynonyms", "drop", "link", "reply">>
    BY <1>3, <2>1 DEF LeftOK, After, Placed, Left, SynonymsLeft, Linking, Statements
  <2>2. CASE s = <<"listNames", "lookUp", "insert", "listSynonyms", "drop", "link", "reply">>
    BY <1>3, <2>2 DEF LeftOK, After, Placed, Left, SynonymsLeft, Linking, Statements
  <2>3. CASE s = <<"lookUp", "insert", "listSynonyms", "drop", "link", "reply">>
    BY <1>3, <2>3 DEF LeftOK, After, Placed, Left, SynonymsLeft, Linking, Statements
  <2>4. CASE s = <<"insert", "listSynonyms", "drop", "link", "reply">>
    BY <1>3, <2>4 DEF LeftOK, After, Placed, Left, SynonymsLeft, Linking, Statements
  <2>5. CASE s = <<"listSynonyms", "drop", "link", "reply">>
    BY <1>3, <2>5 DEF LeftOK, After, Placed, Left, SynonymsLeft, Linking, Statements
  <2>6. CASE s = <<"drop", "link", "reply">>
    BY <1>3, <2>6 DEF LeftOK, After, Placed, Left, SynonymsLeft, Linking, Statements
  <2>7. CASE s = <<"link", "reply">>
    BY <1>3, <2>7 DEF LeftOK, After, Placed, Left, SynonymsLeft, Linking, Statements
  <2>8. CASE s = <<"reply">>
    BY <1>3, <2>8 DEF LeftOK, After, Placed, Left, SynonymsLeft, Linking, Statements
  <2> QED BY <1>3, <2>1, <2>2, <2>3, <2>4, <2>5, <2>6, <2>7, <2>8 DEF SynonymsLeft
<1>4. CASE op = "edit" /\ s \in EditLeft
  <2>1. CASE s = <<"readTag", "write", "listSynonyms", "link", "reply">>
    BY <1>4, <2>1 DEF LeftOK, After, Placed, Left, EditLeft, Linking, Statements
  <2>2. CASE s = <<"write", "listSynonyms", "link", "reply">>
    BY <1>4, <2>2 DEF LeftOK, After, Placed, Left, EditLeft, Linking, Statements
  <2>3. CASE s = <<"listSynonyms", "link", "reply">>
    BY <1>4, <2>3 DEF LeftOK, After, Placed, Left, EditLeft, Linking, Statements
  <2>4. CASE s = <<"link", "reply">>
    BY <1>4, <2>4 DEF LeftOK, After, Placed, Left, EditLeft, Linking, Statements
  <2>5. CASE s = <<"reply">>
    BY <1>4, <2>5 DEF LeftOK, After, Placed, Left, EditLeft, Linking, Statements
  <2> QED BY <1>4, <2>1, <2>2, <2>3, <2>4, <2>5 DEF EditLeft
<1>5. CASE op = "approve" /\ s \in ApproveLeft
  <2>1. CASE s = <<"readTag", "listSynonyms", "link", "reply">>
    BY <1>5, <2>1 DEF LeftOK, After, Placed, Left, ApproveLeft, Linking, Statements
  <2>2. CASE s = <<"listSynonyms", "link", "reply">>
    BY <1>5, <2>2 DEF LeftOK, After, Placed, Left, ApproveLeft, Linking, Statements
  <2>3. CASE s = <<"link", "reply">>
    BY <1>5, <2>3 DEF LeftOK, After, Placed, Left, ApproveLeft, Linking, Statements
  <2>4. CASE s = <<"reply">>
    BY <1>5, <2>4 DEF LeftOK, After, Placed, Left, ApproveLeft, Linking, Statements
  <2> QED BY <1>5, <2>1, <2>2, <2>3, <2>4 DEF ApproveLeft
<1>6. CASE op = "remove" /\ s \in RemoveLeft
  <2>1. CASE s = <<"countUses", "countSynonyms", "delete", "reply">>
    BY <1>6, <2>1 DEF LeftOK, After, Placed, Left, RemoveLeft, Linking, Statements
  <2>2. CASE s = <<"countSynonyms", "delete", "reply">>
    BY <1>6, <2>2 DEF LeftOK, After, Placed, Left, RemoveLeft, Linking, Statements
  <2>3. CASE s = <<"delete", "reply">>
    BY <1>6, <2>3 DEF LeftOK, After, Placed, Left, RemoveLeft, Linking, Statements
  <2>4. CASE s = <<"reply">>
    BY <1>6, <2>4 DEF LeftOK, After, Placed, Left, RemoveLeft, Linking, Statements
  <2> QED BY <1>6, <2>1, <2>2, <2>3, <2>4 DEF RemoveLeft
<1>7. CASE op = "recover" /\ s \in RecoverLeft
  <2>1. CASE s = <<"readDeleted", "recover", "reply">>
    BY <1>7, <2>1 DEF LeftOK, After, Placed, Left, RecoverLeft, Linking, Statements
  <2>2. CASE s = <<"recover", "reply">>
    BY <1>7, <2>2 DEF LeftOK, After, Placed, Left, RecoverLeft, Linking, Statements
  <2>3. CASE s = <<"reply">>
    BY <1>7, <2>3 DEF LeftOK, After, Placed, Left, RecoverLeft, Linking, Statements
  <2> QED BY <1>7, <2>1, <2>2, <2>3 DEF RecoverLeft
<1> QED BY <1>1, <1>2, <1>3, <1>4, <1>5, <1>6, <1>7 DEF Left

\* An operation begins with all of its statements.
LEMMA ProgramLeft ==
  ASSUME NEW op \in AllOperations
  PROVE  Left(op, Program(op)) /\ Program(op) # <<>>
BY DEF Left, Program, AllOperations, AddLeft, QuestionLeft, SynonymsLeft, EditLeft, ApproveLeft,
       RemoveLeft, RecoverLeft, AddTag, ObjectChangeTag, UpdateTagSynonym, UpdateTag,
       RevisionAuditTag, RemoveTag, RecoverTag

-----------------------------------------------------------------------------
(* Types, and the main tag of a tag that has the name of one *)

Synonymous(r) == r.mainName # None => r.main # None

\* What a request and the tag it has read are like when s is left of it.
Fits(q, s, r) ==
  /\ q \in Requests /\ q # None
  /\ Left(q.op, s)
  /\ q.op \notin {"add", "question"} => q.tag \in Tags
  /\ q.op = "edit" => q.names = {}
  /\ q.op \in Linking /\ Head(s) # "readTag" => r \in TagRow /\ Synonymous(r)
  /\ q.op = "edit" /\ Head(s) \in {"listSynonyms", "link"} => r.main = None

\* A handler is idle, or it serves a request that fits what is left of it.
ServesOK(q, s, r) ==
  \/ s = <<>> /\ q = None
  \/ s # <<>> /\ Fits(q, s, r)

HandlersOK ==
  /\ todo = [h \in Handlers |-> todo[h]]
  /\ req = [h \in Handlers |-> req[h]]
  /\ \A h \in Handlers : ServesOK(req[h], todo[h], row[h])

LocalsOK ==
  /\ row \in [Handlers -> TagRow \cup {None}]
  /\ old \in [Handlers -> [id : Tags, name : Names] \cup {None}]
  /\ names \in [Handlers -> SUBSET Names] /\ fresh \in [Handlers -> SUBSET Names]
  /\ ids \in [Handlers -> SUBSET Tags]
  /\ alone \in [Handlers -> BOOLEAN]

RowsOK == tag \in [Tags -> TagRow] /\ NameHasMain
OthersOK == used \subseteq Tags /\ received \in 0..MaxRequests

Typed == HandlersOK /\ LocalsOK /\ RowsOK /\ OthersOK

\* A tag that exists has a name, and a request is about a tag that exists.
Known ==
  /\ \A t \in Tags : tag[t].st # "absent" => tag[t].name # None
  /\ \A h \in Handlers : req[h] # None /\ req[h].tag \in Tags => tag[req[h].tag].st # "absent"

LEMMA TypedIsTypeOK == Typed => TypeOK
<1> SUFFICES ASSUME Typed PROVE TypeOK
  OBVIOUS
<1>1. ASSUME NEW h \in Handlers
      PROVE  /\ todo[h] \in Seq(Statements) /\ req[h] \in Requests \cup {None}
             /\ Busy(h) <=> req[h] # None
  <2>1. ServesOK(req[h], todo[h], row[h])
    BY DEF Typed, HandlersOK
  <2>2. CASE todo[h] = <<>> /\ req[h] = None
    BY <2>2 DEF Busy
  <2>3. CASE todo[h] # <<>> /\ Fits(req[h], todo[h], row[h])
    BY <2>3, LeftFacts DEF Fits, LeftOK, Busy
  <2> QED BY <2>1, <2>2, <2>3 DEF ServesOK
<1>2. todo \in [Handlers -> Seq(Statements)] /\ req \in [Handlers -> Requests \cup {None}]
  BY <1>1 DEF Typed, HandlersOK
<1> QED BY <1>1, <1>2 DEF Typed, LocalsOK, RowsOK, OthersOK, TypeOK

LEMMA InitTyped == Init => Typed
<1> SUFFICES ASSUME Init PROVE Typed
  OBVIOUS
<1>1. RowsOK
  <2>1. ASSUME NEW t \in Tags PROVE tag[t] \in TagRow /\ tag[t].mainName = None
    BY TagAssumption DEF Init, Absent, NewTag, TagRow
  <2>2. tag = [t \in Tags |-> tag[t]]
    BY DEF Init
  <2> QED BY <2>1, <2>2 DEF RowsOK, NameHasMain
<1>2. HandlersOK
  BY DEF Init, HandlersOK, ServesOK
<1>3. LocalsOK
  BY DEF Init, LocalsOK
<1>4. OthersOK
  BY TagAssumption DEF Init, OthersOK
<1> QED BY <1>1, <1>2, <1>3, <1>4 DEF Typed

LEMMA FinishTyped ==
  ASSUME HandlersOK, LocalsOK, NEW h \in Handlers, Finish(h)
  PROVE  HandlersOK' /\ LocalsOK'
<1>1. ASSUME NEW g \in Handlers PROVE ServesOK(req[g], todo[g], row[g])'
  <2>1. CASE g = h
    BY <2>1 DEF HandlersOK, ServesOK, Finish
  <2>2. CASE g # h
    <3>1. ServesOK(req[g], todo[g], row[g])
      BY DEF HandlersOK
    <3>2. req'[g] = req[g] /\ todo'[g] = todo[g] /\ row'[g] = row[g]
      BY <2>2 DEF HandlersOK, LocalsOK, Finish
    <3> QED BY <3>1, <3>2 DEF ServesOK, Fits
  <2> QED BY <2>1, <2>2
<1>2. HandlersOK'
  BY <1>1 DEF HandlersOK, Finish
<1>3. LocalsOK'
  BY DEF LocalsOK, Finish
<1> QED BY <1>2, <1>3

LEMMA Serving ==
  ASSUME HandlersOK, NEW h \in Handlers, Busy(h)
  PROVE  /\ Fits(req[h], todo[h], row[h])
         /\ LeftOK(req[h].op, todo[h]) /\ Placed(req[h].op, todo[h])
<1>1. ServesOK(req[h], todo[h], row[h])
  BY DEF HandlersOK
<1>2. Fits(req[h], todo[h], row[h])
  BY <1>1 DEF ServesOK, Busy
<1> QED BY <1>2, LeftFacts DEF Fits

\* A handler goes on with what is left after a few statements.
LEMMA MoveTyped ==
  ASSUME HandlersOK, LocalsOK, NEW h \in Handlers, Busy(h), NEW s,
         todo' = [todo EXCEPT ![h] = s], s # <<>>, req' = req, row' = row,
         Left(req[h].op, s), Head(s) # "readTag",
         Head(todo[h]) # "readTag" \/ req[h].op \notin Linking,
         req[h].op = "edit" /\ Head(s) \in {"listSynonyms", "link"} => row[h].main = None
  PROVE  HandlersOK'
<1>1. Fits(req[h], todo[h], row[h])
  BY Serving
<1>2. Fits(req[h], s, row[h])
  BY <1>1 DEF Fits
<1>3. ASSUME NEW g \in Handlers PROVE ServesOK(req[g], todo[g], row[g])'
  <2>1. CASE g = h
    BY <2>1, <1>2 DEF HandlersOK, ServesOK, Fits
  <2>2. CASE g # h
    <3>1. ServesOK(req[g], todo[g], row[g]) /\ todo'[g] = todo[g]
      BY <2>2 DEF HandlersOK
    <3> QED BY <3>1 DEF ServesOK, Fits
  <2> QED BY <2>1, <2>2
<1> QED BY <1>3 DEF HandlersOK

\* The statements that are left after one, two or three.
LEMMA SkipRest ==
  ASSUME HandlersOK, NEW h \in Handlers, Busy(h), NEW n \in Nat, NEW m \in Nat, m = n + 1,
         Skip(h, n)
  PROVE  /\ todo[h] \in Seq(Statements) /\ todo[h] # <<>>
         /\ todo' = [todo EXCEPT ![h] = SubSeq(todo[h], m, Len(todo[h]))]
<1>1. todo[h] \in Seq(Statements) /\ todo[h] # <<>> /\ todo = [g \in Handlers |-> todo[g]]
  BY Serving DEF LeftOK, HandlersOK
<1> QED BY <1>1 DEF Skip

LEMMA SkipNone ==
  ASSUME HandlersOK, NEW h \in Handlers, Busy(h), Skip(h, 0)
  PROVE  todo' = todo
<1>1. todo[h] \in Seq(Statements) /\ todo' = [todo EXCEPT ![h] = SubSeq(todo[h], 1, Len(todo[h]))]
  BY SkipRest
<1>2. SubSeq(todo[h], 1, Len(todo[h])) = todo[h]
  BY <1>1, SubSeqFull
<1> QED BY <1>1, <1>2 DEF HandlersOK

LEMMA SkipOne ==
  ASSUME HandlersOK, NEW h \in Handlers, Busy(h), Skip(h, 1)
  PROVE  todo' = [todo EXCEPT ![h] = Tail(todo[h])]
<1>1. /\ todo[h] \in Seq(Statements) /\ todo[h] # <<>>
      /\ todo' = [todo EXCEPT ![h] = SubSeq(todo[h], 2, Len(todo[h]))]
  BY SkipRest
<1> QED BY <1>1, Rests

LEMMA SkipTwo ==
  ASSUME HandlersOK, NEW h \in Handlers, Busy(h), Skip(h, 2), Head(todo[h]) = "lookUp"
  PROVE  todo' = [todo EXCEPT ![h] = Tail(Tail(todo[h]))]
<1>1. /\ todo[h] \in Seq(Statements) /\ todo[h] # <<>>
      /\ todo' = [todo EXCEPT ![h] = SubSeq(todo[h], 3, Len(todo[h]))]
  BY SkipRest
<1>2. Tail(todo[h]) # <<>>
  BY Serving DEF LeftOK, After
<1> QED BY <1>1, <1>2, Rests

LEMMA SkipThree ==
  ASSUME HandlersOK, NEW h \in Handlers, Busy(h), Skip(h, 3),
         Head(todo[h]) \in {"listNames", "write"}
  PROVE  todo' = [todo EXCEPT ![h] = Tail(Tail(Tail(todo[h])))]
<1>1. /\ todo[h] \in Seq(Statements) /\ todo[h] # <<>>
      /\ todo' = [todo EXCEPT ![h] = SubSeq(todo[h], 4, Len(todo[h]))]
  BY SkipRest
<1>2. Tail(todo[h]) # <<>> /\ Tail(Tail(todo[h])) # <<>>
  BY Serving DEF LeftOK, After
<1>3. SubSeq(todo[h], 4, Len(todo[h])) = Tail(Tail(Tail(todo[h])))
  BY <1>1, <1>2, Rests
<1> QED BY <1>1, <1>3

LEMMA AdvanceTyped ==
  ASSUME HandlersOK, LocalsOK, NEW h \in Handlers, Busy(h), Advance(h),
         Head(todo[h]) \notin {"readTag", "write", "reply"}, req' = req, row' = row
  PROVE  HandlersOK'
<1>1. /\ Fits(req[h], todo[h], row[h])
      /\ LeftOK(req[h].op, todo[h]) /\ Placed(req[h].op, todo[h])
  BY Serving
<1>2. todo' = [todo EXCEPT ![h] = Tail(todo[h])]
  BY SkipOne DEF Advance
<1>3. Left(req[h].op, Tail(todo[h])) /\ Tail(todo[h]) # <<>> /\ Head(Tail(todo[h])) # "readTag"
  BY <1>1 DEF LeftOK, After
<1>4. req[h].op = "edit" /\ Head(Tail(todo[h])) \in {"listSynonyms", "link"} => row[h].main = None
  BY <1>1 DEF Placed, Fits
<1> QED BY <1>2, <1>3, <1>4, MoveTyped

LEMMA KeptRows ==
  ASSUME RowsOK, OthersOK, UNCHANGED <<tag, used, received>>
  PROVE  RowsOK' /\ OthersOK'
BY DEF RowsOK, NameHasMain, OthersOK

LEMMA CheckTyped ==
  ASSUME Typed, NEW h \in Handlers, NEW s, NEW goesOn, Check(h, s, goesOn),
         s \notin {"readTag", "write", "reply"}
  PROVE  Typed'
<1>1. Busy(h) /\ Head(todo[h]) = s /\ UNCHANGED <<tag, used, received>>
  BY DEF Check, At, Finish
<1>2. RowsOK' /\ OthersOK'
  BY <1>1, KeptRows DEF Typed
<1>3. CASE Finish(h)
  BY <1>2, <1>3, FinishTyped DEF Typed
<1>4. CASE Advance(h) /\ UNCHANGED <<tag, used, received, req, locals, alone>>
  <2>1. HandlersOK'
    BY <1>1, <1>4, AdvanceTyped DEF Typed, locals
  <2>2. LocalsOK'
    BY <1>4 DEF Typed, LocalsOK, locals
  <2> QED BY <1>2, <2>1, <2>2 DEF Typed
<1> QED BY <1>3, <1>4 DEF Check

LEMMA ReceiveTyped ==
  ASSUME Typed, NEW h \in Handlers, NEW r \in Requests, Receive(h, r)
  PROVE  Typed'
<1>1. Left(r.op, Program(r.op)) /\ Program(r.op) # <<>>
  BY ProgramLeft DEF Requests
<1>2. Head(Program(r.op)) \in {"readTag", "checkName", "listNames", "countUses", "readDeleted"}
  BY DEF Requests, AllOperations, Program, AddTag, ObjectChangeTag, UpdateTagSynonym, UpdateTag,
         RevisionAuditTag, RemoveTag, RecoverTag
<1>3. r.op \in Linking => Head(Program(r.op)) = "readTag"
  BY DEF Linking, Program, UpdateTagSynonym, UpdateTag, RevisionAuditTag
<1>4. r.op \notin {"add", "question"} => r.tag \in Tags
  BY DEF Receive, Sent, Requests
<1>5. r.op = "edit" => r.names = {}
  BY DEF Receive, Sent
<1>6. Fits(r, Program(r.op), row'[h])
  BY <1>1, <1>2, <1>3, <1>4, <1>5, TagAssumption DEF Fits, Linking
<1>7. ASSUME NEW g \in Handlers PROVE ServesOK(req[g], todo[g], row[g])'
  <2>1. CASE g = h
    BY <2>1, <1>1, <1>6 DEF Typed, HandlersOK, ServesOK, Receive
  <2>2. CASE g # h
    <3>1. ServesOK(req[g], todo[g], row[g])
      BY DEF Typed, HandlersOK
    <3>2. req'[g] = req[g] /\ todo'[g] = todo[g] /\ row'[g] = row[g]
      BY <2>2 DEF Typed, HandlersOK, Receive, locals
    <3> QED BY <3>1, <3>2 DEF ServesOK, Fits
  <2> QED BY <2>1, <2>2
<1>8. HandlersOK'
  BY <1>7 DEF Typed, HandlersOK, Receive
<1>9. LocalsOK'
  BY DEF Typed, LocalsOK, Receive, locals
<1>10. RowsOK'
  BY DEF Typed, RowsOK, NameHasMain, Receive
<1>11. OthersOK'
  BY TagAssumption DEF Typed, OthersOK, Receive
<1> QED BY <1>8, <1>9, <1>10, <1>11 DEF Typed

\* A statement after which the request goes on with the next one, and that
\* leaves the row it has read alone.
LEMMA StatementTyped ==
  ASSUME Typed, NEW h \in Handlers, Busy(h), Advance(h), req' = req, row' = row,
         Head(todo[h]) \notin {"readTag", "write", "reply"},
         LocalsOK', RowsOK', OthersOK'
  PROVE  Typed'
BY AdvanceTyped DEF Typed

LEMMA AddingTyped ==
  ASSUME Typed, NEW h \in Handlers, CheckName(h) \/ ListNames(h)
  PROVE  Typed'
<1>1. CASE CheckName(h)
  <2>1. CASE Finish(h)
    BY <2>1, FinishTyped, KeptRows DEF Typed, Finish
  <2>2. CASE ~Finish(h)
    <3>1. Busy(h) /\ Head(todo[h]) = "checkName"
      BY <1>1 DEF CheckName, At
    <3>2. req[h].names \in SUBSET Names
      BY <3>1, Serving DEF Typed, Fits, Requests
    <3>3. LocalsOK'
      BY <1>1, <2>2, <3>2 DEF CheckName, Typed, LocalsOK
    <3> QED BY <1>1, <2>2, <3>1, <3>3, StatementTyped, KeptRows DEF CheckName, Typed
  <2> QED BY <2>1, <2>2
<1>2. CASE ListNames(h)
  <2> DEFINE found == {t \in Tags : Available(t) /\ tag[t].name \in req[h].names}
             missing == req[h].names \ {tag[t].name : t \in found}
  <2>1. Busy(h) /\ Head(todo[h]) = "listNames"
    BY <1>2 DEF ListNames, At
  <2>2. /\ Fits(req[h], todo[h], row[h])
        /\ LeftOK(req[h].op, todo[h]) /\ Placed(req[h].op, todo[h])
    BY <2>1, Serving DEF Typed
  <2>3. missing \in SUBSET Names /\ found \in SUBSET Tags
    BY <2>2 DEF Fits, Requests
  <2>4. LocalsOK'
    BY <1>2, <2>3 DEF ListNames, Typed, LocalsOK
  <2>5. CASE missing = {}
    <3>1. Skip(h, 3)
      BY <1>2, <2>5 DEF ListNames
    <3>2. todo' = [todo EXCEPT ![h] = Tail(Tail(Tail(todo[h])))]
      BY <2>1, <3>1, SkipThree DEF Typed
    <3>3. /\ Left(req[h].op, Tail(Tail(Tail(todo[h])))) /\ Tail(Tail(Tail(todo[h]))) # <<>>
          /\ Head(Tail(Tail(Tail(todo[h])))) # "readTag"
      BY <2>1, <2>2 DEF LeftOK, After
    <3>4. req[h].op # "edit"
      BY <2>1, <2>2 DEF Placed
    <3>5. HandlersOK'
      BY <1>2, <2>1, <3>2, <3>3, <3>4, MoveTyped DEF ListNames, Typed
    <3> QED BY <1>2, <2>4, <3>5, KeptRows DEF ListNames, Typed
  <2>6. CASE missing # {}
    <3>1. Advance(h)
      BY <1>2, <2>6 DEF ListNames, Advance
    <3> QED BY <1>2, <2>1, <2>4, <3>1, StatementTyped, KeptRows DEF ListNames, Typed
  <2> QED BY <2>5, <2>6
<1> QED BY <1>1, <1>2

LEMMA LookUpTyped ==
  ASSUME Typed, NEW h \in Handlers, NEW n \in Names, LookUp(h, n)
  PROVE  Typed'
<1> DEFINE deleted == {t \in Named(n) : tag[t].st = "deleted"}
<1>1. Busy(h) /\ Head(todo[h]) = "lookUp" /\ UNCHANGED <<tag, used, received, req, row>>
  BY DEF LookUp, At
<1>2. RowsOK' /\ OthersOK'
  BY <1>1, KeptRows DEF Typed
<1>3. old' \in [Handlers -> [id : Tags, name : Names] \cup {None}]
  <2>1. ASSUME NEW t \in deleted PROVE [id |-> t, name |-> n] \in [id : Tags, name : Names]
    BY DEF Named
  <2>2. CASE old' = old
    BY <2>2 DEF Typed, LocalsOK
  <2>3. CASE \E t \in deleted : old' = [old EXCEPT ![h] = [id |-> t, name |-> n]]
    BY <2>1, <2>3 DEF Typed, LocalsOK
  <2> QED BY <2>2, <2>3 DEF LookUp
<1>4. LocalsOK'
  <2>1. names' \in [Handlers -> SUBSET Names] /\ fresh' \in [Handlers -> SUBSET Names]
    BY DEF Typed, LocalsOK, LookUp
  <2> QED BY <1>3, <2>1 DEF Typed, LocalsOK, LookUp
<1>5. CASE Advance(h)
  BY <1>1, <1>2, <1>4, <1>5, StatementTyped
<1>6. CASE todo' = todo
  BY <1>1, <1>2, <1>4, <1>6 DEF Typed, HandlersOK, ServesOK, Fits
<1> QED BY <1>5, <1>6 DEF LookUp

LEMMA RowRevived ==
  ASSUME RowsOK, NEW t \in Tags, NEW n \in Names,
         tag' = [tag EXCEPT ![t].st = "available", ![t].name = n]
  PROVE  RowsOK'
<1>1. \A s \in Tags : tag[s] \in TagRow
  BY DEF RowsOK
<1>2. ASSUME NEW s \in Tags
      PROVE  tag'[s] \in TagRow /\ (tag'[s].mainName # None => tag'[s].main # None)
  BY <1>1, <1>2 DEF RowsOK, NameHasMain, TagRow
<1>3. tag' = [s \in Tags |-> tag'[s]]
  BY DEF RowsOK
<1> QED BY <1>2, <1>3 DEF RowsOK, NameHasMain

LEMMA ReviveTyped ==
  ASSUME Typed, NEW h \in Handlers, Revive(h)
  PROVE  Typed'
<1>1. Busy(h) /\ Head(todo[h]) = "lookUp" /\ old[h] \in [id : Tags, name : Names]
  BY DEF Revive, At, Typed, LocalsOK
<1>2. CASE Finish(h)
  BY <1>2, FinishTyped, KeptRows DEF Typed, Finish
<1>3. CASE ~Finish(h)
  <2>1. /\ tag' = [tag EXCEPT ![old[h].id].st = "available", ![old[h].id].name = old[h].name]
        /\ ids' = [ids EXCEPT ![h] = @ \cup {old[h].id}]
        /\ old' = [old EXCEPT ![h] = None]
        /\ Skip(h, 0) \/ Skip(h, 1) \/ Skip(h, 2)
        /\ UNCHANGED <<used, received, req, row, names, fresh, alone>>
    BY <1>3 DEF Revive
  <2>2. RowsOK'
    BY <1>1, <2>1, RowRevived DEF Typed
  <2>3. LocalsOK'
    BY <1>1, <2>1 DEF Typed, LocalsOK
  <2>4. OthersOK'
    BY <2>1 DEF Typed, OthersOK
  <2>5. CASE Skip(h, 0)
    <3>1. HandlersOK'
      BY <1>1, <2>1, <2>5, SkipNone DEF Typed, HandlersOK, ServesOK, Fits
    <3> QED BY <2>2, <2>3, <2>4, <3>1 DEF Typed
  <2>6. CASE Skip(h, 1)
    BY <1>1, <2>1, <2>2, <2>3, <2>4, <2>6, StatementTyped DEF Advance
  <2>7. CASE Skip(h, 2)
    <3>1. todo' = [todo EXCEPT ![h] = Tail(Tail(todo[h]))]
      BY <1>1, <2>7, SkipTwo DEF Typed
    <3>2. LeftOK(req[h].op, todo[h]) /\ Placed(req[h].op, todo[h])
      BY <1>1, Serving DEF Typed
    <3>3. /\ Left(req[h].op, Tail(Tail(todo[h]))) /\ Tail(Tail(todo[h])) # <<>>
          /\ Head(Tail(Tail(todo[h]))) # "readTag" /\ req[h].op # "edit"
      BY <1>1, <3>2 DEF LeftOK, Placed, After
    <3>4. HandlersOK'
      BY <1>1, <2>1, <3>1, <3>3, MoveTyped DEF Typed
    <3> QED BY <2>2, <2>3, <2>4, <3>4 DEF Typed
  <2> QED BY <2>1, <2>5, <2>6, <2>7
<1> QED BY <1>2, <1>3

LEMMA InsertTyped ==
  ASSUME Typed, NEW h \in Handlers, Insert(h)
  PROVE  Typed'
<1> DEFINE absent == {t \in Tags : tag[t].st = "absent"}
<1>1. Busy(h) /\ Head(todo[h]) = "insert"
  BY DEF Insert, At
<1>2. CASE Finish(h)
  BY <1>2, FinishTyped, KeptRows DEF Typed, Finish
<1>3. CASE ~Finish(h)
  <2>1. PICK id \in [fresh[h] -> absent] :
          LET new == {id[n] : n \in fresh[h]} IN
          /\ tag' = [t \in Tags |-> IF t \in new
                       THEN NewTag(CHOOSE n \in fresh[h] : id[n] = t) ELSE tag[t]]
          /\ ids' = [ids EXCEPT ![h] = @ \cup new]
    BY <1>3 DEF Insert
  <2> DEFINE new == {id[n] : n \in fresh[h]}
  <2>2. /\ fresh' = [fresh EXCEPT ![h] = {}]
        /\ Advance(h) /\ UNCHANGED <<used, received, req, row, old, names, alone>>
    BY <1>3 DEF Insert
  <2>3. new \subseteq Tags /\ fresh[h] \subseteq Names
    BY DEF Typed, LocalsOK
  <2>4. RowsOK'
    <3>1. ASSUME NEW t \in Tags
          PROVE  tag'[t] \in TagRow /\ (tag'[t].mainName # None => tag'[t].main # None)
      <4>1. CASE t \in new
        <5>1. (CHOOSE n \in fresh[h] : id[n] = t) \in Names
          BY <2>3, <4>1
        <5>2. tag'[t] = NewTag(CHOOSE n \in fresh[h] : id[n] = t)
          BY <2>1, <4>1
        <5> QED BY <5>1, <5>2 DEF NewTag, TagRow
      <4>2. CASE t \notin new
        BY <2>1, <4>2 DEF Typed, RowsOK, NameHasMain
      <4> QED BY <4>1, <4>2
    <3>2. tag' = [t \in Tags |-> tag'[t]]
      BY <2>1
    <3> QED BY <3>1, <3>2 DEF RowsOK, NameHasMain
  <2>5. LocalsOK'
    BY <2>1, <2>2, <2>3 DEF Typed, LocalsOK
  <2>6. OthersOK'
    BY <2>2 DEF Typed, OthersOK
  <2> QED BY <1>1, <2>2, <2>4, <2>5, <2>6, StatementTyped
<1> QED BY <1>2, <1>3

LEMMA RelateTyped ==
  ASSUME Typed, NEW h \in Handlers, Relate(h)
  PROVE  Typed'
<1>1. Busy(h) /\ Head(todo[h]) = "relate"
  BY DEF Relate, At
<1>2. LocalsOK' /\ OthersOK'
  BY DEF Relate, locals, Typed, LocalsOK, OthersOK
<1>3. RowsOK'
  BY DEF Relate, Typed, RowsOK, NameHasMain
<1> QED BY <1>1, <1>2, <1>3, StatementTyped DEF Relate, locals

LEMMA ReadTagTyped ==
  ASSUME Typed, NEW h \in Handlers, ReadTag(h)
  PROVE  Typed'
<1>1. Busy(h) /\ Head(todo[h]) = "readTag"
  BY DEF ReadTag, At
<1>2. CASE Finish(h)
  BY <1>2, FinishTyped, KeptRows DEF Typed, Finish
<1>3. CASE ~Finish(h)
  <2>1. /\ row' = [row EXCEPT ![h] = tag[req[h].tag]] /\ Advance(h) /\ Wanted(req[h])
        /\ UNCHANGED <<tag, used, received, req, old, names, fresh, ids, alone>>
    BY <1>3 DEF ReadTag
  <2>2. /\ Fits(req[h], todo[h], row[h])
        /\ LeftOK(req[h].op, todo[h]) /\ Placed(req[h].op, todo[h])
    BY <1>1, Serving DEF Typed
  <2>3. req[h].tag \in Tags
    BY <1>1, <2>2 DEF Placed, Fits, Linking
  <2>4. tag[req[h].tag] \in TagRow /\ Synonymous(tag[req[h].tag])
    BY <2>3 DEF Typed, RowsOK, NameHasMain, Synonymous
  <2>5. todo' = [todo EXCEPT ![h] = Tail(todo[h])]
    BY <1>1, <2>1, SkipOne DEF Typed, Advance
  <2>6. /\ Left(req[h].op, Tail(todo[h])) /\ Tail(todo[h]) # <<>>
        /\ req[h].op = "edit" => Head(Tail(todo[h])) \notin {"listSynonyms", "link"}
    BY <1>1, <2>2 DEF LeftOK, After, Placed
  <2>7. Fits(req[h], Tail(todo[h]), tag[req[h].tag])
    BY <2>2, <2>3, <2>4, <2>6 DEF Fits
  <2>8. ASSUME NEW g \in Handlers PROVE ServesOK(req[g], todo[g], row[g])'
    <3>1. CASE g = h
      <4>1. todo'[g] = Tail(todo[h]) /\ req'[g] = req[h] /\ row'[g] = tag[req[h].tag]
        BY <2>1, <2>5, <3>1 DEF Typed, HandlersOK, LocalsOK
      <4> QED BY <2>6, <2>7, <4>1 DEF ServesOK, Fits
    <3>2. CASE g # h
      <4>1. ServesOK(req[g], todo[g], row[g])
        BY DEF Typed, HandlersOK
      <4>2. todo'[g] = todo[g] /\ req'[g] = req[g] /\ row'[g] = row[g]
        BY <2>1, <2>5, <3>2 DEF Typed, HandlersOK, LocalsOK
      <4> QED BY <4>1, <4>2 DEF ServesOK, Fits
    <3> QED BY <3>1, <3>2
  <2>9. HandlersOK'
    BY <2>1, <2>5, <2>8 DEF Typed, HandlersOK
  <2>10. LocalsOK'
    BY <2>1, <2>4 DEF Typed, LocalsOK
  <2> QED BY <2>1, <2>9, <2>10, KeptRows DEF Typed
<1> QED BY <1>2, <1>3

\* The row an edit writes back has no more a name without a main tag than the
\* row it has read and the one it writes over.
LEMMA WriteTyped ==
  ASSUME Typed, NEW h \in Handlers, Write(h)
  PROVE  Typed'
<1>1. Busy(h) /\ Head(todo[h]) = "write"
  BY DEF Write, At
<1>2. CASE Finish(h)
  BY <1>2, FinishTyped, KeptRows DEF Typed, Finish
<1>3. CASE ~Finish(h)
  <2> DEFINE t == req[h].tag
             n == req[h].name
             new == [st |-> "available", name |-> NonZero(n, tag[t].name),
                     main |-> NonZero(row[h].main, tag[t].main),
                     mainName |-> NonZero(row[h].mainName, tag[t].mainName)]
  <2>1. /\ Fits(req[h], todo[h], row[h])
        /\ LeftOK(req[h].op, todo[h]) /\ Placed(req[h].op, todo[h])
    BY <1>1, Serving DEF Typed
  <2>2. /\ req[h].op = "edit" /\ t \in Tags /\ n \in Names \cup {None}
        /\ row[h] \in TagRow /\ Synonymous(row[h])
    BY <1>1, <2>1 DEF Placed, Fits, Linking, Requests
  <2>3. tag[t] \in TagRow /\ Synonymous(tag[t])
    BY <2>2 DEF Typed, RowsOK, NameHasMain, Synonymous
  <2>4. /\ tag' = [tag EXCEPT ![t] = new]
        /\ UNCHANGED <<used, received, req, locals, alone>>
        /\ \/ Skip(h, 1) /\ row[h].main = None
           \/ Skip(h, 3)
    BY <1>3, <2>2 DEF Write, Typed, RowsOK
  <2>5. new \in TagRow /\ Synonymous(new)
    BY <2>2, <2>3 DEF TagRow, NonZero, Synonymous
  <2> HIDE DEF new
  <2>6. RowsOK'
    BY <2>2, <2>4, <2>5 DEF Typed, RowsOK, NameHasMain, Synonymous
  <2>7. LocalsOK' /\ OthersOK'
    BY <2>4 DEF Typed, LocalsOK, OthersOK, locals
  <2>8. CASE Skip(h, 1) /\ row[h].main = None
    <3>1. todo' = [todo EXCEPT ![h] = Tail(todo[h])]
      BY <1>1, <2>8, SkipOne DEF Typed
    <3>2. /\ Left(req[h].op, Tail(todo[h])) /\ Tail(todo[h]) # <<>>
          /\ Head(Tail(todo[h])) # "readTag"
      BY <1>1, <2>1 DEF LeftOK, After
    <3>3. HandlersOK'
      BY <1>1, <2>4, <2>8, <3>1, <3>2, MoveTyped DEF Typed, locals
    <3> QED BY <2>6, <2>7, <3>3 DEF Typed
  <2>9. CASE Skip(h, 3)
    <3>1. todo' = [todo EXCEPT ![h] = Tail(Tail(Tail(todo[h])))]
      BY <1>1, <2>9, SkipThree DEF Typed
    <3>2. /\ Left(req[h].op, Tail(Tail(Tail(todo[h])))) /\ Tail(Tail(Tail(todo[h]))) # <<>>
          /\ Head(Tail(Tail(Tail(todo[h])))) = "reply"
      BY <1>1, <2>1 DEF LeftOK, After, Placed
    <3>3. HandlersOK'
      BY <1>1, <2>4, <3>1, <3>2, MoveTyped DEF Typed, locals
    <3> QED BY <2>6, <2>7, <3>3 DEF Typed
  <2> QED BY <2>4, <2>8, <2>9
<1> QED BY <1>2, <1>3

LEMMA ListSynonymsTyped ==
  ASSUME Typed, Known, NEW h \in Handlers, ListSynonyms(h)
  PROVE  Typed'
<1>1. Busy(h) /\ Head(todo[h]) = "listSynonyms"
  BY DEF ListSynonyms, At
<1>2. SynonymNames(h) \subseteq Names
  <2>1. ASSUME NEW t \in Synonyms(req[h].tag) PROVE tag[t].name \in Names
    BY DEF Synonyms, Available, Typed, RowsOK, TagRow, Known
  <2> QED BY <2>1 DEF SynonymNames
<1>3. LocalsOK'
  BY <1>2 DEF ListSynonyms, Typed, LocalsOK
<1> QED BY <1>1, <1>3, StatementTyped, KeptRows DEF ListSynonyms, Typed

LEMMA LinkAllRows ==
  ASSUME RowsOK, NEW list, NEW m \in Tags \cup {None}, NEW n \in Names \cup {None},
         n # None => m # None, LinkAll(list, m, n)
  PROVE  RowsOK'
<1>1. ASSUME NEW t \in Tags
      PROVE  tag'[t] \in TagRow /\ (tag'[t].mainName # None => tag'[t].main # None)
  <2>1. tag[t] \in TagRow /\ (tag[t].mainName # None => tag[t].main # None)
    BY DEF RowsOK, NameHasMain
  <2>2. tag'[t] = tag[t] \/ tag'[t] = [tag[t] EXCEPT !.main = m, !.mainName = n]
    BY DEF LinkAll, Linked
  <2> QED BY <2>1, <2>2 DEF TagRow
<1>2. tag' = [t \in Tags |-> tag'[t]]
  BY DEF LinkAll
<1> QED BY <1>1, <1>2 DEF RowsOK, NameHasMain

LEMMA LinkTyped ==
  ASSUME Typed, NEW h \in Handlers, Drop(h) \/ Link(h)
  PROVE  Typed'
<1>1. /\ Busy(h) /\ Head(todo[h]) \in {"drop", "link"}
      /\ Advance(h) /\ UNCHANGED <<used, received, req, locals, alone>>
  BY DEF Drop, Link, At
<1>2. LocalsOK' /\ OthersOK'
  BY <1>1 DEF Typed, LocalsOK, OthersOK, locals
<1>3. RowsOK'
  <2>1. CASE Drop(h)
    <3>1. LinkAll(names[h], None, None)
      BY <2>1 DEF Drop
    <3> QED BY <3>1, LinkAllRows DEF Typed
  <2>2. CASE Link(h)
    <3>1. /\ Fits(req[h], todo[h], row[h])
          /\ Placed(req[h].op, todo[h])
      BY <1>1, Serving DEF Typed
    <3>2. Head(todo[h]) = "link"
      BY <2>2 DEF Link, At
    <3>3. req[h].tag \in Tags /\ row[h] \in TagRow
      BY <3>1, <3>2 DEF Placed, Fits, Linking
    <3>4. row[h].name \in Names \cup {None} /\ row[h].mainName \in Names \cup {None}
      BY <3>3 DEF TagRow
    <3>5. req[h].tag # None
      BY <3>3, TagAssumption
    <3>6. CASE req[h].op = "synonyms"
      BY <2>2, <3>3, <3>4, <3>5, <3>6, LinkAllRows DEF Link, Typed
    <3>7. CASE req[h].op # "synonyms"
      BY <2>2, <3>3, <3>4, <3>5, <3>7, LinkAllRows DEF Link, Typed
    <3> QED BY <3>6, <3>7
  <2> QED BY <2>1, <2>2
<1> QED BY <1>1, <1>2, <1>3, StatementTyped DEF locals

LEMMA SetStatusTyped ==
  ASSUME Typed, NEW h \in Handlers, NEW s \in {"delete", "recover"},
         NEW st \in {"available", "deleted"}, SetStatus(h, s, st)
  PROVE  Typed'
<1>1. /\ Busy(h) /\ Head(todo[h]) = s
      /\ Advance(h) /\ UNCHANGED <<used, received, req, locals, alone>>
  BY DEF SetStatus, At
<1>2. LocalsOK' /\ OthersOK'
  BY <1>1 DEF Typed, LocalsOK, OthersOK, locals
<1>3. RowsOK'
  <2>1. ASSUME NEW t \in Tags
        PROVE  tag'[t] \in TagRow /\ (tag'[t].mainName # None => tag'[t].main # None)
    <3>1. tag[t] \in TagRow /\ (tag[t].mainName # None => tag[t].main # None)
      BY DEF Typed, RowsOK, NameHasMain
    <3>2. tag'[t] = tag[t] \/ tag'[t] = [tag[t] EXCEPT !.st = st]
      BY DEF SetStatus, Typed, RowsOK
    <3> QED BY <3>1, <3>2 DEF TagRow
  <2>2. tag' = [t \in Tags |-> tag'[t]]
    BY DEF SetStatus, Typed, RowsOK
  <2> QED BY <2>1, <2>2 DEF RowsOK, NameHasMain
<1> QED BY <1>1, <1>2, <1>3, StatementTyped DEF locals

LEMMA EndTyped ==
  ASSUME Typed, NEW h \in Handlers, Finish(h)
  PROVE  Typed'
BY FinishTyped, KeptRows DEF Typed, Finish

LEMMA StepTyped ==
  ASSUME Typed, Known, [Next]_vars
  PROVE  Typed'
<1>1. ASSUME NEW h \in Handlers, NEW r \in Requests, Receive(h, r) PROVE Typed'
  BY <1>1, ReceiveTyped
<1>2. ASSUME NEW h \in Handlers, Step(h) PROVE Typed'
  <2>1. CASE CheckName(h) \/ ListNames(h)
    BY <2>1, AddingTyped
  <2>2. CASE \E n \in Names : LookUp(h, n)
    BY <2>2, LookUpTyped
  <2>3. CASE Revive(h)
    BY <2>3, ReviveTyped
  <2>4. CASE Insert(h)
    BY <2>4, InsertTyped
  <2>5. CASE Relate(h)
    BY <2>5, RelateTyped
  <2>6. CASE ReadTag(h)
    BY <2>6, ReadTagTyped
  <2>7. CASE Write(h)
    BY <2>7, WriteTyped
  <2>8. CASE ListSynonyms(h)
    BY <2>8, ListSynonymsTyped
  <2>9. CASE Drop(h) \/ Link(h)
    BY <2>9, LinkTyped
  <2>10. CASE CountUses(h) \/ CountSynonyms(h) \/ ReadDeleted(h)
    BY <2>10, CheckTyped DEF CountUses, CountSynonyms, ReadDeleted
  <2>11. CASE Delete(h) \/ Recover(h)
    BY <2>11, SetStatusTyped DEF Delete, Recover
  <2>12. CASE Reply(h)
    BY <2>12, EndTyped DEF Reply
  <2> QED BY <1>2, <2>1, <2>2, <2>3, <2>4, <2>5, <2>6, <2>7, <2>8, <2>9, <2>10, <2>11, <2>12 DEF Step
<1>3. ASSUME NEW h \in Handlers, Fail(h) PROVE Typed'
  BY <1>3, EndTyped DEF Fail
<1>4. CASE UNCHANGED vars
  BY <1>4 DEF vars, locals, Typed, HandlersOK, ServesOK, Fits, LocalsOK, RowsOK, NameHasMain, OthersOK
<1> QED BY <1>1, <1>2, <1>3, <1>4 DEF Next

-----------------------------------------------------------------------------
(* Tags that exist *)

LEMMA KnownKept ==
  ASSUME Known,
         \A t \in Tags : tag[t].st # "absent" => tag'[t].st # "absent",
         \A t \in Tags : tag'[t].st # "absent" => tag'[t].name # None,
         \A h \in Handlers : req'[h] = req[h] \/ req'[h] = None
  PROVE  Known'
BY DEF Known

LEMMA KnownSame ==
  ASSUME Known, Typed, tag' = tag,
         req' = req \/ \E h \in Handlers : req' = [req EXCEPT ![h] = None]
  PROVE  Known'
<1>1. \A h \in Handlers : req'[h] = req[h] \/ req'[h] = None
  BY DEF Typed, HandlersOK
<1> QED BY <1>1 DEF Known

LEMMA KnownLinked ==
  ASSUME Known, Typed, NEW list, NEW m, NEW n, LinkAll(list, m, n), req' = req
  PROVE  Known'
<1>1. ASSUME NEW t \in Tags PROVE tag'[t].st = tag[t].st /\ tag'[t].name = tag[t].name
  <2>1. tag[t] \in TagRow
    BY DEF Typed, RowsOK
  <2>2. tag'[t] = tag[t] \/ tag'[t] = [tag[t] EXCEPT !.main = m, !.mainName = n]
    BY DEF LinkAll, Linked
  <2> QED BY <2>1, <2>2 DEF TagRow
<1> QED BY <1>1 DEF Known

LEMMA StepKnown ==
  ASSUME Typed, Known, [Next]_vars
  PROVE  Known'
<1>1. ASSUME NEW h \in Handlers, NEW r \in Requests, Receive(h, r) PROVE Known'
  <2>1. r.tag \in Tags => tag[r.tag].st # "absent"
    BY <1>1, TagAssumption DEF Receive, Sent
  <2>2. tag' = tag /\ \A g \in Handlers : req'[g] = req[g] \/ req'[g] = r
    BY <1>1 DEF Receive, Typed, HandlersOK
  <2> QED BY <2>1, <2>2 DEF Known
<1>2. ASSUME NEW h \in Handlers, Finish(h) PROVE Known'
  BY <1>2, KnownSame DEF Finish
<1>3. ASSUME NEW h \in Handlers, Step(h), ~Finish(h) PROVE Known'
  <2>1. CASE CheckName(h) \/ ListNames(h) \/ (\E n \in Names : LookUp(h, n)) \/ Relate(h)
             \/ ReadTag(h) \/ ListSynonyms(h) \/ CountUses(h) \/ CountSynonyms(h) \/ ReadDeleted(h)
    <3>1. tag' = tag /\ req' = req
      BY <1>3, <2>1 DEF CheckName, ListNames, LookUp, Relate, ReadTag, ListSynonyms, CountUses,
         CountSynonyms, ReadDeleted, Check, locals
    <3> QED BY <3>1, KnownSame
  <2>2. CASE Revive(h)
    <3>1. /\ old[h] \in [id : Tags, name : Names] /\ req' = req
          /\ tag' = [tag EXCEPT ![old[h].id].st = "available", ![old[h].id].name = old[h].name]
      BY <1>3, <2>2 DEF Revive, Typed, LocalsOK
    <3>2. ASSUME NEW t \in Tags
          PROVE  /\ tag[t].st # "absent" => tag'[t].st # "absent"
                 /\ tag'[t].st # "absent" => tag'[t].name # None
      <4>1. tag[t] \in TagRow
        BY DEF Typed, RowsOK
      <4>2. CASE t = old[h].id
        <5>1. tag'[t].st = "available" /\ tag'[t].name = old[h].name
          BY <3>1, <4>1, <4>2 DEF Typed, RowsOK, TagRow
        <5> QED BY <3>1, <5>1, TagAssumption
      <4>3. CASE t # old[h].id
        BY <3>1, <4>3 DEF Known, Typed, RowsOK
      <4> QED BY <4>2, <4>3
    <3> QED BY <3>1, <3>2, KnownKept
  <2>3. CASE Insert(h)
    <3> DEFINE absent == {t \in Tags : tag[t].st = "absent"}
    <3>1. PICK id \in [fresh[h] -> absent] :
            LET new == {id[n] : n \in fresh[h]} IN
            tag' = [t \in Tags |-> IF t \in new
                      THEN NewTag(CHOOSE n \in fresh[h] : id[n] = t) ELSE tag[t]]
      BY <1>3, <2>3 DEF Insert
    <3> DEFINE new == {id[n] : n \in fresh[h]}
    <3>2. fresh[h] \subseteq Names /\ req' = req
      BY <1>3, <2>3 DEF Insert, Typed, LocalsOK
    <3>3. ASSUME NEW t \in Tags
          PROVE  /\ tag[t].st # "absent" => tag'[t].st # "absent"
                 /\ tag'[t].st # "absent" => tag'[t].name # None
      <4>1. CASE t \in new
        <5> DEFINE n == CHOOSE m \in fresh[h] : id[m] = t
        <5>1. \E m \in fresh[h] : id[m] = t
          BY <4>1
        <5>2. n \in Names
          BY <5>1, <3>2, Zenon
        <5>3. tag'[t] = NewTag(n)
          BY <3>1, <4>1
        <5> HIDE DEF n
        <5>4. NewTag(n).st = "available" /\ NewTag(n).name = n
          BY DEF NewTag
        <5> QED BY <5>2, <5>3, <5>4, TagAssumption
      <4>2. CASE t \notin new
        BY <3>1, <4>2 DEF Known
      <4> QED BY <4>1, <4>2
    <3> QED BY <3>2, <3>3, KnownKept
  <2>4. CASE Write(h)
    <3> DEFINE t == req[h].tag
               name == NonZero(req[h].name, tag[t].name)
    <3>1. /\ Busy(h) /\ Head(todo[h]) = "write" /\ req' = req
          /\ tag' = [tag EXCEPT ![t] =
                       [st |-> "available", name |-> name,
                        main |-> NonZero(row[h].main, @.main),
                        mainName |-> NonZero(row[h].mainName, @.mainName)]]
      BY <1>3, <2>4 DEF Write, At, locals
    <3>2. Fits(req[h], todo[h], row[h]) /\ Placed(req[h].op, todo[h])
      BY <3>1, Serving DEF Typed
    <3>3. t \in Tags /\ req[h] # None
      BY <3>1, <3>2 DEF Placed, Fits, Linking
    <3>4. name # None
      BY <3>3 DEF Known, NonZero
    <3>5. ASSUME NEW s \in Tags
          PROVE  /\ tag[s].st # "absent" => tag'[s].st # "absent"
                 /\ tag'[s].st # "absent" => tag'[s].name # None
      <4>1. CASE s = t
        BY <3>1, <3>3, <3>4, <4>1 DEF Typed, RowsOK
      <4>2. CASE s # t
        BY <3>1, <3>3, <4>2 DEF Known, Typed, RowsOK
      <4> QED BY <4>1, <4>2
    <3> QED BY <3>1, <3>5, KnownKept
  <2>5. CASE Drop(h) \/ Link(h)
    BY <2>5, KnownLinked DEF Drop, Link, locals
  <2>6. CASE Delete(h) \/ Recover(h)
    <3>1. PICK st \in {"available", "deleted"} : tag' = [tag EXCEPT ![req[h].tag].st = st]
      BY <2>6 DEF Delete, Recover, SetStatus
    <3>2. req' = req
      BY <2>6 DEF Delete, Recover, SetStatus
    <3>3. Busy(h) /\ Head(todo[h]) \in {"delete", "recover"}
      BY <2>6 DEF Delete, Recover, SetStatus, At
    <3>4. req[h] # None /\ req[h].tag \in Tags
      BY <3>3, Serving DEF Typed, Fits, Placed
    <3>5. ASSUME NEW s \in Tags
          PROVE  /\ tag[s].st # "absent" => tag'[s].st # "absent"
                 /\ tag'[s].st # "absent" => tag'[s].name # None
      <4>1. tag[s] \in TagRow /\ tag' = [tag EXCEPT ![req[h].tag] = [tag[req[h].tag] EXCEPT !.st = st]]
        BY <3>1 DEF Typed, RowsOK
      <4>2. CASE s = req[h].tag
        BY <3>4, <4>1, <4>2 DEF Known, Typed, RowsOK, TagRow
      <4>3. CASE s # req[h].tag
        BY <4>1, <4>3 DEF Known, Typed, RowsOK
      <4> QED BY <4>2, <4>3
    <3> QED BY <3>2, <3>5, KnownKept
  <2>7. CASE Reply(h)
    BY <1>3, <2>7 DEF Reply
  <2> QED BY <1>3, <2>1, <2>2, <2>3, <2>4, <2>5, <2>6, <2>7 DEF Step
<1>4. CASE UNCHANGED vars
  BY <1>4, KnownSame DEF vars
<1> QED BY <1>1, <1>2, <1>3, <1>4 DEF Next, Fail

LEMMA InitKnown == Init => Known
BY TagAssumption DEF Init, Known, Absent, NewTag

LEMMA Inductive == Spec => [](Typed /\ Known)
<1>1. Typed /\ Known /\ [Next]_vars => (Typed /\ Known)'
  BY StepTyped, StepKnown
<1> QED BY <1>1, InitTyped, InitKnown, PTL DEF Spec

-----------------------------------------------------------------------------
(* Requests that are served alone *)

HasTag(n) == \E t \in Tags : Available(t) /\ tag[t].name = n

\* What UpdateTagSynonym and UpdateTag know at each statement when nobody
\* else is served: the names that have a tag by now, the synonyms to drop, those
\* that are left, and the synonyms an edit renames.
Stage(h) ==
  LET q == req[h] IN
  /\ q.op = "synonyms" /\ At(h, "lookUp") =>
       /\ \A n \in q.names : \/ HasTag(n) \/ n \in names[h] \cup fresh[h]
                             \/ old[h] # None /\ old[h].name = n
       /\ old[h] # None => tag[old[h].id].name = old[h].name
  /\ q.op = "synonyms" /\ At(h, "insert") =>
       \A n \in q.names : HasTag(n) \/ n \in fresh[h]
  /\ q.op = "synonyms" /\ (At(h, "listSynonyms") \/ At(h, "drop") \/ At(h, "link")) =>
       \A n \in q.names : HasTag(n)
  /\ q.op = "synonyms" /\ At(h, "drop") => names[h] = SynonymNames(h)
  /\ q.op = "synonyms" /\ At(h, "link") =>
       \A t \in Synonyms(q.tag) : tag[t].name \in q.names
  /\ q.op = "edit" /\ At(h, "link") => names[h] = {tag[t].name : t \in Synonyms(q.tag)}

\* A deleted tag is kept in mind only until it is revived.
InMind == \A h \in Handlers : old[h] # None => At(h, "lookUp")

\* Who is served while another one is, is not alone.
Apart ==
  \A g, h \in Handlers : g # h /\ Busy(g) /\ Busy(h) => ~alone[g]

Staged == \A h \in Handlers : Busy(h) /\ alone[h] => Stage(h)

Informed == InMind /\ Apart /\ Staged

\* What comes next when synonyms are changed or a tag is edited.
LEMMA SynonymsNext ==
  ASSUME NEW s, Left("synonyms", s)
  PROVE  /\ Head(s) = "readTag" => Head(Tail(s)) = "listNames"
         /\ Head(s) = "listNames" => /\ Head(Tail(s)) = "lookUp"
                                     /\ Head(Tail(Tail(Tail(s)))) = "listSynonyms"
         /\ Head(s) = "lookUp" => Head(Tail(s)) = "insert" /\ Head(Tail(Tail(s))) = "listSynonyms"
         /\ Head(s) = "insert" => Head(Tail(s)) = "listSynonyms"
         /\ Head(s) = "listSynonyms" => Head(Tail(s)) = "drop"
         /\ Head(s) = "drop" => Head(Tail(s)) = "link"
         /\ Head(s) = "link" => Head(Tail(s)) = "reply"
         /\ Head(s) \in {"readTag", "listNames", "lookUp", "insert", "listSynonyms", "drop",
                         "link", "reply"}
<1>1. s \in SynonymsLeft
  BY DEF Left
<1>2. CASE s = <<"readTag", "listNames", "lookUp", "insert", "listSynonyms", "drop", "link", "reply">>
  BY <1>2
<1>3. CASE s = <<"listNames", "lookUp", "insert", "listSynonyms", "drop", "link", "reply">>
  BY <1>3
<1>4. CASE s = <<"lookUp", "insert", "listSynonyms", "drop", "link", "reply">>
  BY <1>4
<1>5. CASE s = <<"insert", "listSynonyms", "drop", "link", "reply">>
  BY <1>5
<1>6. CASE s = <<"listSynonyms", "drop", "link", "reply">>
  BY <1>6
<1>7. CASE s = <<"drop", "link", "reply">>
  BY <1>7
<1>8. CASE s = <<"link", "reply">> \/ s = <<"reply">>
  BY <1>8
<1> QED BY <1>1, <1>2, <1>3, <1>4, <1>5, <1>6, <1>7, <1>8 DEF SynonymsLeft

LEMMA EditNext ==
  ASSUME NEW s, Left("edit", s)
  PROVE  /\ Head(s) = "readTag" => Head(Tail(s)) = "write"
         /\ Head(s) = "write" => /\ Head(Tail(s)) = "listSynonyms"
                                 /\ Head(Tail(Tail(Tail(s)))) = "reply"
         /\ Head(s) = "listSynonyms" => Head(Tail(s)) = "link"
         /\ Head(s) = "link" => Head(Tail(s)) = "reply"
         /\ Head(s) \in {"readTag", "write", "listSynonyms", "link", "reply"}
<1>1. s \in EditLeft
  BY DEF Left
<1>2. CASE s = <<"readTag", "write", "listSynonyms", "link", "reply">>
  BY <1>2
<1>3. CASE s = <<"write", "listSynonyms", "link", "reply">>
  BY <1>3
<1>4. CASE s = <<"listSynonyms", "link", "reply">>
  BY <1>4
<1>5. CASE s = <<"link", "reply">> \/ s = <<"reply">>
  BY <1>5
<1> QED BY <1>1, <1>2, <1>3, <1>4, <1>5 DEF EditLeft

\* The request of a handler and its first statement.
LEMMA ServedFacts ==
  ASSUME Typed, NEW h \in Handlers, Busy(h)
  PROVE  /\ req[h] \in Requests /\ Left(req[h].op, todo[h])
         /\ req[h].op \in Linking => req[h].tag \in Tags
         /\ req[h].op = "edit" => req[h].names = {}
         /\ todo[h] \in Seq(Statements) /\ todo[h] # <<>>
         /\ todo = [g \in Handlers |-> todo[g]]
BY Serving DEF Typed, HandlersOK, Fits, LeftOK, Linking

\* Nobody else is served alone while h is served.
LEMMA OthersStaged ==
  ASSUME Typed, Informed, NEW h \in Handlers, Busy(h), alone' = alone,
         \A g \in Handlers \ {h} : todo'[g] = todo[g] /\ old'[g] = old[g],
         old'[h] # None => At(h, "lookUp")',
         Busy(h)' /\ alone[h] => Stage(h)'
  PROVE  Informed'
<1>1. InMind'
  BY DEF Informed, InMind, At, Busy
<1>2. Apart'
  BY DEF Informed, Apart, Busy
<1>3. ASSUME NEW g \in Handlers, Busy(g)', alone'[g] PROVE Stage(g)'
  <2>1. CASE g = h
    BY <1>3, <2>1
  <2>2. CASE g # h
    BY <1>3, <2>2 DEF Informed, Apart, Busy
  <2> QED BY <2>1, <2>2
<1> QED BY <1>1, <1>2, <1>3 DEF Informed, Staged

\* A handler that goes on with its next statement, in a request about synonyms
\* or an edit.
LEMMA NextStatement ==
  ASSUME Typed, NEW h \in Handlers, Busy(h), Advance(h)
  PROVE  /\ todo' = [todo EXCEPT ![h] = Tail(todo[h])]
         /\ todo'[h] = Tail(todo[h])
BY SkipOne, ServedFacts DEF Typed, Advance

\* Reads and lists.
LEMMA ListsStaged ==
  ASSUME Typed, Informed, NEW h \in Handlers,
         CheckName(h) \/ ListNames(h) \/ Relate(h) \/ ReadTag(h) \/ ListSynonyms(h)
           \/ CountUses(h) \/ CountSynonyms(h) \/ ReadDeleted(h),
         ~Finish(h)
  PROVE  Informed'
<1>1. /\ Busy(h) /\ UNCHANGED <<tag, req, old, alone>>
      /\ Head(todo[h]) \in {"checkName", "listNames", "relate", "readTag", "listSynonyms",
                            "countUses", "countSynonyms", "readDeleted"}
  BY DEF CheckName, ListNames, Relate, ReadTag, ListSynonyms, CountUses, CountSynonyms,
     ReadDeleted, Check, At, locals
<1>2. old'[h] = None
  BY <1>1 DEF Informed, InMind, At
<1>3. \A g \in Handlers \ {h} : todo'[g] = todo[g]
  BY <1>1, ServedFacts DEF CheckName, ListNames, Relate, ReadTag, ListSynonyms, CountUses,
     CountSynonyms, ReadDeleted, Check, Advance, Skip
<1>4. ASSUME Busy(h)', alone[h] PROVE Stage(h)'
  <2>1. CASE req[h].op = "synonyms"
    <3>1. Head(todo[h]) \in {"listNames", "readTag", "listSynonyms"}
      BY <1>1, <2>1, ServedFacts, SynonymsNext
    <3>2. CASE Head(todo[h]) = "readTag"
      <4>1. Advance(h)
        BY <1>1, <3>2 DEF CheckName, ListNames, Relate, ReadTag, ListSynonyms, CountUses,
           CountSynonyms, ReadDeleted, Check, At
      <4>2. Head(todo'[h]) = "listNames"
        BY <1>1, <2>1, <3>2, <4>1, NextStatement, ServedFacts, SynonymsNext
      <4> QED BY <1>1, <2>1, <4>2 DEF Stage, At
    <3>3. CASE Head(todo[h]) = "listNames"
      <4> DEFINE found == {t \in Tags : Available(t) /\ tag[t].name \in req[h].names}
                 missing == req[h].names \ {tag[t].name : t \in found}
      <4>1. /\ names' = [names EXCEPT ![h] = missing]
            /\ Skip(h, IF missing = {} THEN 3 ELSE 1)
        BY <1>1, <3>3 DEF CheckName, ListNames, Relate, ReadTag, ListSynonyms, CountUses,
           CountSynonyms, ReadDeleted, Check, At
      <4>2. names'[h] = missing
        BY <4>1 DEF Typed, LocalsOK
      <4>3. \A n \in req[h].names : HasTag(n) \/ n \in missing
        BY DEF HasTag
      <4>4. \A n \in req[h].names : HasTag(n) => HasTag(n)'
        BY <1>1 DEF HasTag, Available
      <4>5. CASE missing = {}
        <5>1. Head(todo'[h]) = "listSynonyms"
          <6>1. Skip(h, 3)
            BY <4>1, <4>5
          <6>2. todo'[h] = Tail(Tail(Tail(todo[h])))
            BY <1>1, <3>3, <6>1, SkipThree, ServedFacts DEF Typed
          <6> QED BY <1>1, <2>1, <3>3, <6>2, ServedFacts, SynonymsNext
        <5> QED BY <1>1, <2>1, <4>3, <4>4, <4>5, <5>1 DEF Stage, At
      <4>6. CASE missing # {}
        <5>1. Head(todo'[h]) = "lookUp"
          <6>1. Advance(h)
            <7>1. (IF missing = {} THEN 3 ELSE 1) = 1
              BY <4>6
            <7>2. Skip(h, 1)
              <8> HIDE DEF missing
              <8> QED BY <4>1, <7>1, Zenon
            <7> QED BY <7>2 DEF Advance
          <6>2. Left("synonyms", todo[h])
            BY <1>1, <2>1, ServedFacts
          <6>3. todo'[h] = Tail(todo[h])
            BY <1>1, <6>1, NextStatement
          <6> QED BY <3>3, <6>2, <6>3, SynonymsNext
        <5> QED BY <1>1, <1>2, <2>1, <4>2, <4>3, <4>4, <5>1 DEF Stage, At
      <4> QED BY <4>5, <4>6
    <3>4. CASE Head(todo[h]) = "listSynonyms"
      <4>1. names' = [names EXCEPT ![h] = SynonymNames(h)] /\ Advance(h)
        BY <1>1, <3>4 DEF CheckName, ListNames, Relate, ReadTag, ListSynonyms, CountUses,
           CountSynonyms, ReadDeleted, Check, At
      <4>2. Head(todo'[h]) = "drop"
        BY <1>1, <2>1, <3>4, <4>1, NextStatement, ServedFacts, SynonymsNext
      <4>3. \A n \in req[h].names : HasTag(n)
        BY <1>1, <1>4, <2>1, <3>4 DEF Informed, Staged, Stage, At
      <4>4. \A n \in req[h].names : HasTag(n)'
        BY <1>1, <4>3 DEF HasTag, Available
      <4>5. names'[h] = SynonymNames(h)'
        BY <1>1, <4>1 DEF Typed, LocalsOK, SynonymNames, Synonyms, Available
      <4> QED BY <1>1, <2>1, <4>2, <4>4, <4>5 DEF Stage, At
    <3> QED BY <3>1, <3>2, <3>3, <3>4
  <2>2. CASE req[h].op = "edit"
    <3>1. Head(todo[h]) \in {"readTag", "listSynonyms"}
      BY <1>1, <2>2, ServedFacts, EditNext
    <3>2. Advance(h)
      BY <1>1, <3>1 DEF CheckName, ListNames, Relate, ReadTag, ListSynonyms, CountUses,
         CountSynonyms, ReadDeleted, Check, At
    <3>3. CASE Head(todo[h]) = "readTag"
      <4>1. Head(todo'[h]) = "write"
        BY <1>1, <2>2, <3>2, <3>3, NextStatement, ServedFacts, EditNext
      <4> QED BY <1>1, <2>2, <4>1 DEF Stage, At
    <3>4. CASE Head(todo[h]) = "listSynonyms"
      <4>1. names' = [names EXCEPT ![h] = SynonymNames(h)]
        BY <1>1, <3>4 DEF CheckName, ListNames, Relate, ReadTag, ListSynonyms, CountUses,
           CountSynonyms, ReadDeleted, Check, At
      <4>2. names'[h] = {tag[t].name : t \in Synonyms(req[h].tag)}'
        BY <1>1, <2>2, <4>1, ServedFacts DEF Typed, LocalsOK, SynonymNames, Synonyms, Available
      <4> QED BY <1>1, <2>2, <4>2 DEF Stage, At
    <3> QED BY <3>1, <3>3, <3>4
  <2>3. CASE req[h].op \notin {"synonyms", "edit"}
    BY <1>1, <2>3 DEF Stage
  <2> QED BY <2>1, <2>2, <2>3
<1> QED BY <1>1, <1>2, <1>3, <1>4, OthersStaged

\* Names that are looked up and tags that are made of them.
LEMMA LookUpStaged ==
  ASSUME Typed, Informed, NEW h \in Handlers, NEW n \in Names, LookUp(h, n)
  PROVE  Informed'
<1>1. /\ Busy(h) /\ Head(todo[h]) = "lookUp" /\ UNCHANGED <<tag, req, alone>>
      /\ old[h] = None /\ n \in names[h] /\ names' = [names EXCEPT ![h] = @ \ {n}]
  BY DEF LookUp, At
<1>2. \A g \in Handlers \ {h} : todo'[g] = todo[g] /\ old'[g] = old[g]
  BY <1>1, ServedFacts DEF LookUp, Advance, Skip, Typed, LocalsOK
<1>3. \A m \in req[h].names : HasTag(m) => HasTag(m)'
  BY <1>1 DEF HasTag, Available
<1>4. names'[h] = names[h] \ {n}
  BY <1>1 DEF Typed, LocalsOK
<1>5. ASSUME req[h].op = "synonyms", alone[h]
      PROVE  \A m \in req[h].names : HasTag(m) \/ m \in names[h] \cup fresh[h]
  BY <1>1, <1>5 DEF Informed, Staged, Stage, At
<1>6. CASE /\ fresh' = [fresh EXCEPT ![h] = @ \cup {n}] /\ old' = old
           /\ IF names[h] = {n} THEN Advance(h) ELSE UNCHANGED todo
  <2>1. fresh'[h] = fresh[h] \cup {n} /\ old'[h] = None
    BY <1>1, <1>6 DEF Typed, LocalsOK
  <2>2. CASE Advance(h) /\ names[h] = {n}
    <3>1. ASSUME req[h].op = "synonyms" PROVE Head(todo'[h]) = "insert"
      <4>1. Busy(h) /\ Head(todo[h]) = "lookUp" /\ Advance(h)
        BY <1>1, <2>2
      <4> QED BY <3>1, <4>1, NextStatement, ServedFacts, SynonymsNext
    <3>2. req[h].op # "edit"
      BY <1>1, ServedFacts, EditNext
    <3>3. Busy(h)' /\ alone[h] => Stage(h)'
      BY <1>1, <1>3, <1>4, <1>5, <2>1, <2>2, <3>1, <3>2 DEF Stage, At
    <3> QED BY <1>1, <1>2, <2>1, <3>3, OthersStaged
  <2>3. CASE todo' = todo
    <3>1. req[h].op # "edit"
      BY <1>1, ServedFacts, EditNext
    <3>2. Busy(h)' /\ alone[h] => Stage(h)'
      BY <1>1, <1>3, <1>4, <1>5, <2>1, <2>3, <3>1 DEF Stage, At
    <3> QED BY <1>1, <1>2, <2>1, <3>2, OthersStaged
  <2> QED BY <1>6, <2>2, <2>3
<1>7. CASE /\ \E t \in Named(n) : old' = [old EXCEPT ![h] = [id |-> t, name |-> n]]
           /\ UNCHANGED <<fresh, todo>>
  <2>1. PICK t \in Named(n) : old' = [old EXCEPT ![h] = [id |-> t, name |-> n]]
    BY <1>7
  <2>2. /\ old'[h] = [id |-> t, name |-> n] /\ t \in Tags /\ tag[t].name = n
        /\ [id |-> t, name |-> n] # None
    BY <2>1, TagAssumption DEF Named, Typed, LocalsOK
  <2>3. old'[h].id = t /\ old'[h].name = n /\ old'[h] # None
    BY <2>2
  <2>4. req[h].op # "edit"
    BY <1>1, ServedFacts, EditNext
  <2>5. Busy(h)' /\ alone[h] => Stage(h)'
    BY <1>1, <1>3, <1>4, <1>5, <1>7, <2>2, <2>3, <2>4 DEF Stage, At
  <2>6. At(h, "lookUp")'
    BY <1>1, <1>7 DEF At, Busy
  <2> QED BY <1>1, <1>2, <2>5, <2>6, OthersStaged
<1> QED BY <1>6, <1>7 DEF LookUp

LEMMA ReviveStaged ==
  ASSUME Typed, Informed, NEW h \in Handlers, Revive(h), ~Finish(h)
  PROVE  Informed'
<1> DEFINE t == old[h].id
<1>1. /\ Busy(h) /\ Head(todo[h]) = "lookUp" /\ old[h] \in [id : Tags, name : Names]
      /\ tag' = [tag EXCEPT ![t].st = "available", ![t].name = old[h].name]
      /\ old' = [old EXCEPT ![h] = None]
      /\ Skip(h, IF names[h] # {} THEN 0 ELSE IF fresh[h] # {} THEN 1 ELSE 2)
      /\ UNCHANGED <<req, names, fresh, alone>>
  BY DEF Revive, At, Typed, LocalsOK
<1>2. \A g \in Handlers \ {h} : todo'[g] = todo[g] /\ old'[g] = old[g]
  BY <1>1, ServedFacts DEF Skip, Typed, LocalsOK
<1>3. old'[h] = None
  BY <1>1 DEF Typed, LocalsOK
<1>4. req[h].op # "edit"
  BY <1>1, ServedFacts, EditNext
<1>5. ASSUME Busy(h)', alone[h], req[h].op = "synonyms"
      PROVE  \A n \in req[h].names : HasTag(n)' \/ n \in names[h] \cup fresh[h]
  <2>1. tag[t].name = old[h].name
    BY <1>1, <1>5, TagAssumption DEF Informed, Staged, Stage, At
  <2>2. /\ tag'[t].st = "available" /\ tag'[t].name = old[h].name /\ t \in Tags
        /\ \A s \in Tags \ {t} : tag'[s] = tag[s]
    BY <1>1 DEF Typed, RowsOK, TagRow
  <2>3. \A s \in Tags : tag'[s].name = tag[s].name /\ (Available(s) => Available(s)')
    BY <2>1, <2>2 DEF Available
  <2>4. ASSUME NEW n, n = old[h].name PROVE HasTag(n)'
    BY <2>2, <2>4 DEF HasTag, Available
  <2>5. ASSUME NEW n \in req[h].names PROVE HasTag(n)' \/ n \in names[h] \cup fresh[h]
    <3>1. HasTag(n) \/ n \in names[h] \cup fresh[h] \/ (old[h] # None /\ old[h].name = n)
      BY <1>1, <1>5 DEF Informed, Staged, Stage, At
    <3>2. CASE HasTag(n)
      BY <2>3, <3>2 DEF HasTag
    <3>3. CASE old[h].name = n
      BY <2>4, <3>3
    <3> QED BY <3>1, <3>2, <3>3
  <2> QED BY <2>5
<1>6. ASSUME Busy(h)', alone[h] PROVE Stage(h)'
  <2>1. CASE req[h].op = "synonyms"
    <3> Busy(h) /\ Head(todo[h]) = "lookUp"
      BY <1>1
    <3>1. CASE names[h] # {}
      <4>1. Skip(h, 0)
        BY <1>1, <3>1
      <4>2. todo' = todo
        BY <1>1, <4>1, SkipNone DEF Typed
      <4> QED BY <1>1, <1>3, <1>5, <1>6, <2>1, <4>2 DEF Stage, At
    <3>2. CASE names[h] = {} /\ fresh[h] # {}
      <4>1. Advance(h)
        BY <1>1, <3>2 DEF Advance
      <4>2. Head(todo'[h]) = "insert"
        BY <2>1, <4>1, NextStatement, ServedFacts, SynonymsNext
      <4> QED BY <1>1, <1>5, <1>6, <2>1, <3>2, <4>2 DEF Stage, At
    <3>3. CASE names[h] = {} /\ fresh[h] = {}
      <4>1. Skip(h, 2)
        BY <1>1, <3>3
      <4>2. todo'[h] = Tail(Tail(todo[h]))
        BY <1>1, <4>1, SkipTwo, ServedFacts DEF Typed
      <4>3. Head(todo'[h]) = "listSynonyms"
        BY <2>1, <4>2, ServedFacts, SynonymsNext
      <4> QED BY <1>1, <1>5, <1>6, <2>1, <3>3, <4>3 DEF Stage, At
    <3> QED BY <3>1, <3>2, <3>3
  <2>2. CASE req[h].op # "synonyms"
    BY <1>1, <1>4, <2>2 DEF Stage
  <2> QED BY <2>1, <2>2
<1> QED BY <1>1, <1>2, <1>3, <1>6, OthersStaged

LEMMA InsertStaged ==
  ASSUME Typed, Informed, NEW h \in Handlers, Insert(h), ~Finish(h)
  PROVE  Informed'
<1> DEFINE absent == {t \in Tags : tag[t].st = "absent"}
<1>1. /\ Busy(h) /\ Head(todo[h]) = "insert" /\ fresh' = [fresh EXCEPT ![h] = {}]
      /\ Advance(h) /\ UNCHANGED <<req, old, alone>>
  BY DEF Insert, At
<1>2. PICK id \in [fresh[h] -> absent] :
        LET new == {id[n] : n \in fresh[h]} IN
        /\ \A m, n \in fresh[h] : id[m] = id[n] => m = n
        /\ tag' = [t \in Tags |-> IF t \in new
                     THEN NewTag(CHOOSE n \in fresh[h] : id[n] = t) ELSE tag[t]]
  BY DEF Insert
<1> DEFINE new == {id[n] : n \in fresh[h]}
<1>3. \A g \in Handlers \ {h} : todo'[g] = todo[g]
  BY <1>1, ServedFacts DEF Advance, Skip
<1>4. old'[h] = None
  BY <1>1 DEF Informed, InMind, At
<1>5. ASSUME NEW n \in fresh[h] PROVE HasTag(n)'
  <2>1. id[n] \in Tags /\ id[n] \in new
    OBVIOUS
  <2>2. (CHOOSE m \in fresh[h] : id[m] = id[n]) = n
    BY <1>2
  <2>3. tag'[id[n]] = NewTag(n)
    BY <1>2, <2>1, <2>2
  <2> QED BY <2>1, <2>3 DEF HasTag, Available, NewTag
<1>6. ASSUME NEW n, HasTag(n) PROVE HasTag(n)'
  <2>1. PICK t \in Tags : Available(t) /\ tag[t].name = n
    BY <1>6 DEF HasTag
  <2>2. t \notin new
    BY <2>1 DEF Available
  <2> QED BY <1>2, <2>1, <2>2 DEF HasTag, Available
<1>7. ASSUME Busy(h)', alone[h] PROVE Stage(h)'
  <2>1. CASE req[h].op = "synonyms"
    <3>1. Head(todo'[h]) = "listSynonyms"
      BY <1>1, <2>1, NextStatement, ServedFacts, SynonymsNext
    <3>2. \A n \in req[h].names : HasTag(n) \/ n \in fresh[h]
      BY <1>1, <1>7, <2>1 DEF Informed, Staged, Stage, At
    <3>3. \A n \in req[h].names : HasTag(n)'
      BY <1>5, <1>6, <3>2
    <3> QED BY <1>1, <2>1, <3>1, <3>3 DEF Stage, At
  <2>2. CASE req[h].op # "synonyms"
    <3>1. req[h].op # "edit"
      BY <1>1, ServedFacts, EditNext
    <3> QED BY <1>1, <2>2, <3>1 DEF Stage
  <2> QED BY <2>1, <2>2
<1> QED BY <1>1, <1>3, <1>4, <1>7, OthersStaged

\* Statements that change tags.
LEMMA LinkedNames ==
  ASSUME Typed, NEW list, NEW m, NEW n, LinkAll(list, m, n)
  PROVE  \A t \in Tags :
           /\ tag'[t].st = tag[t].st /\ tag'[t].name = tag[t].name
           /\ tag[t].name \in list => tag'[t].main = m /\ tag'[t].mainName = n
           /\ tag[t].name \notin list => tag'[t] = tag[t]
<1> SUFFICES ASSUME NEW t \in Tags
             PROVE  /\ tag'[t].st = tag[t].st /\ tag'[t].name = tag[t].name
                    /\ tag[t].name \in list => tag'[t].main = m /\ tag'[t].mainName = n
                    /\ tag[t].name \notin list => tag'[t] = tag[t]
  OBVIOUS
<1>1. tag[t] \in TagRow
  BY DEF Typed, RowsOK
<1>2. CASE tag[t].name \in list
  <2>1. tag'[t] = [tag[t] EXCEPT !.main = m, !.mainName = n]
    BY <1>2 DEF LinkAll, Linked
  <2> QED BY <1>1, <1>2, <2>1 DEF TagRow
<1>3. CASE tag[t].name \notin list
  BY <1>3 DEF LinkAll
<1> QED BY <1>2, <1>3

LEMMA WritesStaged ==
  ASSUME Typed, Informed, NEW h \in Handlers,
         Write(h) \/ Drop(h) \/ Link(h) \/ Delete(h) \/ Recover(h), ~Finish(h)
  PROVE  Informed'
<1>1. /\ Busy(h) /\ UNCHANGED <<req, old, names, alone>>
      /\ Head(todo[h]) \in {"write", "drop", "link", "delete", "recover"}
      /\ Advance(h) \/ Skip(h, 3)
  BY DEF Write, Drop, Link, Delete, Recover, SetStatus, At, locals, Advance
<1>2. \A g \in Handlers \ {h} : todo'[g] = todo[g]
  BY <1>1, ServedFacts DEF Advance, Skip
<1>3. old'[h] = None
  BY <1>1 DEF Informed, InMind, At
<1>4. ASSUME Busy(h)', alone[h] PROVE Stage(h)'
  <2>1. CASE req[h].op = "synonyms"
    <3>1. Head(todo[h]) \in {"drop", "link"}
      BY <1>1, <2>1, ServedFacts, SynonymsNext
    <3>2. Advance(h)
      BY <1>1, <3>1 DEF Write, Drop, Link, Delete, Recover, SetStatus, At
    <3>3. CASE Head(todo[h]) = "drop"
      <4>1. LinkAll(names[h], None, None)
        BY <1>1, <3>3 DEF Write, Drop, Link, Delete, Recover, SetStatus, At
      <4>2. Head(todo'[h]) = "link"
        BY <1>1, <2>1, <3>2, <3>3, NextStatement, ServedFacts, SynonymsNext
      <4>3. names[h] = SynonymNames(h) /\ \A n \in req[h].names : HasTag(n)
        BY <1>1, <1>4, <2>1, <3>3 DEF Informed, Staged, Stage, At
      <4>4. \A n \in req[h].names : HasTag(n)'
        BY <4>1, <4>3, LinkedNames DEF HasTag, Available
      <4>5. ASSUME NEW t \in Tags, tag'[t].st = "available", tag'[t].main = req[h].tag
            PROVE  tag'[t].name \in req[h].names
        <5>1. req[h].tag # None /\ req[h].tag \in Tags
          BY <1>1, <2>1, ServedFacts, TagAssumption DEF Linking
        <5>2. tag[t].name \notin names[h]
          BY <4>1, <4>5, <5>1, LinkedNames
        <5>3. tag'[t] = tag[t]
          BY <4>1, <5>2, LinkedNames
        <5>4. t \in Synonyms(req[h].tag)
          BY <4>5, <5>3 DEF Synonyms, Available
        <5> QED BY <4>3, <5>2, <5>3, <5>4 DEF SynonymNames
      <4>6. \A t \in Synonyms(req[h].tag)' : tag'[t].name \in req[h].names
        BY <1>1, <4>5 DEF Synonyms, Available
      <4> QED BY <1>1, <2>1, <4>2, <4>4, <4>6 DEF Stage, At
    <3>4. CASE Head(todo[h]) = "link"
      <4>1. Busy(h)
        BY <1>1
      <4>2. Head(todo'[h]) = "reply"
        <5>1. Left("synonyms", todo[h])
          BY <2>1, <4>1, ServedFacts
        <5>2. todo'[h] = Tail(todo[h])
          BY <3>2, <4>1, NextStatement
        <5> QED BY <3>4, <5>1, <5>2, SynonymsNext
      <4> QED BY <1>1, <2>1, <4>2 DEF Stage, At
    <3> QED BY <3>1, <3>3, <3>4
  <2>2. CASE req[h].op = "edit"
    <3>1. Head(todo[h]) \in {"write", "link"}
      BY <1>1, <2>2, ServedFacts, EditNext
    <3>2. CASE Advance(h)
      <4>1. Head(todo'[h]) \in {"listSynonyms", "reply"}
        BY <1>1, <2>2, <3>1, <3>2, NextStatement, ServedFacts, EditNext
      <4> QED BY <1>1, <2>2, <4>1 DEF Stage, At
    <3>3. CASE Skip(h, 3) /\ Head(todo[h]) = "write"
      <4>1. todo'[h] = Tail(Tail(Tail(todo[h])))
        BY <1>1, <3>3, SkipThree, ServedFacts DEF Typed
      <4>2. Head(todo'[h]) = "reply"
        BY <1>1, <2>2, <3>3, <4>1, ServedFacts, EditNext
      <4> QED BY <1>1, <2>2, <4>2 DEF Stage, At
    <3>4. Head(todo[h]) = "link" => Advance(h)
      BY <1>1 DEF Write, Drop, Link, Delete, Recover, SetStatus, At
    <3> QED BY <1>1, <3>1, <3>2, <3>3, <3>4
  <2>3. CASE req[h].op \notin {"synonyms", "edit"}
    BY <1>1, <2>3 DEF Stage
  <2> QED BY <2>1, <2>2, <2>3
<1> QED BY <1>1, <1>2, <1>3, <1>4, OthersStaged

LEMMA EndStaged ==
  ASSUME Typed, Informed, NEW h \in Handlers, Busy(h), Finish(h)
  PROVE  Informed'
<1>1. /\ todo'[h] = <<>> /\ alone' = alone /\ old'[h] = None
      /\ \A g \in Handlers \ {h} : todo'[g] = todo[g] /\ old'[g] = old[g]
  BY ServedFacts DEF Finish, Typed, LocalsOK
<1>2. ~Busy(h)'
  BY <1>1 DEF Busy
<1> QED BY <1>1, <1>2, OthersStaged

LEMMA ReceiveStaged ==
  ASSUME Typed, Informed, NEW h \in Handlers, NEW r \in Requests, Receive(h, r)
  PROVE  Informed'
<1> DEFINE others == {g \in Handlers : Busy(g)}
<1>1. /\ ~Busy(h) /\ todo'[h] = Program(r.op) /\ req'[h] = r /\ old' = old
      /\ \A g \in Handlers \ {h} : todo'[g] = todo[g]
      /\ alone' = [g \in Handlers |-> IF g = h THEN others = {} ELSE alone[g] /\ g \notin others]
  BY DEF Receive, locals, Typed, HandlersOK
<1>2. InMind'
  BY <1>1 DEF Informed, InMind, At, Busy
<1>3. \A g \in Handlers \ {h} : Busy(g)' => g \in others /\ ~alone'[g]
  BY <1>1 DEF Busy
<1>4. alone'[h] => others = {}
  BY <1>1
<1>5. Apart'
  <2> SUFFICES ASSUME NEW g \in Handlers, NEW k \in Handlers, g # k, Busy(g)', Busy(k)'
               PROVE  ~alone'[g]
    BY DEF Apart
  <2>1. CASE g = h
    BY <1>3, <1>4, <2>1
  <2>2. CASE g # h
    BY <1>3, <2>2
  <2> QED BY <2>1, <2>2
<1>6. Stage(h)'
  <2>1. CASE r.op = "synonyms"
    <3>1. Head(todo'[h]) = "readTag"
      BY <1>1, <2>1 DEF Program, UpdateTagSynonym
    <3> QED BY <1>1, <2>1, <3>1 DEF Stage, At
  <2>2. CASE r.op = "edit"
    <3>1. Head(todo'[h]) = "readTag"
      BY <1>1, <2>2 DEF Program, UpdateTag
    <3> QED BY <1>1, <2>2, <3>1 DEF Stage, At
  <2>3. CASE r.op \notin {"synonyms", "edit"}
    BY <1>1, <2>3 DEF Stage
  <2> QED BY <2>1, <2>2, <2>3
<1>7. Staged'
  BY <1>3, <1>6 DEF Staged
<1> QED BY <1>2, <1>5, <1>7 DEF Informed

LEMMA StepInformed ==
  ASSUME Typed, Informed, [Next]_vars
  PROVE  Informed'
<1>1. ASSUME NEW h \in Handlers, NEW r \in Requests, Receive(h, r) PROVE Informed'
  BY <1>1, ReceiveStaged
<1>2. ASSUME NEW h \in Handlers, Step(h), ~Finish(h) PROVE Informed'
  <2>1. CASE \/ CheckName(h) \/ ListNames(h) \/ Relate(h) \/ ReadTag(h) \/ ListSynonyms(h)
             \/ CountUses(h) \/ CountSynonyms(h) \/ ReadDeleted(h)
    BY <1>2, <2>1, ListsStaged
  <2>2. CASE \E n \in Names : LookUp(h, n)
    BY <2>2, LookUpStaged
  <2>3. CASE Revive(h)
    BY <1>2, <2>3, ReviveStaged
  <2>4. CASE Insert(h)
    BY <1>2, <2>4, InsertStaged
  <2>5. CASE Write(h) \/ Drop(h) \/ Link(h) \/ Delete(h) \/ Recover(h)
    BY <1>2, <2>5, WritesStaged
  <2>6. CASE Reply(h)
    BY <1>2, <2>6 DEF Reply
  <2> QED BY <1>2, <2>1, <2>2, <2>3, <2>4, <2>5, <2>6 DEF Step
<1>3. ASSUME NEW h \in Handlers, Step(h) \/ Fail(h), Finish(h) PROVE Informed'
  <2>1. Busy(h)
    BY <1>3 DEF Step, Fail, CheckName, ListNames, LookUp, Revive, Insert, Relate, ReadTag, Write,
       ListSynonyms, Drop, Link, CountUses, CountSynonyms, ReadDeleted, Check, Delete, Recover,
       SetStatus, Reply, At
  <2> QED BY <1>3, <2>1, EndStaged
<1>4. CASE UNCHANGED vars
  <2>1. InMind' /\ Apart'
    BY <1>4 DEF vars, locals, Informed, InMind, Apart, At, Busy
  <2>2. ASSUME NEW h \in Handlers, Busy(h)', alone'[h] PROVE Stage(h)'
    <3>1. Stage(h)
      BY <1>4, <2>2 DEF vars, Informed, Staged, Busy
    <3> QED BY <1>4, <3>1 DEF vars, locals, Stage, At, Busy, HasTag, Available, SynonymNames, Synonyms
  <2> QED BY <2>1, <2>2 DEF Informed, Staged
<1> QED BY <1>1, <1>2, <1>3, <1>4 DEF Next, Fail

LEMMA InitInformed == Init => Informed
BY DEF Init, Informed, InMind, Apart, Staged, Busy

(* Rows, requests and what the handlers keep have their types, whatever      *)
(* fails and overlaps.                                                       *)
THEOREM TypeCorrect == Spec => []TypeOK
BY Inductive, TypedIsTypeOK, PTL

(* A tag that has the name of a main tag has a main tag: an edit that writes *)
(* back the row it read (UpdateTag) never leaves half of a synonym, whoever  *)
(* changes the synonyms meanwhile.                                           *)
THEOREM NameNeverWithoutMain == Spec => []NameHasMain
<1>1. Typed => NameHasMain
  BY DEF Typed, RowsOK
<1> QED BY <1>1, Inductive, PTL

LEMMA InductiveAlone == Spec => [](Typed /\ Informed)
<1>1. Typed /\ Informed /\ [Next]_vars => Informed'
  BY StepInformed
<1> QED BY <1>1, Inductive, InitInformed, PTL DEF Spec

(* UpdateTagSynonym: when nobody else is served meanwhile, the synonyms of a *)
(* tag become those that were asked for, whatever requests that failed or    *)
(* overlapped before had left.                                               *)
THEOREM SynonymsBecomeAsAsked == Spec => SynonymsAsAsked
<1>1. ASSUME Typed, Informed, NEW h \in Handlers, Link(h), req[h].op = "synonyms", alone[h]
      PROVE  {tag'[t].name : t \in {s \in Tags : /\ tag'[s].st = "available"
                                                 /\ tag'[s].main = req[h].tag}} = req[h].names
  <2>1. Busy(h) /\ At(h, "link") /\ LinkAll(req[h].names, req[h].tag, row[h].name)
    BY <1>1 DEF Link, At
  <2>2. /\ \A n \in req[h].names : HasTag(n)
        /\ \A t \in Synonyms(req[h].tag) : tag[t].name \in req[h].names
    BY <1>1, <2>1 DEF Informed, Staged, Stage
  <2>3. ASSUME NEW t \in Tags, tag'[t].st = "available", tag'[t].main = req[h].tag
        PROVE  tag'[t].name \in req[h].names
    <3>1. CASE tag[t].name \in req[h].names
      BY <1>1, <2>1, <3>1, LinkedNames
    <3>2. CASE tag[t].name \notin req[h].names
      <4>1. tag'[t] = tag[t]
        BY <1>1, <2>1, <3>2, LinkedNames
      <4> QED BY <2>2, <2>3, <4>1 DEF Synonyms, Available
    <3> QED BY <3>1, <3>2
  <2>4. ASSUME NEW n \in req[h].names
        PROVE  \E t \in Tags : /\ tag'[t].st = "available" /\ tag'[t].main = req[h].tag
                               /\ tag'[t].name = n
    <3>1. PICK t \in Tags : Available(t) /\ tag[t].name = n
      BY <2>2 DEF HasTag
    <3> QED BY <1>1, <2>1, <3>1, LinkedNames DEF Available
  <2> QED BY <2>3, <2>4
<1>2. Typed /\ Informed /\ [Next]_vars =>
        [\A h \in Handlers : Link(h) /\ req[h].op = "synonyms" /\ alone[h] =>
           {tag'[t].name : t \in {s \in Tags : /\ tag'[s].st = "available"
                                               /\ tag'[s].main = req[h].tag}} = req[h].names]_vars
  BY <1>1
<1> QED BY <1>2, InductiveAlone, PTL DEF Spec, SynonymsAsAsked

(* UpdateTag: when nobody else is served meanwhile, no synonym keeps the name *)
(* a main tag had before it was edited.                                       *)
THEOREM FormerNameIsGone == Spec => NoFormerName
<1>1. ASSUME Typed, Informed, NEW h \in Handlers, Link(h), req[h].op = "edit", alone[h],
             NEW t \in Synonyms(req[h].tag)
      PROVE  tag'[t].mainName \in {None, tag'[req[h].tag].name}
  <2>1. Busy(h) /\ At(h, "link") /\ LinkAll(names[h], req[h].tag, row[h].mainName)
    BY <1>1 DEF Link, At
  <2>2. names[h] = {tag[s].name : s \in Synonyms(req[h].tag)}
    BY <1>1, <2>1 DEF Informed, Staged, Stage
  <2>3. row[h].main = None /\ Synonymous(row[h])
    BY <1>1, <2>1, Serving DEF Typed, Fits, At, Linking
  <2>4. row[h].mainName = None
    BY <2>3 DEF Synonymous
  <2>5. tag[t].name \in names[h] /\ t \in Tags
    BY <2>2 DEF Synonyms
  <2> QED BY <1>1, <2>1, <2>4, <2>5, LinkedNames
<1>2. Typed /\ Informed /\ [Next]_vars =>
        [\A h \in Handlers : Link(h) /\ req[h].op = "edit" /\ alone[h] =>
           \A t \in Synonyms(req[h].tag) : tag'[t].mainName \in {None, tag'[req[h].tag].name}]_vars
  BY <1>1
<1> QED BY <1>2, InductiveAlone, PTL DEF Spec, NoFormerName

-----------------------------------------------------------------------------
(* Sequences as sets of their elements *)

Distinct(s) == \A i, j \in DOMAIN s : s[i] = s[j] => i = j

LEMMA ElementsIn ==
  ASSUME NEW S, NEW s \in Seq(S)
  PROVE  /\ Elements(s) \subseteq S
         /\ Elements(<<>>) = {}
         /\ s # <<>> => Elements(s) # {}
<1>1. DOMAIN s = 1..Len(s) /\ \A i \in 1..Len(s) : s[i] \in S
  BY LenProperties
<1>2. s # <<>> => 1 \in 1..Len(s)
  BY EmptySeq
<1> QED BY <1>1, <1>2 DEF Elements

LEMMA FirstAndRest ==
  ASSUME NEW S, NEW s \in Seq(S), s # <<>>
  PROVE  /\ Head(s) \in S /\ Tail(s) \in Seq(S) /\ Len(Tail(s)) = Len(s) - 1
         /\ Elements(s) = {Head(s)} \cup Elements(Tail(s))
         /\ Distinct(s) => Distinct(Tail(s)) /\ Head(s) \notin Elements(Tail(s))
<1>1. /\ Head(s) = s[1] /\ Head(s) \in S /\ Tail(s) \in Seq(S)
      /\ Len(s) \in Nat /\ Len(s) >= 1 /\ Len(Tail(s)) = Len(s) - 1
      /\ DOMAIN s = 1..Len(s) /\ DOMAIN Tail(s) = 1..(Len(s) - 1)
      /\ \A i \in 1..(Len(s) - 1) : Tail(s)[i] = s[i + 1]
  BY EmptySeq, LenProperties, HeadTailProperties
<1>2. Elements(s) = {Head(s)} \cup Elements(Tail(s))
  <2>1. ASSUME NEW i \in 1..Len(s) PROVE s[i] \in {Head(s)} \cup Elements(Tail(s))
    <3>1. CASE i = 1
      BY <3>1, <1>1
    <3>2. CASE i # 1
      <4>1. i - 1 \in 1..(Len(s) - 1) /\ (i - 1) + 1 = i
        BY <3>2, <1>1
      <4>2. Tail(s)[i - 1] = s[i]
        BY <4>1, <1>1
      <4> QED BY <4>1, <4>2, <1>1 DEF Elements
    <3> QED BY <3>1, <3>2
  <2>2. ASSUME NEW i \in 1..(Len(s) - 1) PROVE Tail(s)[i] \in Elements(s)
    <3>1. i + 1 \in 1..Len(s)
      BY <1>1
    <3> QED BY <3>1, <1>1 DEF Elements
  <2>3. Head(s) \in Elements(s)
    <3>1. 1 \in 1..Len(s)
      BY <1>1
    <3> QED BY <3>1, <1>1 DEF Elements
  <2> QED BY <2>1, <2>2, <2>3, <1>1 DEF Elements
<1>3. ASSUME Distinct(s)
      PROVE  Distinct(Tail(s)) /\ Head(s) \notin Elements(Tail(s))
  <2>1. ASSUME NEW i \in 1..(Len(s) - 1), NEW j \in 1..(Len(s) - 1), Tail(s)[i] = Tail(s)[j]
        PROVE  i = j
    <3>1. i + 1 \in 1..Len(s) /\ j + 1 \in 1..Len(s) /\ s[i + 1] = s[j + 1]
      BY <2>1, <1>1
    <3>2. i + 1 = j + 1
      BY <3>1, <1>1, <1>3 DEF Distinct
    <3> QED BY <3>2
  <2>2. ASSUME NEW i \in 1..(Len(s) - 1), Tail(s)[i] = Head(s)
        PROVE  FALSE
    <3>1. i + 1 \in 1..Len(s) /\ 1 \in 1..Len(s) /\ s[i + 1] = s[1]
      BY <2>2, <1>1
    <3>2. i + 1 = 1
      BY <3>1, <1>1, <1>3 DEF Distinct
    <3> QED BY <3>2
  <2> QED BY <2>1, <2>2, <1>1 DEF Distinct, Elements
<1> QED BY <1>1, <1>2, <1>3

LEMMA OneMore ==
  ASSUME NEW S, NEW s \in Seq(S), NEW x \in S
  PROVE  /\ Append(s, x) \in Seq(S) /\ Len(Append(s, x)) = Len(s) + 1
         /\ Elements(Append(s, x)) = Elements(s) \cup {x}
         /\ Distinct(s) /\ x \notin Elements(s) => Distinct(Append(s, x))
<1> DEFINE t == Append(s, x)
<1>1. /\ t \in Seq(S) /\ Len(s) \in Nat /\ Len(t) = Len(s) + 1
      /\ DOMAIN s = 1..Len(s) /\ DOMAIN t = 1..(Len(s) + 1)
      /\ \A i \in 1..Len(s) : t[i] = s[i]
      /\ t[Len(s) + 1] = x
  BY LenProperties, AppendProperties
<1> HIDE DEF t
<1>2. \A i \in 1..(Len(s) + 1) : i \in 1..Len(s) \/ i = Len(s) + 1
  BY <1>1
<1>3. Elements(t) = Elements(s) \cup {x}
  BY <1>1, <1>2 DEF Elements
<1>4. ASSUME Distinct(s), x \notin Elements(s) PROVE Distinct(t)
  BY <1>1, <1>2, <1>4 DEF Distinct, Elements
<1> QED BY <1>1, <1>3, <1>4 DEF t

-----------------------------------------------------------------------------
(* Types *)

LEMMA MessageParts ==
  ASSUME NEW m \in Messages
  PROVE  /\ m.type \in {"achievement", "inbox"} /\ m.event \in Events
         /\ m.post \in Posts /\ m.to \in Readers /\ m.push \in BOOLEAN
BY DEF Messages

LEMMA MessagesMade ==
  ASSUME NEW e \in Events, NEW p \in Posts, NEW k \in Kinds
  PROVE  /\ ToSend(e, p, k) \in Seq(Messages) /\ ToSend(e, p, k) # <<>>
         /\ Achievement(e, p) \in Messages /\ Inbox(e, p, k) \in Messages
         /\ Elements(ToSend(e, p, k)) =
              (IF k \in {"vote", "cancelVote"} THEN {Achievement(e, p)} ELSE {})
                \cup (IF k # "cancelVote" THEN {Inbox(e, p, k)} ELSE {})
         /\ Distinct(ToSend(e, p, k))
<1>1. Achievement(e, p) \in Messages /\ Inbox(e, p, k) \in Messages
  BY DEF Achievement, Inbox, Messages, Readers, Pushed
<1>2. Achievement(e, p) # Inbox(e, p, k)
  BY DEF Achievement, Inbox
<1>3. CASE k = "vote"
  <2>1. ToSend(e, p, k) = <<Achievement(e, p), Inbox(e, p, k)>>
    BY <1>3 DEF ToSend
  <2> QED BY <2>1, <1>1, <1>2, <1>3 DEF Elements, Distinct
<1>4. CASE k = "cancelVote"
  <2>1. ToSend(e, p, k) = <<Achievement(e, p)>>
    BY <1>4 DEF ToSend
  <2> QED BY <2>1, <1>1, <1>4 DEF Elements, Distinct
<1>5. CASE k \in {"answer", "comment"}
  <2>1. ToSend(e, p, k) = <<Inbox(e, p, k)>>
    BY <1>5 DEF ToSend
  <2> QED BY <2>1, <1>1, <1>5 DEF Elements, Distinct
<1> QED BY <1>1, <1>3, <1>4, <1>5 DEF Kinds

LEMMA CopyIsMessage ==
  ASSUME NEW m \in Messages, NEW u \in Users
  PROVE  /\ CopyFor(m, u) \in Messages
         /\ CopyFor(m, u).type = m.type /\ CopyFor(m, u).event = m.event
         /\ CopyFor(m, u).post = m.post /\ CopyFor(m, u).to = u /\ ~CopyFor(m, u).push
BY DEF CopyFor, Messages, Readers

QueueTyped ==
  /\ QueueTypeOK
  /\ \A p \in Posts : rank[p] <= events
  /\ \A p \in Posts : follows[p] = Cardinality(Following(p))

LEMMA FollowersFinite ==
  ASSUME NEW p
  PROVE  /\ Following(p) \subseteq Users /\ IsFiniteSet(Following(p))
         /\ Cardinality(Following(p)) \in 0..Cardinality(Users)
<1>1. Following(p) \in SUBSET Users /\ IsFiniteSet(Users)
  BY QueueAssumption DEF Following
<1> HIDE DEF Following
<1>2. /\ IsFiniteSet(Following(p)) /\ Cardinality(Following(p)) <= Cardinality(Users)
  BY <1>1, FS_Subset
<1> QED BY <1>1, <1>2, FS_CardinalityType

LEMMA QueueInitTyped == QueueInit => QueueTyped
<1> SUFFICES ASSUME QueueInit PROVE QueueTyped
  OBVIOUS
<1>1. \A p \in Posts : Following(p) = InitialFollowers
  BY QueueAssumption DEF QueueInit, Following
<1>2. \A p \in Posts : follows[p] = Cardinality(Following(p))
  BY <1>1 DEF QueueInit
<1>3. \A p \in Posts : Cardinality(Following(p)) \in 0..Cardinality(Users)
  BY FollowersFinite
<1>4. follows \in [Posts -> 0..Cardinality(Users)]
  <2>1. follows = [p \in Posts |-> Cardinality(InitialFollowers)]
    BY DEF QueueInit
  <2>2. \A p \in Posts : Cardinality(InitialFollowers) \in 0..Cardinality(Users)
    BY <1>1, <1>3
  <2> QED BY <2>1, <2>2
<1>5. follow \in [Posts -> [Users -> {"none", "on", "off"}]]
  BY DEF QueueInit
<1>6. queue \in Seq(Messages) /\ Len(queue) <= Capacity /\ outbox \in [Senders -> Seq(Messages)]
  <2>1. <<>> \in Seq(Messages) /\ Len(<<>>) = 0
    BY EmptySeq
  <2>2. queue = <<>> /\ outbox = [h \in Senders |-> <<>>] /\ Capacity \in Nat \ {0}
    BY QueueAssumption DEF QueueInit
  <2>3. outbox \in [Senders -> Seq(Messages)]
    <3>1. \A S : \A x \in S : [h \in Senders |-> x] \in [Senders -> S]
      OBVIOUS
    <3> QED BY <3>1, <2>1, <2>2, Zenon
  <2>4. queue \in Seq(Messages) /\ Len(queue) = 0
    BY <2>1, <2>2, Zenon
  <2>5. Len(queue) <= Capacity
    <3>1. Capacity \in Nat \ {0}
      BY QueueAssumption
    <3> QED BY <3>1, <2>4
  <2> QED BY <2>3, <2>4, <2>5
<1>7. 0 \in 0..MaxEvents /\ 0 \in 0..MaxFollows /\ 0 \in 0..MaxCrashes
  BY QueueAssumption
<1>8. /\ rank \in [Posts -> 0..MaxEvents] /\ shown \in [Posts -> 0..MaxEvents]
      /\ \A p \in Posts : rank[p] <= events
      /\ events \in 0..MaxEvents /\ changes \in 0..MaxFollows /\ crashes \in 0..MaxCrashes
  BY <1>7 DEF QueueInit
<1>9. /\ kind \in [Events -> Kinds \cup {"none"}] /\ removed \subseteq Events
      /\ told \in [Events -> [Readers -> Nat]]
      /\ worker \in Working \cup {Nothing}
      /\ starting \subseteq Messages /\ pushes \subseteq Messages
      /\ behind \subseteq Posts /\ lost \subseteq Events
      /\ always \in [Events -> SUBSET Users] /\ ever \in [Events -> SUBSET Users]
      /\ panicked \in BOOLEAN
  BY DEF QueueInit
<1> QED BY <1>2, <1>4, <1>5, <1>6, <1>8, <1>9 DEF QueueTyped, QueueTypeOK

\* What the worker has in hand.
LEMMA WorkerParts ==
  ASSUME QueueTyped, worker # Nothing
  PROVE  /\ worker \in Working /\ worker.msg \in Messages
         /\ worker.msg.event \in Events /\ worker.msg.post \in Posts /\ worker.msg.to \in Readers
         /\ worker.rank \in 0..MaxEvents /\ worker.stage \in {"look", "save", "sync"}
         /\ worker = [msg |-> worker.msg, found |-> worker.found, rank |-> worker.rank,
                      stage |-> worker.stage]
BY DEF QueueTyped, QueueTypeOK, Working, Messages

LEMMA NoWorkIsNothing ==
  ASSUME NEW m \in Messages, NEW f \in BOOLEAN, NEW r \in 0..MaxEvents,
         NEW s \in {"look", "save", "sync"}
  PROVE  /\ [msg |-> m, found |-> f, rank |-> r, stage |-> s] \in Working
         /\ [msg |-> m, found |-> f, rank |-> r, stage |-> s] # Nothing
BY QueueAssumption DEF Working

LEMMA CommitTyped ==
  ASSUME QueueTyped, NEW h \in Senders, NEW k \in Kinds, NEW p \in Posts, Commit(h, k, p)
  PROVE  QueueTyped'
<1>1. events + 1 \in Events /\ events \in 0..MaxEvents /\ MaxEvents \in Nat
  <2>1. events < MaxEvents
    BY DEF Commit
  <2>2. events \in 0..MaxEvents /\ MaxEvents \in Nat
    BY QueueAssumption DEF QueueTyped, QueueTypeOK
  <2> QED BY <2>1, <2>2 DEF Events
<1>2. ToSend(events + 1, p, k) \in Seq(Messages)
  BY <1>1, MessagesMade
<1>3. outbox' \in [Senders -> Seq(Messages)]
  BY <1>2 DEF Commit, QueueTyped, QueueTypeOK
<1>4. kind' \in [Events -> Kinds \cup {"none"}]
  BY <1>1 DEF Commit, QueueTyped, QueueTypeOK
<1>5. /\ rank' \in [Posts -> 0..MaxEvents] /\ \A q \in Posts : rank'[q] <= events'
  <2>1. events' = events + 1
    BY DEF Commit
  <2>2. DOMAIN rank' = Posts /\ rank' = [q \in Posts |-> rank'[q]]
    BY DEF Commit, QueueTyped, QueueTypeOK
  <2>3. ASSUME NEW q \in Posts PROVE rank'[q] \in 0..MaxEvents /\ rank'[q] <= events'
    <3>1. rank[q] \in 0..MaxEvents /\ rank[q] <= events
      BY DEF QueueTyped, QueueTypeOK
    <3>2. \/ rank'[q] = rank[q]
          \/ rank'[q] = rank[q] + 1
          \/ rank'[q] = rank[q] - 1 /\ rank[q] > 0
      <4>1. /\ k = "cancelVote" => rank[p] > 0
            /\ rank' = [rank EXCEPT ![p] = CASE k = "vote" -> @ + 1
                                             [] k = "cancelVote" -> @ - 1
                                             [] OTHER -> @]
            /\ rank \in [Posts -> 0..MaxEvents]
        BY DEF Commit, QueueTyped, QueueTypeOK
      <4>2. CASE q # p
        BY <4>1, <4>2
      <4>3. CASE q = p
        <5>1. rank'[p] = CASE k = "vote" -> rank[p] + 1
                           [] k = "cancelVote" -> rank[p] - 1
                           [] OTHER -> rank[p]
          BY <4>1
        <5> QED BY <4>1, <4>3, <5>1
      <4> QED BY <4>2, <4>3
    <3>3. CASE rank'[q] = rank[q]
      BY <1>1, <2>1, <3>1, <3>3
    <3>4. CASE rank'[q] = rank[q] + 1
      BY <1>1, <2>1, <3>1, <3>4 DEF Events
    <3>5. CASE rank'[q] = rank[q] - 1 /\ rank[q] > 0
      BY <1>1, <2>1, <3>1, <3>5
    <3> QED BY <3>2, <3>3, <3>4, <3>5
  <2> QED BY <2>2, <2>3
<1>6. always' \in [Events -> SUBSET Users] /\ ever' \in [Events -> SUBSET Users]
  <2>1. Following(p) \in SUBSET Users
    BY FollowersFinite
  <2> QED BY <2>1 DEF Commit, QueueTyped, QueueTypeOK
<1>7. \A q \in Posts : Following(q)' = Following(q)
  BY DEF Commit, Following, following
<1>8. UNCHANGED <<shown, removed, told, follow, follows, changes, crashes, queue, worker,
                  starting, pushes, behind, lost, panicked>> /\ events' \in 0..MaxEvents
  BY <1>1 DEF Commit, following, Events
<1> QED BY <1>3, <1>4, <1>5, <1>6, <1>7, <1>8 DEF QueueTyped, QueueTypeOK

LEMMA FollowingTyped ==
  ASSUME QueueTyped, NEW p \in Posts, NEW u \in Users, Follow(p, u) \/ FollowCancel(p, u)
  PROVE  QueueTyped'
<1>1. changes' \in 0..MaxFollows
  BY QueueAssumption DEF QueueTyped, QueueTypeOK, Follow, FollowCancel
<1>2. follow' \in [Posts -> [Users -> {"none", "on", "off"}]]
  <2>1. PICK x \in {"on", "off"} : follow' = [follow EXCEPT ![p][u] = x]
    BY DEF Follow, FollowCancel
  <2>2. follow \in [Posts -> [Users -> {"none", "on", "off"}]]
    BY DEF QueueTyped, QueueTypeOK
  <2> QED BY <2>1, <2>2
<1>3. ASSUME NEW q \in Posts PROVE follows'[q] = Cardinality(Following(q)')
  <2>1. /\ Following(q) \subseteq Users /\ IsFiniteSet(Following(q))
        /\ Cardinality(Following(q)) \in Nat /\ follows[q] = Cardinality(Following(q))
    BY FollowersFinite, FS_CardinalityType DEF QueueTyped
  <2>2. CASE q # p
    <3>1. follow'[q] = follow[q] /\ follows'[q] = follows[q]
      BY <2>2 DEF QueueTyped, QueueTypeOK, Follow, FollowCancel
    <3> QED BY <2>1, <3>1 DEF Following
  <2>3. CASE q = p /\ Follow(p, u)
    <3>1. follows'[q] = follows[q] + 1 /\ u \notin Following(q)
      BY <2>3 DEF QueueTyped, QueueTypeOK, Follow, MayChange, Following
    <3>2. Following(q)' = Following(q) \cup {u}
      BY <2>3 DEF QueueTyped, QueueTypeOK, Follow, Following
    <3> QED BY <2>1, <3>1, <3>2, FS_AddElement
  <2>4. CASE q = p /\ FollowCancel(p, u)
    <3>1. follows'[q] = follows[q] - 1 /\ u \in Following(q)
      BY <2>4 DEF QueueTyped, QueueTypeOK, FollowCancel, MayChange, Following
    <3>2. Following(q)' = Following(q) \ {u}
      BY <2>4 DEF QueueTyped, QueueTypeOK, FollowCancel, Following
    <3> QED BY <2>1, <3>1, <3>2, FS_RemoveElement
  <2> QED BY <2>2, <2>3, <2>4
<1>4. follows' \in [Posts -> 0..Cardinality(Users)]
  <2>1. \A q \in Posts : Cardinality(Following(q)') \in 0..Cardinality(Users)
    <3>1. ASSUME NEW q \in Posts PROVE Cardinality(Following(q)') \in 0..Cardinality(Users)
      <4>1. Following(q)' \in SUBSET Users /\ IsFiniteSet(Users)
        BY QueueAssumption DEF Following
      <4> HIDE DEF Following
      <4>2. Cardinality(Following(q)') <= Cardinality(Users) /\ IsFiniteSet(Following(q)')
        BY <4>1, FS_Subset
      <4> QED BY <4>1, <4>2, FS_CardinalityType
    <3> QED BY <3>1
  <2>2. follows' = [q \in Posts |-> follows'[q]]
    BY DEF QueueTyped, QueueTypeOK, Follow, FollowCancel
  <2> QED BY <1>3, <2>1, <2>2
<1>5. always' \in [Events -> SUBSET Users] /\ ever' \in [Events -> SUBSET Users]
  <2>1. always \in [Events -> SUBSET Users] /\ ever \in [Events -> SUBSET Users]
    BY DEF QueueTyped, QueueTypeOK
  <2>2. CASE Follow(p, u)
    BY <2>1, <2>2 DEF Follow
  <2>3. CASE FollowCancel(p, u)
    BY <2>1, <2>3 DEF FollowCancel
  <2> QED BY <2>2, <2>3
<1> QED
  BY <1>1, <1>2, <1>3, <1>4, <1>5 DEF QueueTyped, QueueTypeOK, Follow, FollowCancel

\* Who follows what does not change.
LEMMA SameFollowers ==
  ASSUME UNCHANGED follow
  PROVE  \A p \in Posts : Following(p)' = Following(p)
BY DEF Following

LEMMA SendTyped ==
  ASSUME QueueTyped, NEW h \in Senders, Send(h)
  PROVE  QueueTyped'
<1>1. outbox[h] \in Seq(Messages) /\ outbox[h] # <<>> /\ queue \in Seq(Messages)
  BY DEF QueueTyped, QueueTypeOK, Send
<1>2. Head(outbox[h]) \in Messages /\ Tail(outbox[h]) \in Seq(Messages)
  BY <1>1, FirstAndRest
<1>3. queue' \in Seq(Messages) /\ Len(queue') <= Capacity
  BY <1>1, <1>2, OneMore, LenProperties, QueueAssumption DEF Send, Room
<1>4. outbox' \in [Senders -> Seq(Messages)]
  BY <1>2 DEF Send, QueueTyped, QueueTypeOK
<1> QED BY <1>3, <1>4, SameFollowers DEF Send, QueueTyped, QueueTypeOK, following, history

LEMMA GoroutineTyped ==
  ASSUME QueueTyped, NEW e \in Events, ListFollowers(e) \/ FailList(e) \/ Push(e)
  PROVE  QueueTyped'
<1>1. UNCHANGED <<follow, follows, rank, events, shown, kind, removed, told, changes, crashes,
                  outbox, worker, behind, always, ever, panicked>>
  BY DEF ListFollowers, FailList, Push, following, history
<1>2. pushes' \subseteq Messages /\ starting' \subseteq Messages
  <2>1. \A m \in starting, u \in Users : CopyFor(m, u) \in Messages
    BY CopyIsMessage DEF QueueTyped, QueueTypeOK
  <2> QED BY <2>1 DEF QueueTyped, QueueTypeOK, ListFollowers, FailList, Push, Following
<1>3. lost' \subseteq Events
  BY DEF QueueTyped, QueueTypeOK, ListFollowers, FailList, Push, history
<1>4. queue' \in Seq(Messages) /\ Len(queue') <= Capacity
  <2>1. CASE Push(e)
    <3>1. PICK m \in pushes : queue' = Append(queue, m) /\ Len(queue) < Capacity
      BY <2>1 DEF Push, Room
    <3>2. m \in Messages /\ queue \in Seq(Messages)
      BY DEF QueueTyped, QueueTypeOK
    <3> QED BY <3>1, <3>2, OneMore, LenProperties, QueueAssumption
  <2>2. CASE ListFollowers(e) \/ FailList(e)
    BY <2>2 DEF ListFollowers, FailList, QueueTyped, QueueTypeOK
  <2> QED BY <2>1, <2>2
<1> QED BY <1>1, <1>2, <1>3, <1>4, SameFollowers DEF QueueTyped, QueueTypeOK

LEMMA WorkerTyped ==
  ASSUME QueueTyped, Take \/ Look \/ SaveAchievement \/ SaveInbox \/ Sync \/ FailHandle
  PROVE  QueueTyped'
<1>1. UNCHANGED <<follow, follows, rank, events, kind, removed, changes, crashes, outbox, pushes,
                  always, ever, panicked>>
  BY DEF Take, Look, SaveAchievement, SaveInbox, Sync, FailHandle, following, history
<1>2. queue' \in Seq(Messages) /\ Len(queue') <= Capacity
  <2>1. CASE Take
    <3>1. queue \in Seq(Messages) /\ queue # <<>> /\ queue' = Tail(queue) /\ Len(queue) <= Capacity
      BY <2>1 DEF Take, QueueTyped, QueueTypeOK
    <3> QED BY <3>1, FirstAndRest, LenProperties, QueueAssumption
  <2>2. CASE ~Take
    BY <2>2 DEF Look, SaveAchievement, SaveInbox, Sync, FailHandle, QueueTyped, QueueTypeOK
  <2> QED BY <2>1, <2>2
<1>3. worker' \in Working \cup {Nothing}
  <2>1. CASE Take
    <3>1. queue \in Seq(Messages) /\ queue # <<>>
      BY <2>1 DEF Take, QueueTyped, QueueTypeOK
    <3>2. Head(queue) \in Messages /\ 0 \in 0..MaxEvents
      BY <3>1, FirstAndRest, QueueAssumption
    <3> QED BY <2>1, <3>2, NoWorkIsNothing DEF Take
  <2>2. CASE Look
    <3>1. worker # Nothing
      BY <2>2 DEF Look, WorkerAt
    <3>2. rank[worker.msg.post] \in 0..MaxEvents /\ 0 \in 0..MaxEvents
      BY <3>1, WorkerParts, QueueAssumption DEF QueueTyped, QueueTypeOK
    <3> QED BY <2>2, <3>1, <3>2, WorkerParts DEF Look, RankNow, Working
  <2>3. CASE SaveInbox
    <3>1. worker # Nothing
      BY <2>3 DEF SaveInbox, WorkerAt
    <3> QED BY <2>3, <3>1, WorkerParts DEF SaveInbox, Working
  <2> QED BY <2>1, <2>2, <2>3 DEF SaveAchievement, Sync, FailHandle
<1>4. shown' \in [Posts -> 0..MaxEvents] /\ behind' \subseteq Posts
  <2>1. CASE SaveAchievement \/ FailHandle
    BY <2>1, WorkerParts DEF SaveAchievement, FailHandle, WorkerAt, QueueTyped, QueueTypeOK
  <2> QED BY <2>1 DEF Take, Look, SaveInbox, Sync, history, QueueTyped, QueueTypeOK
<1>5. told' \in [Events -> [Readers -> Nat]] /\ starting' \subseteq Messages
  <2>1. CASE SaveInbox
    <3>1. worker # Nothing
      BY <2>1 DEF SaveInbox, WorkerAt
    <3> DEFINE e == worker.msg.event
               u == worker.msg.to
    <3>2. e \in Events /\ u \in Readers /\ worker.msg \in Messages
      BY <3>1, WorkerParts
    <3>3. told' = [told EXCEPT ![e][u] = @ + 1] /\ told \in [Events -> [Readers -> Nat]]
      BY <2>1 DEF SaveInbox, QueueTyped, QueueTypeOK
    <3>4. starting' \subseteq starting \cup {worker.msg}
      BY <2>1 DEF SaveInbox
    <3>5. starting' \subseteq Messages
      BY <3>2, <3>4 DEF QueueTyped, QueueTypeOK
    <3> HIDE DEF e, u
    <3>6. told[e][u] + 1 \in Nat
      BY <3>2, <3>3
    <3> QED BY <3>2, <3>3, <3>5, <3>6
  <2> QED BY <2>1 DEF Take, Look, SaveAchievement, Sync, FailHandle, QueueTyped, QueueTypeOK
<1>6. lost' \subseteq Events
  <2>1. CASE FailHandle
    BY <2>1, WorkerParts DEF FailHandle, WorkerAt, QueueTyped, QueueTypeOK
  <2> QED BY <2>1 DEF Take, Look, SaveAchievement, SaveInbox, Sync, history, QueueTyped, QueueTypeOK
<1> QED BY <1>1, <1>2, <1>3, <1>4, <1>5, <1>6, SameFollowers DEF QueueTyped, QueueTypeOK

\* Where a message may be.
LEMMA PendingIsTyped ==
  ASSUME QueueTyped
  PROVE  Pending \subseteq Messages
<1>1. /\ Elements(queue) \subseteq Messages
      /\ \A h \in Senders : Elements(outbox[h]) \subseteq Messages
  BY ElementsIn DEF QueueTyped, QueueTypeOK
<1>2. InHand \subseteq Messages
  BY WorkerParts DEF InHand
<1> QED BY <1>1, <1>2 DEF Pending

LEMMA StopTyped ==
  ASSUME QueueTyped, Crash \/ Panic
  PROVE  QueueTyped'
<1>1. Stop /\ crashes' \in 0..MaxCrashes /\ panicked' \in BOOLEAN
  <2>1. crashes \in 0..MaxCrashes /\ MaxCrashes \in Nat /\ panicked \in BOOLEAN
    BY QueueAssumption DEF QueueTyped, QueueTypeOK
  <2>2. CASE Crash
    BY <2>1, <2>2 DEF Crash
  <2>3. CASE Panic
    BY <2>1, <2>3 DEF Panic
  <2> QED BY <2>2, <2>3
<1>2. queue' \in Seq(Messages) /\ Len(queue') <= Capacity /\ outbox' \in [Senders -> Seq(Messages)]
  BY <1>1, EmptySeq, QueueAssumption DEF Stop
<1>3. behind' \subseteq Posts /\ lost' \subseteq Events
  <2>1. \A m \in Pending \cup starting \cup pushes : m.post \in Posts /\ m.event \in Events
    BY PendingIsTyped, MessageParts DEF QueueTyped, QueueTypeOK
  <2> QED BY <1>1, <2>1 DEF Stop, QueueTyped, QueueTypeOK
<1> QED
  BY <1>1, <1>2, <1>3, SameFollowers DEF Stop, following, QueueTyped, QueueTypeOK

LEMMA NextTyped == QueueTyped /\ [QueueNext]_queueVars => QueueTyped'
<1> SUFFICES ASSUME QueueTyped, [QueueNext]_queueVars PROVE QueueTyped'
  OBVIOUS
<1>1. ASSUME NEW e \in Events, RemoveComment(e) PROVE QueueTyped'
  BY <1>1, SameFollowers DEF RemoveComment, QueueTyped, QueueTypeOK, following, history
<1>2. CASE UNCHANGED queueVars
  BY <1>2, SameFollowers DEF queueVars, QueueTyped, QueueTypeOK, following, history
<1> QED
  BY <1>1, <1>2, CommitTyped, SendTyped, GoroutineTyped, FollowingTyped, WorkerTyped, StopTyped
  DEF QueueNext, Worker

\* NoticeQueue is well typed in every reachable state: the channel never holds more
\* than it has room for, and what is under way are messages.
THEOREM QueueTypeCorrect == QueueSpec => []QueueTypeOK
<1>1. QueueTyped => QueueTypeOK
  BY DEF QueueTyped
<1> QED BY QueueInitTyped, NextTyped, <1>1, PTL DEF QueueSpec

\* The follow_count of a post (Follow and FollowCancel add and subtract one) is the
\* number of users who follow it, whoever starts and ends to follow.
THEOREM FollowersCounted ==
  QueueSpec => [](\A p \in Posts : follows[p] = Cardinality(Following(p)))
<1>1. QueueTyped => \A p \in Posts : follows[p] = Cardinality(Following(p))
  BY DEF QueueTyped
<1> QED BY QueueInitTyped, NextTyped, <1>1, PTL DEF QueueSpec

-----------------------------------------------------------------------------
(* Where a message is *)

\* What the worker has in hand and has not told of yet.
Hand == IF worker # Nothing /\ worker.stage # "sync" THEN {worker.msg} ELSE {}
InOutboxes == UNION {Elements(outbox[h]) : h \in Senders}
Coming == InOutboxes \cup Elements(queue) \cup Hand \cup pushes

\* No message is in two places.
InOnePlace ==
  /\ Distinct(queue)
  /\ \A h \in Senders : Distinct(outbox[h])
  /\ \A g, h \in Senders : g # h => Elements(outbox[g]) \cap Elements(outbox[h]) = {}
  /\ InOutboxes \cap Elements(queue) = {}
  /\ InOutboxes \cap Hand = {}
  /\ InOutboxes \cap pushes = {}
  /\ Elements(queue) \cap Hand = {}
  /\ Elements(queue) \cap pushes = {}
  /\ Hand \cap pushes = {}

-----------------------------------------------------------------------------
\* Two messages that ask for the same row.
Same(m, n) == m.type = n.type /\ m.event = n.event /\ m.to = n.to /\ m.push = n.push

\* What a message can be, by what its event was.
MessageOK(m) ==
  /\ m.event <= events
  /\ m.push => m.type = "inbox" /\ kind[m.event] = "answer"
  /\ m.type = "inbox" => /\ kind[m.event] \in {"vote", "answer", "comment"}
                         /\ kind[m.event] # "answer" \/ m.push => m.to = Author
                         /\ kind[m.event] = "answer" /\ ~m.push => m.to \in Users

\* One message for every row to come: none asks for a row twice, the goroutine of
\* an event starts once, and its copies only exist when it has looked the followers up.
Tellings ==
  /\ \A m \in Coming \cup starting \cup InHand : MessageOK(m)
  /\ \A m, n \in Coming : Same(m, n) => m = n
  /\ \A m \in starting : m.push
  /\ \A m, n \in starting : m.event = n.event => m = n
  /\ \A m \in Coming \cup starting, n \in Coming :
       m.push /\ n.type = "inbox" /\ n.event = m.event => m = n /\ m \notin starting
  /\ \A m \in pushes : m.type = "inbox" /\ ~m.push /\ kind[m.event] = "answer"

\* The followers of e have still to be looked up.
Opened(e) == \E m \in Coming \cup starting : m.event = e /\ m.push

\* The rows of e that messages under way will give u, first or as a follower.
First(e, u) ==
  \E m \in Coming : m.type = "inbox" /\ m.event = e /\ m.to = u /\ (m.push \/ kind[e] # "answer")
Copied(e, u) ==
  \E m \in Coming : m.type = "inbox" /\ m.event = e /\ m.to = u /\ ~m.push /\ kind[e] = "answer"
Waits(e, u) == (IF First(e, u) THEN 1 ELSE 0) + (IF Copied(e, u) THEN 1 ELSE 0)

\* What an event has told a reader and what is still to come: exactly the author's
\* row before the followers are looked up, never more than is due to who followed at
\* some time, and no less than to who followed all the time unless a message was lost.
Counting ==
  /\ \A e \in Events : kind[e] = "none" <=> e > events
  /\ \A e \in Events : kind[e] # "answer" => ever[e] = {} /\ always[e] = {}
  /\ \A m \in Coming \cup starting :
       m.push => /\ always[m.event] \subseteq Following(m.post)
                 /\ Following(m.post) \subseteq ever[m.event]
  /\ \A e \in Events, u \in Readers :
       /\ Opened(e) => told[e][u] + Waits(e, u) = IF u = Author THEN 1 ELSE 0
       /\ told[e][u] + Waits(e, u) <= Due(e, u, ever[e])
       /\ e \notin lost =>
            told[e][u] + Waits(e, u) + (IF Opened(e) /\ u \in always[e] THEN 1 ELSE 0)
              >= Due(e, u, always[e])

\* An achievement of p is under way, or ahead of what the worker has in hand.
Announced(p) ==
  \E m \in InOutboxes \cup Elements(queue) \cup InHand : m.type = "achievement" /\ m.post = p
Ahead(p) ==
  \E m \in InOutboxes \cup Elements(queue) : m.type = "achievement" /\ m.post = p

\* A post that shows another rank than it has is announced; the rank the worker has
\* read is the rank of the post, or a message it has not taken yet will bring that one.
Showing ==
  /\ \A p \in Posts : p \in behind \/ shown[p] = rank[p] \/ Announced(p)
  /\ worker # Nothing /\ worker.stage = "sync" => worker.msg.type = "inbox"
  /\ worker # Nothing /\ worker.stage = "save" /\ worker.msg.type = "achievement" =>
       \/ worker.rank = rank[worker.msg.post]
       \/ Ahead(worker.msg.post)

-----------------------------------------------------------------------------
(* Steps of a message *)

\* What the worker has in hand, and that it comes from Pending.
LEMMA HandOfWorker ==
  ASSUME QueueTyped
  PROVE  /\ InOutboxes \subseteq Messages /\ Elements(queue) \subseteq Messages
         /\ Hand \subseteq InHand /\ InHand \subseteq Messages /\ pushes \subseteq Messages
         /\ Coming \subseteq Messages /\ starting \subseteq Messages
         /\ Pending = InOutboxes \cup Elements(queue) \cup InHand
<1>1. /\ Elements(queue) \subseteq Messages
      /\ \A h \in Senders : Elements(outbox[h]) \subseteq Messages
  BY ElementsIn DEF QueueTyped, QueueTypeOK
<1>2. InHand \subseteq Messages
  BY WorkerParts DEF InHand
<1>3. Hand \subseteq InHand
  BY DEF Hand, InHand
<1> QED BY <1>1, <1>2, <1>3 DEF Pending, Coming, InOutboxes, QueueTyped, QueueTypeOK

LEMMA CommitPlaces ==
  ASSUME QueueTyped, InOnePlace, Tellings, NEW h \in Senders, NEW k \in Kinds, NEW p \in Posts,
         Commit(h, k, p)
  PROVE  /\ InOnePlace'
         /\ InOutboxes' = InOutboxes \cup Elements(ToSend(events + 1, p, k))
         /\ UNCHANGED <<queue, worker, starting, pushes>>
         /\ Coming' = Coming \cup Elements(ToSend(events + 1, p, k))
<1> DEFINE s == ToSend(events + 1, p, k)
<1>1. events + 1 \in Events
  <2>1. events < MaxEvents
    BY DEF Commit
  <2>2. events \in 0..MaxEvents /\ MaxEvents \in Nat
    BY QueueAssumption DEF QueueTyped, QueueTypeOK
  <2> QED BY <2>1, <2>2 DEF Events
<1>2. \A m \in Elements(s) : m.event = events + 1
  <2>1. Elements(s) \subseteq {Achievement(events + 1, p), Inbox(events + 1, p, k)}
    BY <1>1, MessagesMade
  <2> HIDE DEF s
  <2> QED BY <2>1 DEF Achievement, Inbox
<1>3. \A m \in Coming : m \notin Elements(s)
  <2>1. ASSUME NEW m \in Coming PROVE m.event <= events /\ events \in Int
    BY DEF Tellings, MessageOK, QueueTyped, QueueTypeOK
  <2> QED BY <1>2, <2>1
<1>4. outbox[h] = <<>> /\ outbox' = [outbox EXCEPT ![h] = s]
  BY DEF Commit
<1>5. Elements(outbox[h]) = {} /\ outbox \in [Senders -> Seq(Messages)]
  BY <1>4, ElementsIn DEF QueueTyped, QueueTypeOK
<1>6. Distinct(s)
  BY <1>1, MessagesMade
<1> HIDE DEF s
<1>7. outbox'[h] = s /\ \A g \in Senders \ {h} : outbox'[g] = outbox[g]
  BY <1>4, <1>5
<1>8. InOutboxes' = InOutboxes \cup Elements(s)
  <2>1. ASSUME NEW g \in Senders PROVE Elements(outbox'[g]) \subseteq InOutboxes \cup Elements(s)
    BY <1>7 DEF InOutboxes
  <2>2. ASSUME NEW g \in Senders PROVE Elements(outbox[g]) \subseteq InOutboxes'
    <3>1. CASE g = h
      BY <3>1, <1>5
    <3>2. CASE g # h
      BY <3>2, <1>7 DEF InOutboxes
    <3> QED BY <3>1, <3>2
  <2>3. Elements(s) \subseteq InOutboxes'
    BY <1>7 DEF InOutboxes
  <2>4. /\ \A m \in InOutboxes : \E g \in Senders : m \in Elements(outbox[g])
        /\ \A m \in InOutboxes' : \E g \in Senders : m \in Elements(outbox'[g])
    BY DEF InOutboxes
  <2> QED BY <2>1, <2>2, <2>3, <2>4
<1>9. UNCHANGED <<queue, worker, starting, pushes, Hand>>
  BY DEF Commit, Hand
<1>10. Coming' = Coming \cup Elements(s)
  BY <1>8, <1>9 DEF Coming
<1>11. \A g \in Senders : Distinct(outbox'[g])
  BY <1>6, <1>7 DEF InOnePlace
<1>12. ASSUME NEW f \in Senders, NEW g \in Senders, f # g
       PROVE  Elements(outbox'[f]) \cap Elements(outbox'[g]) = {}
  <2>1. Elements(outbox[f]) \cap Elements(outbox[g]) = {}
    BY <1>12 DEF InOnePlace
  <2>2. Elements(outbox[f]) \subseteq Coming /\ Elements(outbox[g]) \subseteq Coming
    BY DEF Coming, InOutboxes
  <2> QED BY <1>3, <1>7, <1>12, <2>1, <2>2
<1>13. InOnePlace'
  BY <1>3, <1>8, <1>9, <1>11, <1>12 DEF InOnePlace, Coming
<1> QED BY <1>8, <1>9, <1>10, <1>13 DEF s

LEMMA SendPlaces ==
  ASSUME QueueTyped, InOnePlace, NEW h \in Senders, Send(h)
  PROVE  /\ InOnePlace' /\ Coming' = Coming
         /\ InOutboxes' \cup Elements(queue') = InOutboxes \cup Elements(queue)
<1> DEFINE m == Head(outbox[h])
<1>1. /\ outbox[h] # <<>> /\ outbox' = [outbox EXCEPT ![h] = Tail(outbox[h])]
      /\ queue' = Append(queue, m) /\ UNCHANGED <<worker, pushes>>
  BY DEF Send
<1>2. outbox \in [Senders -> Seq(Messages)] /\ queue \in Seq(Messages)
  BY DEF QueueTyped, QueueTypeOK
<1>3. /\ m \in Messages /\ Elements(outbox[h]) = {m} \cup Elements(Tail(outbox[h]))
      /\ Distinct(Tail(outbox[h])) /\ m \notin Elements(Tail(outbox[h]))
  BY <1>1, <1>2, FirstAndRest DEF InOnePlace
<1> HIDE DEF m
<1>4. outbox'[h] = Tail(outbox[h]) /\ \A g \in Senders \ {h} : outbox'[g] = outbox[g]
  BY <1>1, <1>2
<1>5. m \in InOutboxes /\ \A g \in Senders \ {h} : m \notin Elements(outbox[g])
  BY <1>3 DEF InOutboxes, InOnePlace
<1>6. InOutboxes' = InOutboxes \ {m}
  BY <1>3, <1>4, <1>5 DEF InOutboxes
<1>7. m \notin Elements(queue) /\ m \notin Hand /\ m \notin pushes
  BY <1>5 DEF InOnePlace
<1>8. Elements(queue') = Elements(queue) \cup {m} /\ Distinct(queue')
  BY <1>1, <1>2, <1>3, <1>7, OneMore DEF InOnePlace
<1>9. UNCHANGED <<Hand, pushes>>
  BY <1>1 DEF Hand
<1>10. /\ \A g \in Senders : Distinct(outbox'[g])
       /\ \A f, g \in Senders : f # g => Elements(outbox'[f]) \cap Elements(outbox'[g]) = {}
  BY <1>3, <1>4 DEF InOnePlace
<1>11. InOnePlace'
  BY <1>5, <1>6, <1>7, <1>8, <1>9, <1>10 DEF InOnePlace
<1>12. Coming' = Coming
  BY <1>5, <1>6, <1>8, <1>9 DEF Coming
<1> QED BY <1>5, <1>6, <1>8, <1>11, <1>12

LEMMA PushPlaces ==
  ASSUME QueueTyped, InOnePlace, NEW e \in Events, Push(e)
  PROVE  /\ InOnePlace' /\ Coming' = Coming /\ InOutboxes' = InOutboxes
         /\ Elements(queue) \subseteq Elements(queue') /\ pushes' \subseteq pushes
<1>1. PICK m \in pushes : queue' = Append(queue, m) /\ pushes' = pushes \ {m}
  BY DEF Push
<1>2. m \in Messages /\ queue \in Seq(Messages) /\ UNCHANGED <<outbox, worker>>
  BY DEF QueueTyped, QueueTypeOK, Push
<1>3. m \notin Elements(queue) /\ m \notin Hand /\ m \notin InOutboxes
  BY DEF InOnePlace
<1>4. Elements(queue') = Elements(queue) \cup {m} /\ Distinct(queue')
  BY <1>1, <1>2, <1>3, OneMore DEF InOnePlace
<1>5. UNCHANGED <<Hand, InOutboxes>>
  BY <1>2 DEF Hand, InOutboxes
<1>6. InOnePlace'
  BY <1>1, <1>2, <1>3, <1>4, <1>5 DEF InOnePlace
<1>7. Coming' = Coming
  BY <1>1, <1>4, <1>5 DEF Coming
<1> QED BY <1>1, <1>4, <1>5, <1>6, <1>7

LEMMA TakePlaces ==
  ASSUME QueueTyped, InOnePlace, Take
  PROVE  /\ InOnePlace' /\ Coming' = Coming /\ InOutboxes' = InOutboxes
         /\ InHand = {} /\ Hand' = InHand' /\ InHand' \subseteq Coming
         /\ InOutboxes' \cup Elements(queue') \cup InHand' = InOutboxes \cup Elements(queue)
         /\ worker' # Nothing /\ worker'.stage = "look"
<1> DEFINE m == Head(queue)
<1>1. /\ worker = Nothing /\ queue # <<>> /\ queue \in Seq(Messages) /\ UNCHANGED <<outbox, pushes>>
      /\ queue' = Tail(queue)
      /\ worker' = [msg |-> m, found |-> FALSE, rank |-> 0, stage |-> "look"]
  BY DEF Take, Free, QueueTyped, QueueTypeOK
<1>2. /\ m \in Messages /\ Elements(queue) = {m} \cup Elements(queue')
      /\ Distinct(queue') /\ m \notin Elements(queue')
  BY <1>1, FirstAndRest DEF InOnePlace
<1> HIDE DEF m
<1>3. 0 \in 0..MaxEvents
  BY QueueAssumption
<1>4. worker' # Nothing
  BY <1>1, <1>2, <1>3, NoWorkIsNothing
<1>5. Hand = {} /\ InHand = {} /\ Hand' = {m} /\ InHand' = {m}
  BY <1>1, <1>4 DEF Hand, InHand
<1>6. InOutboxes' = InOutboxes
  BY <1>1 DEF InOutboxes
<1>7. InOnePlace'
  BY <1>1, <1>2, <1>5, <1>6 DEF InOnePlace
<1>8. Coming' = Coming
  BY <1>1, <1>2, <1>5, <1>6 DEF Coming
<1> QED BY <1>1, <1>2, <1>4, <1>5, <1>6, <1>7, <1>8 DEF Coming

LEMMA LookPlaces ==
  ASSUME QueueTyped, InOnePlace, Look
  PROVE  /\ InOnePlace' /\ Coming' = Coming /\ UNCHANGED <<InOutboxes, queue, pushes, InHand>>
         /\ worker' # Nothing /\ worker'.msg = worker.msg /\ worker'.stage = "save"
<1>1. worker # Nothing /\ worker.stage = "look" /\ UNCHANGED <<queue, outbox, pushes>>
  BY DEF Look, WorkerAt
<1>2. worker'.msg = worker.msg /\ worker'.stage = "save"
  BY <1>1, WorkerParts DEF Look
<1>3. worker' # Nothing
  <2>1. rank[worker.msg.post] \in 0..MaxEvents /\ 0 \in 0..MaxEvents
    BY <1>1, WorkerParts, QueueAssumption DEF QueueTyped, QueueTypeOK
  <2>2. worker' \in Working
    BY <2>1, <1>1, WorkerParts DEF Look, RankNow, Working
  <2> QED BY <2>2, QueueAssumption
<1>4. UNCHANGED <<Hand, InHand, InOutboxes>>
  BY <1>1, <1>2, <1>3 DEF Hand, InHand, InOutboxes
<1>5. InOnePlace' /\ Coming' = Coming
  BY <1>1, <1>4 DEF InOnePlace, Coming
<1> QED BY <1>1, <1>2, <1>3, <1>4, <1>5

\* The worker is done with its message, which is nowhere else.
LEMMA DonePlaces ==
  ASSUME QueueTyped, InOnePlace, SaveAchievement \/ SaveInbox \/ FailHandle
  PROVE  /\ InOnePlace' /\ worker # Nothing /\ worker.stage = "save"
         /\ worker.msg \in Coming /\ Coming' = Coming \ {worker.msg}
         /\ UNCHANGED <<InOutboxes, queue, pushes>> /\ InHand' \subseteq InHand
         /\ worker.msg \notin InOutboxes \cup Elements(queue) \cup pushes
<1>1. worker # Nothing /\ worker.stage = "save" /\ UNCHANGED <<queue, outbox, pushes>>
  BY DEF SaveAchievement, SaveInbox, FailHandle, WorkerAt
<1>2. Hand = {worker.msg} /\ InHand = {worker.msg}
  BY <1>1 DEF Hand, InHand
<1>3. Hand' = {} /\ InHand' \subseteq InHand
  <2>1. CASE SaveInbox
    <3>1. worker'.msg = worker.msg /\ worker'.stage = "sync"
      BY <2>1, <1>1, WorkerParts DEF SaveInbox
    <3> QED BY <3>1, <1>1 DEF Hand, InHand
  <2>2. CASE SaveAchievement \/ FailHandle
    BY <2>2 DEF SaveAchievement, FailHandle, Hand, InHand
  <2> QED BY <2>1, <2>2
<1>4. InOutboxes' = InOutboxes
  BY <1>1 DEF InOutboxes
<1>5. worker.msg \notin InOutboxes \cup Elements(queue) \cup pushes
  BY <1>2 DEF InOnePlace
<1>6. InOnePlace'
  BY <1>1, <1>3, <1>4 DEF InOnePlace
<1>7. Coming' = Coming \ {worker.msg} /\ worker.msg \in Coming
  BY <1>1, <1>2, <1>3, <1>4, <1>5 DEF Coming
<1> QED BY <1>1, <1>3, <1>4, <1>5, <1>6, <1>7

LEMMA SyncPlaces ==
  ASSUME QueueTyped, InOnePlace, Sync
  PROVE  InOnePlace' /\ Coming' = Coming /\ UNCHANGED <<InOutboxes, queue, pushes>> /\ InHand' = {}
<1>1. worker.stage = "sync" /\ worker' = Nothing /\ UNCHANGED <<queue, outbox, pushes>>
  BY DEF Sync, WorkerAt
<1>2. Hand = {} /\ Hand' = {} /\ InHand' = {} /\ InOutboxes' = InOutboxes
  BY <1>1 DEF Hand, InHand, InOutboxes
<1> QED BY <1>1, <1>2 DEF InOnePlace, Coming

LEMMA ListPlaces ==
  ASSUME QueueTyped, InOnePlace, Tellings, NEW m \in starting,
         pushes' = pushes \cup {CopyFor(m, u) : u \in Following(m.post)},
         UNCHANGED <<queue, outbox, worker>>
  PROVE  /\ InOnePlace' /\ UNCHANGED <<InOutboxes, queue, InHand>>
         /\ Coming' = Coming \cup {CopyFor(m, u) : u \in Following(m.post)}
<1> DEFINE new == {CopyFor(m, u) : u \in Following(m.post)}
<1>1. UNCHANGED <<InOutboxes, Hand, InHand>>
  BY DEF InOutboxes, Hand, InHand
<1>2. m.push /\ m.type = "inbox" /\ m \in Messages
  BY DEF Tellings, MessageOK, QueueTyped, QueueTypeOK
<1>3. \A n \in new : n.type = "inbox" /\ n.event = m.event
  BY <1>2, CopyIsMessage DEF Following
<1> HIDE DEF new
<1>4. \A n \in Coming : n \notin new
  BY <1>2, <1>3 DEF Tellings
<1>5. InOnePlace'
  BY <1>1, <1>4 DEF InOnePlace, Coming, new
<1>6. Coming' = Coming \cup new
  BY <1>1 DEF Coming, new
<1> QED BY <1>1, <1>5, <1>6 DEF new

LEMMA StopPlaces ==
  ASSUME Stop
  PROVE  /\ InOnePlace' /\ InOutboxes' = {} /\ Elements(queue)' = {} /\ InHand' = {}
         /\ Coming' = {} /\ starting' = {} /\ pushes' = {}
<1>1. queue' = <<>> /\ worker' = Nothing /\ starting' = {} /\ pushes' = {}
  BY DEF Stop
<1>2. \A h \in Senders : outbox'[h] = <<>>
  BY DEF Stop
<1>3. Elements(<<>>) = {} /\ Distinct(<<>>)
  BY DEF Elements, Distinct
<1>4. InOutboxes' = {} /\ Elements(queue)' = {} /\ Hand' = {} /\ InHand' = {}
  BY <1>1, <1>2, <1>3 DEF InOutboxes, Hand, InHand
<1> QED BY <1>1, <1>2, <1>3, <1>4 DEF InOnePlace, Coming

-----------------------------------------------------------------------------
(* What the messages under way ask for *)

LEMMA FewerTellings ==
  ASSUME Tellings, Coming' \subseteq Coming, starting' \subseteq starting,
         InHand' \subseteq Coming \cup InHand, pushes' \subseteq pushes, UNCHANGED <<kind, events>>
  PROVE  Tellings'
<1>1. \A m : MessageOK(m)' <=> MessageOK(m)
  BY DEF MessageOK
<1>2. \A m, n : Same(m, n)' <=> Same(m, n)
  BY DEF Same
<1> QED BY <1>1, <1>2 DEF Tellings

\* Numbers of rows still to come.
LEMMA WaitsValue ==
  ASSUME NEW e, NEW u
  PROVE  /\ Waits(e, u) \in 0..2 /\ Waits(e, u)' \in 0..2
         /\ (First(e, u)' => First(e, u)) /\ (Copied(e, u)' => Copied(e, u))
              => Waits(e, u)' <= Waits(e, u)
         /\ (First(e, u)' <=> First(e, u)) /\ (Copied(e, u)' <=> Copied(e, u))
              => Waits(e, u)' = Waits(e, u)
         /\ ~First(e, u) /\ ~Copied(e, u) => Waits(e, u) = 0
BY DEF Waits

LEMMA DueValue ==
  ASSUME NEW e, NEW u, NEW among
  PROVE  Due(e, u, among) \in 0..2
BY DEF Due

\* Messages move, are lost with the event in lost, or say nothing of a row.
LEMMA LossCounting ==
  ASSUME QueueTyped, Tellings, Counting, Coming' \subseteq Coming, starting' \subseteq starting,
         UNCHANGED <<told, kind, events, ever, always, follow>>, lost \subseteq lost',
         \A m \in Coming \ Coming' : m.type = "achievement" \/ m.event \in lost',
         \A m \in starting \ starting' : m.event \in lost'
  PROVE  Counting'
<1>1. \A p \in Posts : Following(p)' = Following(p)
  BY SameFollowers
<1>2. \A m \in Coming \cup starting : m \in Messages /\ m.post \in Posts /\ MessageOK(m)
  BY HandOfWorker, MessageParts DEF Tellings
<1>3. ASSUME NEW m \in Coming' \cup starting', m.push
      PROVE  /\ always'[m.event] \subseteq Following(m.post)'
             /\ Following(m.post)' \subseteq ever'[m.event]
  BY <1>1, <1>2, <1>3 DEF Counting
<1>4. ASSUME NEW e \in Events, NEW u \in Readers
      PROVE  /\ Opened(e)' => told'[e][u] + Waits(e, u)' = IF u = Author THEN 1 ELSE 0
             /\ told'[e][u] + Waits(e, u)' <= Due(e, u, ever[e])'
             /\ e \notin lost' =>
                  told'[e][u] + Waits(e, u)' + (IF Opened(e)' /\ u \in always'[e] THEN 1 ELSE 0)
                    >= Due(e, u, always[e])'
  <2>1. told[e][u] \in Nat /\ told' = told
    BY DEF QueueTyped, QueueTypeOK
  <2>2. (First(e, u)' => First(e, u)) /\ (Copied(e, u)' => Copied(e, u))
    BY DEF First, Copied
  <2>3. Opened(e)' => Opened(e)
    BY DEF Opened
  <2>4. Due(e, u, ever[e])' = Due(e, u, ever[e]) /\ Due(e, u, always[e])' = Due(e, u, always[e])
    BY DEF Due
  <2>5. ASSUME e \notin lost'
        PROVE  /\ (First(e, u)' <=> First(e, u)) /\ (Copied(e, u)' <=> Copied(e, u))
               /\ (Opened(e)' <=> Opened(e)) /\ e \notin lost
    <3>1. \A m \in Coming : m.type = "inbox" /\ m.event = e => m \in Coming'
      BY <2>5
    <3>2. \A m \in Coming : m.push => m.type = "inbox"
      BY <1>2 DEF MessageOK
    <3>3. \A m \in starting : m.event = e => m \in starting'
      BY <2>5
    <3> QED BY <2>2, <2>3, <2>5, <3>1, <3>2, <3>3 DEF First, Copied, Opened
  <2>6. ASSUME Opened(e)'
        PROVE  (First(e, u)' <=> First(e, u)) /\ (Copied(e, u)' <=> Copied(e, u))
    <3>1. PICK m \in Coming' \cup starting' : m.event = e /\ m.push
      BY <2>6 DEF Opened
    <3>2. \A n \in Coming : n.type = "inbox" /\ n.event = e => n \in Coming'
      BY <3>1 DEF Tellings
    <3> QED BY <2>2, <3>2 DEF First, Copied
  <2>7. /\ Opened(e) => told[e][u] + Waits(e, u) = IF u = Author THEN 1 ELSE 0
        /\ told[e][u] + Waits(e, u) <= Due(e, u, ever[e])
        /\ e \notin lost =>
             told[e][u] + Waits(e, u) + (IF Opened(e) /\ u \in always[e] THEN 1 ELSE 0)
               >= Due(e, u, always[e])
    BY DEF Counting
  <2>8. /\ Waits(e, u) \in 0..2 /\ Waits(e, u)' \in 0..2 /\ Waits(e, u)' <= Waits(e, u)
        /\ Opened(e)' => Waits(e, u)' = Waits(e, u)
        /\ e \notin lost' => Waits(e, u)' = Waits(e, u)
    BY <2>2, <2>5, <2>6, WaitsValue
  <2>9. told'[e][u] + Waits(e, u)' <= Due(e, u, ever[e])'
    BY <2>1, <2>4, <2>7, <2>8, DueValue
  <2>10. Opened(e)' => told'[e][u] + Waits(e, u)' = IF u = Author THEN 1 ELSE 0
    BY <2>1, <2>3, <2>7, <2>8
  <2>11. e \notin lost' =>
           told'[e][u] + Waits(e, u)' + (IF Opened(e)' /\ u \in always'[e] THEN 1 ELSE 0)
             >= Due(e, u, always[e])'
    BY <2>1, <2>4, <2>5, <2>7, <2>8
  <2> QED BY <2>9, <2>10, <2>11
<1>5. /\ \A e \in Events : kind'[e] = "none" <=> e > events'
      /\ \A e \in Events : kind'[e] # "answer" => ever'[e] = {} /\ always'[e] = {}
  BY DEF Counting
<1> QED BY <1>3, <1>4, <1>5 DEF Counting

\* A request makes an event of which nothing was told before.
LEMMA CommitTellings ==
  ASSUME QueueTyped, InOnePlace, Tellings, Counting,
         NEW h \in Senders, NEW k \in Kinds, NEW p \in Posts,
         Commit(h, k, p)
  PROVE  Tellings' /\ Counting'
<1>1. PICK e \in Events : e = events + 1 /\ events \in Int /\ events' = e
  <2>1. events < MaxEvents /\ events' = events + 1
    BY DEF Commit
  <2>2. events \in 0..MaxEvents /\ MaxEvents \in Nat
    BY QueueAssumption DEF QueueTyped, QueueTypeOK
  <2> QED BY <2>1, <2>2 DEF Events
<1> DEFINE new == Elements(ToSend(e, p, k))
<1>2. /\ Coming' = Coming \cup new /\ starting' = starting /\ pushes' = pushes /\ InHand' = InHand
  BY <1>1, CommitPlaces DEF InHand
<1>3. /\ kind' = [kind EXCEPT ![e] = k] /\ told' = told /\ lost' = lost
      /\ \A q : Following(q)' = Following(q)
      /\ always' = [always EXCEPT ![e] = IF Pushed(k) THEN Following(p) ELSE {}]
      /\ ever' = [ever EXCEPT ![e] = IF Pushed(k) THEN Following(p) ELSE {}]
  BY <1>1 DEF Commit, Following, following
<1>4. /\ kind'[e] = k /\ \A f \in Events \ {e} : kind'[f] = kind[f]
      /\ always'[e] = ever'[e] /\ ever'[e] = (IF Pushed(k) THEN Following(p) ELSE {})
      /\ \A f \in Events \ {e} : always'[f] = always[f] /\ ever'[f] = ever[f]
  BY <1>1, <1>3 DEF QueueTyped, QueueTypeOK
<1>5. \A m \in new :
        /\ m.event = e /\ m.post = p /\ m.to = Author
        /\ \/ m.type = "achievement" /\ ~m.push /\ m = Achievement(e, p)
           \/ m.type = "inbox" /\ k # "cancelVote" /\ (m.push <=> k = "answer")
              /\ m = Inbox(e, p, k)
  <2>1. new = (IF k \in {"vote", "cancelVote"} THEN {Achievement(e, p)} ELSE {})
                \cup (IF k # "cancelVote" THEN {Inbox(e, p, k)} ELSE {})
    BY <1>1, MessagesMade
  <2> HIDE DEF new
  <2>2. /\ Inbox(e, p, k).type = "inbox" /\ Inbox(e, p, k).event = e
        /\ Inbox(e, p, k).post = p /\ Inbox(e, p, k).to = Author
        /\ Inbox(e, p, k).push = Pushed(k)
    BY DEF Inbox
  <2>3. /\ Achievement(e, p).type = "achievement" /\ Achievement(e, p).event = e
        /\ Achievement(e, p).post = p /\ Achievement(e, p).to = Author /\ ~Achievement(e, p).push
    BY DEF Achievement
  <2>4. Pushed(k) <=> k = "answer"
    BY DEF Pushed
  <2>5. ASSUME NEW m \in new
        PROVE  m = Achievement(e, p) \/ (k # "cancelVote" /\ m = Inbox(e, p, k))
    BY <2>1
  <2> QED BY <2>2, <2>3, <2>4, <2>5
<1>6. k # "cancelVote" => /\ Inbox(e, p, k) \in new /\ Inbox(e, p, k).type = "inbox"
                          /\ Inbox(e, p, k).event = e /\ Inbox(e, p, k).to = Author
                          /\ (Inbox(e, p, k).push <=> k = "answer")
  <2>1. k # "cancelVote" => Inbox(e, p, k) \in new
    BY <1>1, MessagesMade
  <2> HIDE DEF new
  <2>2. /\ Inbox(e, p, k).type = "inbox" /\ Inbox(e, p, k).event = e
        /\ Inbox(e, p, k).to = Author /\ Inbox(e, p, k).push = Pushed(k)
    BY DEF Inbox
  <2>3. Pushed(k) <=> k = "answer"
    BY DEF Pushed
  <2> QED BY <2>1, <2>2, <2>3
<1> HIDE DEF new
<1>7. \A m \in Coming \cup starting \cup InHand :
        m \in Messages /\ m.event \in Events /\ m.event <= events /\ m.event # e /\ MessageOK(m)
  <2>1. ASSUME NEW m \in Coming \cup starting \cup InHand
        PROVE  m \in Messages /\ m.event \in Events /\ m.event <= events /\ MessageOK(m)
    BY HandOfWorker, MessageParts DEF Tellings, MessageOK
  <2>2. \A f \in Events : f <= events => f # e
    BY <1>1 DEF Events
  <2> QED BY <2>1, <2>2
<1>8. \A m \in Coming \cup starting \cup InHand : MessageOK(m)'
  <2>1. ASSUME NEW m \in Coming \cup starting \cup InHand
        PROVE  MessageOK(m)'
    <3>1. kind'[m.event] = kind[m.event] /\ MessageOK(m)
      BY <1>4, <1>7
    <3>2. m.event \in Int /\ m.event <= events'
      BY <1>1, <1>7 DEF Events
    <3> QED BY <3>1, <3>2 DEF MessageOK
  <2> QED BY <2>1
<1>9. \A m \in new : MessageOK(m)'
  <2>1. ASSUME NEW m \in new PROVE MessageOK(m)'
    <3>1. m.event <= events' /\ kind'[m.event] = k
      BY <1>1, <1>4, <1>5
    <3>2. m.push => m.type = "inbox" /\ k = "answer"
      BY <1>5
    <3>3. m.type = "inbox" => k \in {"vote", "answer", "comment"} /\ (k = "answer" => m.push)
      BY <1>5 DEF Kinds
    <3>4. m.to = Author
      BY <1>5
    <3> QED BY <3>1, <3>2, <3>3, <3>4 DEF MessageOK
  <2> QED BY <2>1
<1>10. Tellings'
  <2>1. \A m, n \in Coming' : Same(m, n)' => m = n
    <3>1. ASSUME NEW m \in Coming', NEW n \in Coming', Same(m, n) PROVE m = n
      <4>1. CASE m \in Coming /\ n \in Coming
        BY <3>1, <4>1 DEF Tellings
      <4>2. CASE m \in new /\ n \in new
        BY <3>1, <4>2, <1>5 DEF Same
      <4>3. CASE (m \in Coming /\ n \in new) \/ (n \in Coming /\ m \in new)
        BY <3>1, <4>3, <1>5, <1>7 DEF Same
      <4> QED BY <1>2, <4>1, <4>2, <4>3
    <3> QED BY <3>1 DEF Same
  <2>2. ASSUME NEW m \in Coming' \cup starting', NEW n \in Coming',
               m.push, n.type = "inbox", n.event = m.event
        PROVE  m = n /\ m \notin starting'
    <3>1. CASE m \in Coming \cup starting /\ n \in Coming
      BY <1>2, <2>2, <3>1 DEF Tellings
    <3>2. CASE m \in new /\ n \in new
      BY <1>2, <1>5, <1>7, <2>2, <3>2
    <3>3. CASE (m \in Coming \cup starting /\ n \in new) \/ (m \in new /\ n \in Coming)
      BY <1>5, <1>7, <2>2, <3>3
    <3> QED BY <1>2, <3>1, <3>2, <3>3
  <2>3. \A m \in pushes : m.type = "inbox" /\ ~m.push /\ kind'[m.event] = "answer"
    <3>1. pushes \subseteq Coming
      BY DEF Coming
    <3> QED BY <1>4, <1>7, <3>1 DEF Tellings
  <2>4. \A m \in Coming' \cup starting' \cup InHand' : MessageOK(m)'
    BY <1>2, <1>8, <1>9
  <2>5. (\A m \in starting' : m.push) /\ \A m, n \in starting' : m.event = n.event => m = n
    BY <1>2 DEF Tellings
  <2> QED BY <1>2, <2>1, <2>2, <2>3, <2>4, <2>5 DEF Tellings
<1>11. \A f \in Events, u \in Readers : f # e =>
         /\ (First(f, u)' <=> First(f, u)) /\ (Copied(f, u)' <=> Copied(f, u))
         /\ (Opened(f)' <=> Opened(f))
  BY <1>2, <1>4, <1>5 DEF First, Copied, Opened
<1>12. ASSUME NEW f \in Events, NEW u \in Readers
       PROVE  /\ Opened(f)' => told'[f][u] + Waits(f, u)' = IF u = Author THEN 1 ELSE 0
              /\ told'[f][u] + Waits(f, u)' <= Due(f, u, ever[f])'
              /\ f \notin lost' =>
                   told'[f][u] + Waits(f, u)' + (IF Opened(f)' /\ u \in always'[f] THEN 1 ELSE 0)
                     >= Due(f, u, always[f])'
  <2>1. told[f][u] \in Nat
    BY DEF QueueTyped, QueueTypeOK
  <2>2. /\ Opened(f) => told[f][u] + Waits(f, u) = IF u = Author THEN 1 ELSE 0
        /\ told[f][u] + Waits(f, u) <= Due(f, u, ever[f])
        /\ f \notin lost =>
             told[f][u] + Waits(f, u) + (IF Opened(f) /\ u \in always[f] THEN 1 ELSE 0)
               >= Due(f, u, always[f])
    BY DEF Counting
  <2>3. CASE f # e
    <3>1. Waits(f, u)' = Waits(f, u) /\ (Opened(f)' <=> Opened(f))
      BY <1>11, <2>3, WaitsValue
    <3>2. Due(f, u, ever[f])' = Due(f, u, ever[f]) /\ Due(f, u, always[f])' = Due(f, u, always[f])
      BY <1>4, <2>3 DEF Due
    <3> QED BY <1>3, <1>4, <2>2, <2>3, <3>1, <3>2
  <2>4. CASE f = e
    <3>1. kind[e] = "none" /\ ever[e] = {}
      BY <1>1 DEF Counting
    <3>2. told[e][u] = 0
      <4>1. Due(e, u, ever[e]) = 0
        BY <3>1 DEF Due
      <4> QED BY <2>1, <2>2, <2>4, <4>1, WaitsValue
    <3>3. First(e, u)' <=> u = Author /\ k # "cancelVote"
      <4>1. ASSUME First(e, u)' PROVE u = Author /\ k # "cancelVote"
        <5>1. PICK m \in Coming' : m.type = "inbox" /\ m.event = e /\ m.to = u
          BY <4>1 DEF First
        <5> QED BY <1>2, <1>5, <1>7, <5>1
      <4>2. ASSUME u = Author, k # "cancelVote" PROVE First(e, u)'
        <5>1. Inbox(e, p, k) \in Coming'
          BY <1>2, <1>6, <4>2
        <5> QED BY <1>4, <1>6, <4>2, <5>1 DEF First
      <4> QED BY <4>1, <4>2
    <3>4. ~Copied(e, u)'
      <4>1. ASSUME NEW m \in Coming', m.type = "inbox", m.event = e, ~m.push
            PROVE  kind'[e] # "answer"
        BY <1>2, <1>4, <1>5, <1>7, <4>1
      <4> QED BY <4>1 DEF Copied
    <3>5. Opened(e)' <=> k = "answer"
      <4>1. ASSUME Opened(e)' PROVE k = "answer"
        <5>1. PICK m \in Coming' \cup starting' : m.event = e /\ m.push
          BY <4>1 DEF Opened
        <5> QED BY <1>2, <1>5, <1>7, <5>1
      <4>2. ASSUME k = "answer" PROVE Opened(e)'
        <5>1. Inbox(e, p, k) \in Coming'
          BY <1>2, <1>6, <4>2
        <5> QED BY <1>6, <4>2, <5>1 DEF Opened
      <4> QED BY <4>1, <4>2
    <3>6. Waits(e, u)' = IF u = Author /\ k # "cancelVote" THEN 1 ELSE 0
      BY <3>3, <3>4 DEF Waits
    <3>7. /\ Due(e, u, ever[e])' = (IF u = Author /\ k # "cancelVote" THEN 1 ELSE 0)
                                     + (IF u \in ever'[e] THEN 1 ELSE 0)
          /\ Due(e, u, always[e])' = (IF u = Author /\ k # "cancelVote" THEN 1 ELSE 0)
                                       + (IF u \in always'[e] THEN 1 ELSE 0)
      BY <1>4 DEF Due, Kinds
    <3>8. u \in always'[e] => k = "answer"
      BY <1>4 DEF Pushed
    <3> QED BY <1>3, <2>4, <3>2, <3>5, <3>6, <3>7, <3>8
  <2> QED BY <2>3, <2>4
<1>13. \A f \in Events : kind'[f] = "none" <=> f > events'
  <2>1. \A f \in Events : f # e => (f > events <=> f > events')
    BY <1>1 DEF Events
  <2>2. k # "none" /\ ~(e > events')
    BY <1>1 DEF Kinds
  <2> QED BY <1>4, <2>1, <2>2 DEF Counting
<1>14. \A f \in Events : kind'[f] # "answer" => ever'[f] = {} /\ always'[f] = {}
  BY <1>4 DEF Counting, Pushed
<1>15. ASSUME NEW m \in Coming' \cup starting', m.push
       PROVE  /\ always'[m.event] \subseteq Following(m.post)'
              /\ Following(m.post)' \subseteq ever'[m.event]
  <2>1. CASE m \in Coming \cup starting
    BY <1>3, <1>4, <1>7, <1>15, <2>1 DEF Counting
  <2>2. CASE m \in new
    BY <1>3, <1>4, <1>5, <1>15, <2>2 DEF Pushed
  <2> QED BY <1>2, <2>1, <2>2
<1> QED BY <1>10, <1>12, <1>13, <1>14, <1>15 DEF Counting

\* A row is written: it was to come once and has come.
LEMMA SaveInboxTellings ==
  ASSUME QueueTyped, InOnePlace, Tellings, Counting, SaveInbox
  PROVE  Tellings' /\ Counting'
<1> DEFINE m == worker.msg
<1>1. /\ m \in Coming /\ Coming' = Coming \ {m} /\ pushes' = pushes /\ InHand' \subseteq InHand
      /\ worker # Nothing
  BY DonePlaces
<1>2. PICK msg : msg = m
  OBVIOUS
<1> HIDE DEF m
<1>3. /\ msg.type = "inbox" /\ starting' = (IF msg.push THEN starting \cup {msg} ELSE starting)
      /\ told' = [told EXCEPT ![msg.event][msg.to] = @ + 1]
      /\ UNCHANGED <<kind, events, ever, always, follow, lost>>
  BY <1>2 DEF SaveInbox, m, following, history
<1>4. /\ msg \in Messages /\ msg.event \in Events /\ msg.to \in Readers /\ msg.push \in BOOLEAN
      /\ MessageOK(msg)
  BY <1>1, <1>2, HandOfWorker, MessageParts DEF Tellings
<1>5. msg \in Coming /\ Coming' = Coming \ {msg}
  BY <1>1, <1>2
<1>6. \A n \in starting : n.event # msg.event
  BY <1>3, <1>5 DEF Tellings
<1>7. msg.push => \A n \in Coming' : n.type = "inbox" => n.event # msg.event
  BY <1>5 DEF Tellings
<1>8. Tellings'
  <2>1. \A x : MessageOK(x)' <=> MessageOK(x)
    BY <1>3 DEF MessageOK
  <2>2. \A x, y : Same(x, y)' <=> Same(x, y)
    BY DEF Same
  <2>3. \A x \in Coming' \cup starting' \cup InHand' : MessageOK(x)'
    BY <1>1, <1>3, <1>4, <1>5, <2>1 DEF Tellings
  <2>4. \A x, y \in starting' : x.event = y.event => x = y
    BY <1>3, <1>6 DEF Tellings
  <2>5. \A x \in starting' : x.push
    BY <1>3 DEF Tellings
  <2>6. ASSUME NEW x \in Coming' \cup starting', NEW y \in Coming', x.push, y.type = "inbox",
               y.event = x.event
        PROVE  x = y /\ x \notin starting'
    <3>1. CASE x = msg
      BY <1>7, <2>6, <3>1
    <3>2. CASE x # msg
      BY <1>3, <1>5, <2>6, <3>2 DEF Tellings
    <3> QED BY <3>1, <3>2
  <2> QED BY <1>1, <1>3, <1>5, <2>2, <2>3, <2>4, <2>5, <2>6 DEF Tellings
<1>9. \A f : Opened(f)' <=> Opened(f)
  <2>1. \A x : x.push => (x \in Coming' \cup starting' <=> x \in Coming \cup starting)
    BY <1>3, <1>5
  <2> QED BY <2>1 DEF Opened
<1>10. ASSUME NEW f \in Events, NEW u \in Readers
       PROVE  told'[f][u] + Waits(f, u)' = told[f][u] + Waits(f, u)
  <2>1. told \in [Events -> [Readers -> Nat]]
    BY DEF QueueTyped, QueueTypeOK
  <2>2. CASE f # msg.event \/ u # msg.to
    <3>1. told'[f][u] = told[f][u]
      BY <1>3, <1>4, <2>1, <2>2
    <3>2. (First(f, u)' <=> First(f, u)) /\ (Copied(f, u)' <=> Copied(f, u))
      BY <1>3, <1>5, <2>2 DEF First, Copied
    <3> QED BY <3>1, <3>2, WaitsValue
  <2>3. CASE f = msg.event /\ u = msg.to
    <3>1. told'[f][u] = told[f][u] + 1 /\ told[f][u] \in Nat
      BY <1>3, <1>4, <2>1, <2>3
    <3>2. ASSUME NEW n \in Coming, n.type = "inbox", n.event = f, n.to = u, n.push <=> msg.push
          PROVE  n = msg
      <4>1. n.push \in BOOLEAN
        BY HandOfWorker, MessageParts
      <4>2. Same(n, msg)
        BY <1>3, <1>4, <2>3, <3>2, <4>1 DEF Same
      <4> QED BY <1>5, <4>2 DEF Tellings
    <3>3. \A n \in Coming : MessageOK(n)
      BY DEF Tellings
    <3>4. CASE msg.push \/ kind[f] # "answer"
      <4>1. First(f, u)
        BY <1>3, <1>5, <2>3, <3>4 DEF First
      <4>2. ~First(f, u)'
        <5>1. ASSUME NEW n \in Coming', n.type = "inbox", n.event = f, n.to = u,
                     n.push \/ kind[f] # "answer"
              PROVE  FALSE
          <6>1. n \in Coming /\ n # msg
            BY <1>5, <5>1
          <6>2. n.push => kind[f] = "answer"
            BY <3>3, <5>1, <6>1 DEF MessageOK
          <6>3. msg.push => kind[f] = "answer"
            BY <1>4, <2>3 DEF MessageOK
          <6>4. n.push <=> msg.push
            BY <3>4, <5>1, <6>2, <6>3
          <6> QED BY <3>2, <5>1, <6>1, <6>4
        <5> QED BY <1>3, <5>1 DEF First
      <4>3. Copied(f, u)' <=> Copied(f, u)
        <5>1. \A n : ~n.push /\ kind[f] = "answer" => (n \in Coming' <=> n \in Coming)
          BY <1>5, <3>4
        <5> QED BY <1>3, <5>1 DEF Copied
      <4> QED BY <3>1, <4>1, <4>2, <4>3 DEF Waits
    <3>5. CASE ~msg.push /\ kind[f] = "answer"
      <4>1. Copied(f, u)
        BY <1>3, <1>5, <2>3, <3>5 DEF Copied
      <4>2. ~Copied(f, u)'
        <5>1. ASSUME NEW n \in Coming', n.type = "inbox", n.event = f, n.to = u, ~n.push
              PROVE  FALSE
          BY <1>5, <3>2, <3>5, <5>1
        <5> QED BY <5>1 DEF Copied
      <4>3. First(f, u)' <=> First(f, u)
        <5>1. \A n : n.push \/ kind[f] # "answer" => (n \in Coming' <=> n \in Coming)
          BY <1>5, <3>5
        <5> QED BY <1>3, <5>1 DEF First
      <4> QED BY <3>1, <4>1, <4>2, <4>3 DEF Waits
    <3> QED BY <3>4, <3>5
  <2> QED BY <2>2, <2>3
<1>11. \A p : Following(p)' = Following(p)
  BY <1>3 DEF Following
<1>12. \A x \in Coming' \cup starting' : x \in Coming \cup starting
  BY <1>3, <1>5
<1>13. \A f, u, among : Due(f, u, among)' = Due(f, u, among')
  BY <1>3 DEF Due
<1>14. \A f \in Events, u \in Readers :
         /\ Due(f, u, ever[f])' = Due(f, u, ever[f])
         /\ Due(f, u, always[f])' = Due(f, u, always[f])
  BY <1>3 DEF Due
<1> QED BY <1>3, <1>8, <1>9, <1>10, <1>11, <1>12, <1>14 DEF Counting

\* Those who follow are sent copies; nothing of the event was to come any more.
LEMMA ListTellings ==
  ASSUME QueueTyped, InOnePlace, Tellings, Counting, NEW e \in Events, ListFollowers(e)
  PROVE  Tellings' /\ Counting'
<1>1. PICK m \in starting : /\ m.event = e /\ starting' = starting \ {m}
                            /\ pushes' = pushes \cup {CopyFor(m, u) : u \in Following(m.post)}
  BY DEF ListFollowers
<1>2. UNCHANGED <<told, kind, events, ever, always, follow, lost, queue, outbox, worker>>
  BY DEF ListFollowers, following, history
<1>3. PICK followers : followers = Following(m.post) /\ followers \subseteq Users
  BY DEF Following
<1> DEFINE new == {CopyFor(m, u) : u \in followers}
<1>4. Coming' = Coming \cup new /\ pushes' = pushes \cup new /\ InHand' = InHand
  BY <1>1, <1>2, <1>3, ListPlaces
<1>5. /\ m \in Messages /\ m.push /\ m.type = "inbox" /\ m.post \in Posts /\ MessageOK(m)
      /\ kind[e] = "answer"
  BY <1>1, HandOfWorker, MessageParts DEF Tellings, MessageOK
<1>6. \A n \in new : n.type = "inbox" /\ n.event = e /\ ~n.push /\ n.to \in followers
  BY <1>1, <1>3, <1>5, CopyIsMessage
<1>7. \A u \in followers : CopyFor(m, u) \in new /\ CopyFor(m, u).to = u
  BY <1>3, <1>5, CopyIsMessage
<1>8. \A n1, n2 \in new : n1.to = n2.to => n1 = n2
  BY <1>3, <1>5, CopyIsMessage
<1> HIDE DEF new
<1>9. \A n \in Coming : n.type = "inbox" => n.event # e
  BY <1>1, <1>5 DEF Tellings
<1>10. \A n \in starting' : n.event # e
  BY <1>1 DEF Tellings
<1>11. Tellings'
  <2>1. \A x : MessageOK(x)' <=> MessageOK(x)
    BY <1>2 DEF MessageOK
  <2>2. \A x, y : Same(x, y)' <=> Same(x, y)
    BY DEF Same
  <2>3. \A x \in new : MessageOK(x)
    <3>1. ASSUME NEW x \in new PROVE MessageOK(x)
      <4>1. x.event = m.event /\ x.event = e /\ ~x.push /\ x.to \in Users
        BY <1>1, <1>3, <1>6, <3>1
      <4> QED BY <1>5, <4>1 DEF MessageOK
    <3> QED BY <3>1
  <2>4. \A x \in Coming' \cup starting' \cup InHand' : MessageOK(x)'
    BY <1>1, <1>4, <2>1, <2>3 DEF Tellings
  <2>5. ASSUME NEW x \in Coming', NEW y \in Coming', Same(x, y) PROVE x = y
    <3>1. CASE x \in Coming /\ y \in Coming
      BY <2>5, <3>1 DEF Tellings
    <3>2. CASE x \in new /\ y \in new
      BY <1>8, <2>5, <3>2 DEF Same
    <3>3. CASE (x \in new /\ y \in Coming) \/ (x \in Coming /\ y \in new)
      BY <1>6, <1>9, <2>5, <3>3 DEF Same
    <3> QED BY <1>4, <3>1, <3>2, <3>3
  <2>6. ASSUME NEW x \in Coming' \cup starting', NEW y \in Coming', x.push, y.type = "inbox",
               y.event = x.event
        PROVE  x = y /\ x \notin starting'
    <3>1. x \in Coming \cup starting'
      BY <1>4, <1>6, <2>6
    <3>2. x.event # e
      <4>1. x \in Coming => x.type = "inbox"
        BY <2>6 DEF Tellings, MessageOK
      <4> QED BY <1>9, <1>10, <3>1, <4>1
    <3>3. y \in Coming
      BY <1>4, <1>6, <2>6, <3>2
    <3> QED BY <1>1, <2>6, <3>1, <3>3 DEF Tellings
  <2>7. \A x \in pushes' : x.type = "inbox" /\ ~x.push /\ kind'[x.event] = "answer"
    BY <1>2, <1>4, <1>5, <1>6 DEF Tellings
  <2>8. (\A x \in starting' : x.push) /\ \A x, y \in starting' : x.event = y.event => x = y
    BY <1>1 DEF Tellings
  <2> QED BY <2>2, <2>4, <2>5, <2>6, <2>7, <2>8 DEF Tellings
<1>12. \A p : Following(p)' = Following(p)
  BY <1>2 DEF Following
<1>13. ASSUME NEW x \in Coming' \cup starting', x.push
       PROVE  /\ always'[x.event] \subseteq Following(x.post)'
              /\ Following(x.post)' \subseteq ever'[x.event]
  <2>1. x \in Coming \cup starting
    BY <1>1, <1>4, <1>6, <1>13
  <2> QED BY <1>2, <1>12, <1>13, <2>1 DEF Counting
<1>14. ASSUME NEW f \in Events, NEW u \in Readers
       PROVE  /\ Opened(f)' => told'[f][u] + Waits(f, u)' = IF u = Author THEN 1 ELSE 0
              /\ told'[f][u] + Waits(f, u)' <= Due(f, u, ever[f])'
              /\ f \notin lost' =>
                   told'[f][u] + Waits(f, u)' + (IF Opened(f)' /\ u \in always'[f] THEN 1 ELSE 0)
                     >= Due(f, u, always[f])'
  <2>1. told[f][u] \in Nat
    BY DEF QueueTyped, QueueTypeOK
  <2>2. /\ Opened(f) => told[f][u] + Waits(f, u) = IF u = Author THEN 1 ELSE 0
        /\ told[f][u] + Waits(f, u) <= Due(f, u, ever[f])
        /\ f \notin lost =>
             told[f][u] + Waits(f, u) + (IF Opened(f) /\ u \in always[f] THEN 1 ELSE 0)
               >= Due(f, u, always[f])
    BY DEF Counting
  <2>3. Due(f, u, ever[f])' = Due(f, u, ever[f]) /\ Due(f, u, always[f])' = Due(f, u, always[f])
    BY <1>2 DEF Due
  <2>4. CASE f # e
    <3>1. (First(f, u)' <=> First(f, u)) /\ (Copied(f, u)' <=> Copied(f, u))
      BY <1>2, <1>4, <1>6, <2>4 DEF First, Copied
    <3>2. Opened(f)' <=> Opened(f)
      BY <1>1, <1>4, <1>6, <2>4 DEF Opened
    <3>3. Waits(f, u)' = Waits(f, u)
      BY <3>1, WaitsValue
    <3> QED BY <1>2, <2>2, <2>3, <3>2, <3>3
  <2>5. CASE f = e
    <3>1. Opened(e) /\ ~First(e, u) /\ ~Copied(e, u)
      BY <1>1, <1>5, <1>9 DEF Opened, First, Copied
    <3>2. told[e][u] = IF u = Author THEN 1 ELSE 0
      BY <2>1, <2>2, <2>5, <3>1, WaitsValue
    <3>3. ~Opened(e)'
      <4>1. \A n \in Coming : n.push => n.type = "inbox"
        BY DEF Tellings, MessageOK
      <4> QED BY <1>4, <1>6, <1>9, <1>10, <4>1 DEF Opened
    <3>4. ~First(e, u)'
      BY <1>2, <1>4, <1>5, <1>6, <1>9 DEF First
    <3>5. Copied(e, u)' <=> u \in followers
      <4>1. ASSUME Copied(e, u)' PROVE u \in followers
        BY <1>4, <1>6, <1>9, <4>1 DEF Copied
      <4>2. ASSUME u \in followers PROVE Copied(e, u)'
        <5>1. /\ CopyFor(m, u) \in Coming' /\ CopyFor(m, u).type = "inbox"
              /\ CopyFor(m, u).event = e /\ CopyFor(m, u).to = u /\ ~CopyFor(m, u).push
          BY <1>4, <1>6, <1>7, <4>2
        <5> QED BY <1>2, <1>5, <5>1 DEF Copied
      <4> QED BY <4>1, <4>2
    <3>6. Waits(e, u)' = IF u \in followers THEN 1 ELSE 0
      BY <3>4, <3>5 DEF Waits
    <3>7. always[e] \subseteq followers /\ followers \subseteq ever[e]
      BY <1>1, <1>3, <1>5 DEF Counting
    <3>8. /\ Due(e, u, ever[e]) = (IF u = Author THEN 1 ELSE 0) + (IF u \in ever[e] THEN 1 ELSE 0)
          /\ Due(e, u, always[e]) =
               (IF u = Author THEN 1 ELSE 0) + (IF u \in always[e] THEN 1 ELSE 0)
      BY <1>5 DEF Due
    <3>9. told' = told
      BY <1>2
    <3> QED BY <2>3, <2>5, <3>2, <3>3, <3>6, <3>7, <3>8, <3>9
  <2> QED BY <2>4, <2>5
<1>15. /\ \A f \in Events : kind'[f] = "none" <=> f > events'
       /\ \A f \in Events : kind'[f] # "answer" => ever'[f] = {} /\ always'[f] = {}
  BY <1>2 DEF Counting
<1> QED BY <1>11, <1>13, <1>14, <1>15 DEF Counting

\* Somebody starts or ends to follow, which is noted of the events still to be listed.
LEMMA FollowCounting ==
  ASSUME QueueTyped, Tellings, Counting, NEW p \in Posts, NEW u \in Users,
         Follow(p, u) \/ FollowCancel(p, u)
  PROVE  Tellings' /\ Counting'
<1>1. UNCHANGED <<told, kind, events, lost, queue, outbox, worker, starting, pushes>>
  BY DEF Follow, FollowCancel
<1>2. UNCHANGED <<Coming, InHand>>
  BY <1>1 DEF Coming, InOutboxes, Hand, InHand
<1>3. Tellings'
  BY <1>1, <1>2, FewerTellings
<1>4. \A e \in Events, v \in Readers :
        /\ Waits(e, v)' = Waits(e, v) /\ (Opened(e)' <=> Opened(e))
        /\ told[e][v] \in Nat /\ Waits(e, v) \in 0..2
  <2>1. \A e, v : (First(e, v)' <=> First(e, v)) /\ (Copied(e, v)' <=> Copied(e, v))
    BY <1>1, <1>2 DEF First, Copied
  <2> QED BY <1>1, <1>2, <2>1, WaitsValue DEF Opened, QueueTyped, QueueTypeOK
<1>5. /\ \A e \in Events : always'[e] \subseteq always[e] /\ ever[e] \subseteq ever'[e]
      /\ \A e \in Events : e \notin Unlisted(p) => ever'[e] = ever[e]
  <2>1. always \in [Events -> SUBSET Users] /\ ever \in [Events -> SUBSET Users]
    BY DEF QueueTyped, QueueTypeOK
  <2>2. CASE Follow(p, u)
    BY <2>1, <2>2 DEF Follow
  <2>3. CASE FollowCancel(p, u)
    BY <2>1, <2>3 DEF FollowCancel
  <2> QED BY <2>2, <2>3
<1>6. \A e \in Events : e \in Unlisted(p) => kind[e] = "answer"
  <2>1. \A m \in Pending \cup starting : m.push => kind[m.event] = "answer"
    <3>1. Pending \subseteq Coming \cup InHand
      BY HandOfWorker DEF Coming
    <3> QED BY <3>1 DEF Tellings, MessageOK
  <2> QED BY <2>1 DEF Unlisted
<1>7. ASSUME NEW m \in Coming \cup starting, m.push
      PROVE  /\ always'[m.event] \subseteq Following(m.post)'
             /\ Following(m.post)' \subseteq ever'[m.event]
  <2>1. m \in Messages /\ m.event \in Events /\ m.post \in Posts
    BY HandOfWorker, MessageParts
  <2>2. always[m.event] \subseteq Following(m.post) /\ Following(m.post) \subseteq ever[m.event]
    BY <1>7 DEF Counting
  <2>3. m \in Pending \cup starting
    <3>1. m \notin pushes
      BY <1>7 DEF Tellings
    <3> QED BY <3>1, HandOfWorker DEF Coming
  <2>4. follow \in [Posts -> [Users -> {"none", "on", "off"}]]
    BY DEF QueueTyped, QueueTypeOK
  <2>5. CASE m.post # p
    <3>1. Following(m.post)' = Following(m.post)
      BY <2>1, <2>4, <2>5 DEF Following, Follow, FollowCancel
    <3> QED BY <1>5, <2>1, <2>2, <3>1
  <2>6. CASE m.post = p /\ Follow(p, u)
    <3>1. Following(p)' = Following(p) \cup {u}
      BY <2>4, <2>6 DEF Following, Follow
    <3>2. m.event \in Unlisted(p)
      BY <1>7, <2>1, <2>3, <2>6 DEF Unlisted
    <3>3. ever'[m.event] = ever[m.event] \cup {u} /\ always' = always
      BY <2>1, <2>6, <3>2 DEF Follow
    <3> QED BY <2>2, <2>6, <3>1, <3>3
  <2>7. CASE m.post = p /\ FollowCancel(p, u)
    <3>1. Following(p)' = Following(p) \ {u}
      BY <2>4, <2>7 DEF Following, FollowCancel
    <3>2. m.event \in Unlisted(p)
      BY <1>7, <2>1, <2>3, <2>7 DEF Unlisted
    <3>3. always'[m.event] = always[m.event] \ {u} /\ ever' = ever
      BY <2>1, <2>7, <3>2 DEF FollowCancel
    <3> QED BY <2>2, <2>7, <3>1, <3>3
  <2> QED BY <2>5, <2>6, <2>7
<1>8. ASSUME NEW e \in Events, NEW v \in Readers
      PROVE  /\ Due(e, v, ever[e]) <= Due(e, v, ever[e])'
             /\ e \notin lost =>
                  told[e][v] + Waits(e, v) + (IF Opened(e) /\ v \in always'[e] THEN 1 ELSE 0)
                    >= Due(e, v, always[e])'
  <2>1. Due(e, v, ever[e]) <= Due(e, v, ever[e])'
    BY <1>1, <1>5 DEF Due
  <2>2. e \notin lost =>
          told[e][v] + Waits(e, v) + (IF Opened(e) /\ v \in always[e] THEN 1 ELSE 0)
            >= Due(e, v, always[e])
    BY DEF Counting
  <2>3. v \in always'[e] \/ v \notin always[e] => Due(e, v, always[e])' = Due(e, v, always[e])
    BY <1>1, <1>5 DEF Due
  <2>4. v \in always[e] /\ v \notin always'[e] =>
          Due(e, v, always[e])' = Due(e, v, always[e]) - 1
    BY <1>1 DEF Due
  <2> QED BY <1>4, <1>5, <2>1, <2>2, <2>3, <2>4, DueValue
<1>9. /\ \A e \in Events : kind'[e] = "none" <=> e > events'
      /\ \A e \in Events : kind'[e] # "answer" => ever'[e] = {} /\ always'[e] = {}
  <2>1. ASSUME NEW e \in Events, kind[e] # "answer" PROVE ever'[e] = {} /\ always'[e] = {}
    BY <1>5, <1>6, <2>1 DEF Counting
  <2> QED BY <1>1, <2>1 DEF Counting
<1>10. ASSUME NEW e \in Events, NEW v \in Readers
       PROVE  /\ Opened(e)' => told'[e][v] + Waits(e, v)' = IF v = Author THEN 1 ELSE 0
              /\ told'[e][v] + Waits(e, v)' <= Due(e, v, ever[e])'
              /\ e \notin lost' =>
                   told'[e][v] + Waits(e, v)' + (IF Opened(e)' /\ v \in always'[e] THEN 1 ELSE 0)
                     >= Due(e, v, always[e])'
  <2>1. /\ Opened(e) => told[e][v] + Waits(e, v) = IF v = Author THEN 1 ELSE 0
        /\ told[e][v] + Waits(e, v) <= Due(e, v, ever[e])
    BY DEF Counting
  <2>2. told' = told /\ lost' = lost
    BY <1>1
  <2>3. Due(e, v, ever[e]) \in 0..2 /\ Due(e, v, ever[e])' \in 0..2
    BY DEF Due
  <2> QED BY <1>4, <1>8, <2>1, <2>2, <2>3
<1> QED BY <1>1, <1>2, <1>3, <1>7, <1>9, <1>10 DEF Counting

-----------------------------------------------------------------------------
(* What achievements show *)

\* No achievement is taken away, and the worker does not come to save one.
LEMMA KeepShowing ==
  ASSUME Showing, UNCHANGED <<rank, shown>>, behind \subseteq behind',
         \A m \in InOutboxes \cup Elements(queue) :
           m.type = "achievement" => m \in InOutboxes' \cup Elements(queue')
                                             \/ (m \in InHand' /\ worker'.stage # "save"),
         \/ worker' = worker /\ worker'.stage = worker.stage
         \/ worker' = Nothing
         \/ worker'.stage = "look"
         \/ worker'.stage \in {"save", "sync"} /\ worker'.msg.type = "inbox",
         \A m \in InHand : m \in InHand' \/ m.type = "inbox" \/ m.post \in behind'
  PROVE  Showing'
<1>1. \A p \in Posts : p \in behind' \/ shown'[p] = rank'[p] \/ Announced(p)'
  BY DEF Showing, Announced
<1>2. worker' # Nothing /\ worker'.stage = "sync" => worker'.msg.type = "inbox"
  BY DEF Showing
<1>3. ASSUME worker' # Nothing, worker'.stage = "save", worker'.msg.type = "achievement"
      PROVE  worker'.rank = rank'[worker'.msg.post] \/ Ahead(worker.msg.post)'
  <2>1. worker' = worker
    BY <1>3
  <2>2. PICK p : p = worker.msg.post
    OBVIOUS
  <2>3. Ahead(p) => Ahead(p)'
    BY <1>3, <2>1 DEF Ahead
  <2> QED BY <1>3, <2>1, <2>2, <2>3 DEF Showing
<1> QED BY <1>1, <1>2, <1>3 DEF Showing

LEMMA CommitShowing ==
  ASSUME QueueTyped, InOnePlace, Tellings, Showing,
         NEW h \in Senders, NEW k \in Kinds, NEW p \in Posts,
         Commit(h, k, p)
  PROVE  Showing'
<1> DEFINE new == Elements(ToSend(events + 1, p, k))
<1>1. /\ InOutboxes' = InOutboxes \cup new /\ UNCHANGED <<queue, worker, shown, behind, InHand>>
  BY CommitPlaces DEF Commit, InHand
<1>2. k \in {"vote", "cancelVote"} => \E m \in new : m.type = "achievement" /\ m.post = p
  <2>1. events + 1 \in Events
    <3>1. events < MaxEvents
      BY DEF Commit
    <3>2. events \in 0..MaxEvents /\ MaxEvents \in Nat
      BY QueueAssumption DEF QueueTyped, QueueTypeOK
    <3> QED BY <3>1, <3>2 DEF Events
  <2>2. k \in {"vote", "cancelVote"} => Achievement(events + 1, p) \in new
    BY <2>1, MessagesMade
  <2>3. Achievement(events + 1, p).type = "achievement" /\ Achievement(events + 1, p).post = p
    BY DEF Achievement
  <2> QED BY <2>2, <2>3
<1>3. \A q \in Posts : rank'[q] = rank[q] \/ (q = p /\ k \in {"vote", "cancelVote"})
  <2>1. rank' = [rank EXCEPT ![p] = CASE k = "vote" -> @ + 1
                                      [] k = "cancelVote" -> @ - 1
                                      [] OTHER -> @]
    BY DEF Commit
  <2>2. rank \in [Posts -> 0..MaxEvents]
    BY DEF QueueTyped, QueueTypeOK
  <2> QED BY <2>1, <2>2
<1> HIDE DEF new
<1>4. ASSUME NEW q \in Posts PROVE rank'[q] = rank[q] \/ (Announced(q)' /\ Ahead(q)')
  BY <1>1, <1>2, <1>3 DEF Announced, Ahead
<1>5. ASSUME NEW q \in Posts
      PROVE  (Announced(q) => Announced(q)') /\ (Ahead(q) => Ahead(q)')
  BY <1>1 DEF Announced, Ahead
<1>6. ASSUME worker # Nothing, worker.stage = "save", worker.msg.type = "achievement",
             NEW q \in Posts, worker.msg.post = q
      PROVE  worker.rank = rank'[q] \/ Ahead(q)'
  BY <1>1, <1>4, <1>5, <1>6 DEF Showing
<1>7. ASSUME worker' # Nothing, worker'.stage = "save", worker'.msg.type = "achievement"
      PROVE  worker'.rank = rank'[worker'.msg.post] \/ Ahead(worker.msg.post)'
  <2>1. PICK q \in Posts : worker.msg.post = q /\ worker'.msg.post = q
    BY <1>1, <1>7, WorkerParts
  <2> QED BY <1>1, <1>6, <1>7, <2>1
<1> QED BY <1>1, <1>4, <1>5, <1>7 DEF Showing

LEMMA LookShowing ==
  ASSUME QueueTyped, InOnePlace, Showing, Look
  PROVE  Showing'
<1>1. /\ UNCHANGED <<InOutboxes, queue, InHand, rank, shown, behind>>
      /\ worker' # Nothing /\ worker'.msg = worker.msg /\ worker'.stage = "save"
  BY LookPlaces DEF Look, history
<1>2. worker.msg.type = "achievement" => worker'.rank = rank[worker.msg.post]
  <2>1. worker # Nothing
    BY DEF Look, WorkerAt
  <2> QED BY <2>1, WorkerParts DEF Look, RankNow
<1>3. \A p : Announced(p)' <=> Announced(p)
  BY <1>1 DEF Announced
<1> QED BY <1>1, <1>2, <1>3 DEF Showing

LEMMA SaveAchievementShowing ==
  ASSUME QueueTyped, InOnePlace, Showing, SaveAchievement
  PROVE  Showing'
<1>1. PICK m : m = worker.msg /\ m \in Messages /\ m.post \in Posts
  BY DonePlaces, WorkerParts
<1>2. /\ worker # Nothing /\ worker.stage = "save" /\ m.type = "achievement" /\ worker' = Nothing
      /\ shown' = [shown EXCEPT ![m.post] = worker.rank] /\ behind' = behind \ {m.post}
      /\ rank' = rank /\ UNCHANGED <<InOutboxes, queue>>
  BY <1>1, DonePlaces DEF SaveAchievement
<1>3. InHand = {m} /\ InHand' = {}
  BY <1>1, <1>2 DEF InHand
<1>4. \A p : Ahead(p)' <=> Ahead(p)
  BY <1>2 DEF Ahead
<1>5. ASSUME NEW p \in Posts PROVE p \in behind' \/ shown'[p] = rank'[p] \/ Announced(p)'
  <2>1. Ahead(p) => Announced(p)'
    BY <1>2 DEF Ahead, Announced
  <2>2. shown \in [Posts -> 0..MaxEvents]
    BY DEF QueueTyped, QueueTypeOK
  <2>3. CASE p = m.post
    <3>1. shown'[p] = worker.rank
      BY <1>1, <1>2, <2>2, <2>3
    <3>2. worker.rank = rank[p] \/ Ahead(p)
      BY <1>1, <1>2, <2>3 DEF Showing
    <3> QED BY <1>2, <2>1, <3>1, <3>2
  <2>4. CASE p # m.post
    <3>1. shown'[p] = shown[p] /\ (p \in behind => p \in behind')
      BY <1>2, <2>2, <2>4
    <3>2. Announced(p) => Ahead(p)
      BY <1>3, <2>4 DEF Announced, Ahead
    <3> QED BY <1>2, <2>1, <3>1, <3>2 DEF Showing
  <2> QED BY <2>3, <2>4
<1> QED BY <1>2, <1>5 DEF Showing

\* The message that fails is noted, and so are all that the end of the process takes.
LEMMA FailShowing ==
  ASSUME QueueTyped, InOnePlace, Showing, FailHandle
  PROVE  Showing'
<1>1. /\ UNCHANGED <<InOutboxes, queue, rank, shown>> /\ worker' = Nothing
      /\ behind \subseteq behind'
      /\ worker.msg.type = "achievement" => worker.msg.post \in behind'
  BY DonePlaces DEF FailHandle
<1>2. \A m \in InHand : m = worker.msg
  BY DEF InHand
<1>3. worker.msg \in Messages
  BY DonePlaces, WorkerParts
<1> QED BY <1>1, <1>2, <1>3, MessageParts, KeepShowing

LEMMA StopShowing ==
  ASSUME QueueTyped, Showing, Stop, UNCHANGED shown
  PROVE  Showing'
<1>1. worker' = Nothing /\ rank' = rank
  BY DEF Stop
<1>2. /\ behind \subseteq behind'
      /\ \A m \in Pending : m.type = "achievement" => m.post \in behind'
  BY DEF Stop
<1>3. \A p \in Posts : Announced(p) => p \in behind'
  BY <1>2, HandOfWorker DEF Announced
<1> QED BY <1>1, <1>2, <1>3 DEF Showing

-----------------------------------------------------------------------------
(* The invariant *)

NoticeInv == QueueTyped /\ InOnePlace /\ Tellings /\ Counting /\ Showing

LEMMA InitNotice == QueueInit => NoticeInv
<1> SUFFICES ASSUME QueueInit PROVE NoticeInv
  OBVIOUS
<1>1. Elements(<<>>) = {} /\ Distinct(<<>>)
  BY DEF Elements, Distinct
<1>2. /\ queue = <<>> /\ worker = Nothing /\ starting = {} /\ pushes = {} /\ events = 0
      /\ \A h \in Senders : outbox[h] = <<>>
  BY DEF QueueInit
<1>3. /\ InOutboxes = {} /\ Elements(queue) = {} /\ Hand = {} /\ InHand = {} /\ Coming = {}
  BY <1>1, <1>2 DEF InOutboxes, Hand, InHand, Coming
<1>4. InOnePlace
  BY <1>1, <1>2, <1>3 DEF InOnePlace
<1>5. Tellings
  BY <1>2, <1>3 DEF Tellings
<1>6. /\ \A e \in Events : kind[e] = "none" /\ ever[e] = {} /\ always[e] = {}
      /\ \A e \in Events, u \in Readers : told[e][u] = 0
      /\ \A p \in Posts : shown[p] = rank[p]
  BY DEF QueueInit
<1>7. \A e, u : Waits(e, u) = 0 /\ ~Opened(e)
  BY <1>2, <1>3 DEF Waits, First, Copied, Opened
<1>8. \A e \in Events, u \in Readers : Due(e, u, ever[e]) = 0 /\ Due(e, u, always[e]) = 0
  BY <1>6 DEF Due
<1>9. \A e \in Events : e > events
  BY <1>2 DEF Events
<1>10. Counting
  BY <1>2, <1>3, <1>6, <1>7, <1>8, <1>9 DEF Counting
<1>11. Showing
  BY <1>2, <1>6 DEF Showing
<1> QED BY <1>4, <1>5, <1>10, <1>11, QueueInitTyped DEF NoticeInv

\* Messages go from the outboxes and the goroutines to the worker.
LEMMA SendNotice ==
  ASSUME NoticeInv, QueueTyped', NEW h \in Senders, Send(h)
  PROVE  NoticeInv'
<1>1. /\ InOnePlace' /\ Coming' = Coming
      /\ InOutboxes' \cup Elements(queue') = InOutboxes \cup Elements(queue)
  BY SendPlaces DEF NoticeInv
<1>2. UNCHANGED <<rank, shown, kind, told, events, follow, worker, starting, pushes, behind, lost,
                  always, ever, InHand>>
  BY DEF Send, following, history, InHand
<1> QED BY <1>1, <1>2, FewerTellings, LossCounting, KeepShowing DEF NoticeInv

LEMMA PushNotice ==
  ASSUME NoticeInv, QueueTyped', NEW e \in Events, Push(e)
  PROVE  NoticeInv'
<1>1. /\ InOnePlace' /\ Coming' = Coming /\ InOutboxes' = InOutboxes
      /\ Elements(queue) \subseteq Elements(queue') /\ pushes' \subseteq pushes
  BY PushPlaces DEF NoticeInv
<1>2. UNCHANGED <<rank, shown, kind, told, events, follow, worker, starting, behind, lost,
                  always, ever, InHand>>
  BY DEF Push, following, history, InHand
<1> QED BY <1>1, <1>2, FewerTellings, LossCounting, KeepShowing DEF NoticeInv

LEMMA GoroutineNotice ==
  ASSUME NoticeInv, QueueTyped', NEW e \in Events, ListFollowers(e) \/ FailList(e)
  PROVE  NoticeInv'
<1>1. UNCHANGED <<rank, shown, kind, told, events, follow, queue, outbox, worker, behind,
                  always, ever>>
  BY DEF ListFollowers, FailList, following, history
<1>2. UNCHANGED <<InOutboxes, InHand, Hand>>
  BY <1>1 DEF InOutboxes, InHand, Hand
<1>3. Showing'
  BY <1>1, <1>2, KeepShowing DEF NoticeInv
<1>4. CASE ListFollowers(e)
  <2>1. InOnePlace'
    BY <1>1, <1>4, ListPlaces DEF NoticeInv, ListFollowers
  <2> QED BY <1>3, <1>4, <2>1, ListTellings DEF NoticeInv
<1>5. CASE FailList(e)
  <2>1. pushes' = pushes /\ Coming' = Coming /\ InOnePlace'
    BY <1>1, <1>2, <1>5 DEF FailList, Coming, InOnePlace, NoticeInv
  <2>2. starting' \subseteq starting /\ lost' = lost \cup {e}
        /\ \A m \in starting \ starting' : m.event = e
    BY <1>5 DEF FailList
  <2> QED BY <1>1, <1>2, <1>3, <2>1, <2>2, FewerTellings, LossCounting DEF NoticeInv
<1> QED BY <1>4, <1>5

LEMMA WorkerNotice ==
  ASSUME NoticeInv, QueueTyped', Take \/ Look \/ SaveAchievement \/ SaveInbox \/ Sync \/ FailHandle
  PROVE  NoticeInv'
<1>1. UNCHANGED <<rank, kind, events, follow, always, ever, pushes>>
  BY DEF Take, Look, SaveAchievement, SaveInbox, Sync, FailHandle, following, history
<1>2. CASE Take
  <2>1. /\ InOnePlace' /\ Coming' = Coming /\ InHand = {} /\ InHand' \subseteq Coming
        /\ InOutboxes' \cup Elements(queue') \cup InHand' = InOutboxes \cup Elements(queue)
        /\ worker'.stage = "look"
    BY <1>2, TakePlaces DEF NoticeInv
  <2>2. UNCHANGED <<told, starting, shown, behind, lost>>
    BY <1>2 DEF Take, history
  <2> QED BY <1>1, <2>1, <2>2, FewerTellings, LossCounting, KeepShowing DEF NoticeInv
<1>3. CASE Look
  <2>1. InOnePlace' /\ Coming' = Coming /\ InHand' = InHand
    BY <1>3, LookPlaces DEF NoticeInv
  <2>2. UNCHANGED <<told, starting, lost>>
    BY <1>3 DEF Look, history
  <2>3. Showing'
    BY <1>3, LookShowing DEF NoticeInv
  <2> QED BY <1>1, <2>1, <2>2, <2>3, FewerTellings, LossCounting DEF NoticeInv
<1>4. CASE SaveAchievement
  <2>1. /\ InOnePlace' /\ worker.msg \in Coming /\ Coming' = Coming \ {worker.msg}
        /\ InHand' \subseteq InHand
    BY <1>4, DonePlaces DEF NoticeInv
  <2>2. UNCHANGED <<told, starting, lost>> /\ worker.msg.type = "achievement"
    BY <1>4 DEF SaveAchievement
  <2>3. Showing'
    BY <1>4, SaveAchievementShowing DEF NoticeInv
  <2> QED BY <1>1, <2>1, <2>2, <2>3, FewerTellings, LossCounting DEF NoticeInv
<1>5. CASE SaveInbox
  <2>1. /\ InOnePlace' /\ worker # Nothing /\ UNCHANGED <<InOutboxes, queue>>
    BY <1>5, DonePlaces DEF NoticeInv
  <2>2. /\ UNCHANGED <<shown, behind>> /\ worker.msg.type = "inbox"
        /\ worker'.msg = worker.msg /\ worker'.stage = "sync"
    BY <1>5, <2>1, WorkerParts DEF SaveInbox, history, NoticeInv
  <2>3. \A m \in InHand : m.type = "inbox"
    BY <2>2 DEF InHand
  <2>4. Showing'
    BY <1>1, <2>1, <2>2, <2>3, KeepShowing DEF NoticeInv
  <2> QED BY <1>5, <2>1, <2>4, SaveInboxTellings DEF NoticeInv
<1>6. CASE Sync
  <2>1. InOnePlace' /\ Coming' = Coming /\ UNCHANGED <<InOutboxes, queue>> /\ InHand' = {}
    BY <1>6, SyncPlaces DEF NoticeInv
  <2>2. UNCHANGED <<told, starting, shown, behind, lost>> /\ worker' = Nothing
    BY <1>6 DEF Sync, history
  <2>3. \A m \in InHand : m.type = "inbox"
    BY <1>6 DEF Sync, WorkerAt, InHand, NoticeInv, Showing
  <2> QED BY <1>1, <2>1, <2>2, <2>3, FewerTellings, LossCounting, KeepShowing DEF NoticeInv
<1>7. CASE FailHandle
  <2>1. /\ InOnePlace' /\ worker.msg \in Coming /\ Coming' = Coming \ {worker.msg}
        /\ InHand' \subseteq InHand
    BY <1>7, DonePlaces DEF NoticeInv
  <2>2. UNCHANGED <<told, starting>> /\ lost' = lost \cup {worker.msg.event}
    BY <1>7 DEF FailHandle
  <2>3. Showing'
    BY <1>7, FailShowing DEF NoticeInv
  <2> QED BY <1>1, <2>1, <2>2, <2>3, FewerTellings, LossCounting DEF NoticeInv
<1> QED BY <1>2, <1>3, <1>4, <1>5, <1>6, <1>7

LEMMA StopNotice ==
  ASSUME NoticeInv, QueueTyped', Crash \/ Panic
  PROVE  NoticeInv'
<1>1. Stop
  BY DEF Crash, Panic
<1>2. /\ InOnePlace' /\ InHand' = {} /\ Coming' = {} /\ starting' = {} /\ pushes' = {}
  BY <1>1, StopPlaces
<1>3. UNCHANGED <<shown, kind, told, events, follow, always, ever>>
  BY <1>1 DEF Stop, following
<1>4. lost \subseteq lost' /\ \A m \in Coming \cup starting : m.event \in lost'
  <2>1. Coming \subseteq Pending \cup pushes
    BY HandOfWorker DEF Coming, NoticeInv
  <2> QED BY <1>1, <2>1 DEF Stop
<1>5. Tellings' /\ Counting'
  BY <1>2, <1>3, <1>4, FewerTellings, LossCounting DEF NoticeInv
<1>6. Showing'
  BY <1>1, <1>3, StopShowing DEF NoticeInv
<1> QED BY <1>2, <1>5, <1>6 DEF NoticeInv

LEMMA NextNotice == NoticeInv /\ [QueueNext]_queueVars => NoticeInv'
<1> SUFFICES ASSUME NoticeInv, [QueueNext]_queueVars PROVE NoticeInv'
  OBVIOUS
<1>1. QueueTyped'
  BY NextTyped DEF NoticeInv
<1>2. ASSUME NEW h \in Senders, NEW k \in Kinds, NEW p \in Posts, Commit(h, k, p)
      PROVE  NoticeInv'
  BY <1>1, <1>2, CommitPlaces, CommitTellings, CommitShowing DEF NoticeInv
<1>3. ASSUME \/ UNCHANGED queueVars
             \/ \E e \in Events : RemoveComment(e)
      PROVE  NoticeInv'
  <2>1. UNCHANGED <<rank, shown, kind, told, events, follow, queue, outbox, worker, starting,
                    pushes, behind, lost, always, ever>>
    BY <1>3 DEF RemoveComment, queueVars, following, history
  <2>2. UNCHANGED <<InOutboxes, Hand, InHand, Coming>>
    BY <2>1 DEF InOutboxes, Hand, InHand, Coming
  <2>3. InOnePlace'
    BY <2>1, <2>2 DEF InOnePlace, NoticeInv
  <2> QED BY <1>1, <2>1, <2>2, <2>3, FewerTellings, LossCounting, KeepShowing DEF NoticeInv
<1>4. ASSUME NEW p \in Posts, NEW u \in Users, Follow(p, u) \/ FollowCancel(p, u)
      PROVE  NoticeInv'
  <2>1. UNCHANGED <<rank, shown, queue, outbox, worker, pushes, behind>>
    BY <1>4 DEF Follow, FollowCancel
  <2>2. UNCHANGED <<InOutboxes, Hand, InHand>>
    BY <2>1 DEF InOutboxes, Hand, InHand
  <2>3. InOnePlace'
    BY <2>1, <2>2 DEF InOnePlace, NoticeInv
  <2> QED BY <1>1, <1>4, <2>1, <2>2, <2>3, FollowCounting, KeepShowing DEF NoticeInv
<1> QED
  BY <1>1, <1>2, <1>3, <1>4, SendNotice, PushNotice, GoroutineNotice, WorkerNotice, StopNotice
  DEF QueueNext, Worker

LEMMA NoticeInvariant == QueueSpec => []NoticeInv
BY InitNotice, NextNotice, PTL DEF QueueSpec

\* The achievement notification of a post shows what the post has earned unless
\* a message about it is under way or was lost, however votes, handlers, the
\* worker and crashes overlap.
THEOREM RankIsShown == QueueSpec => []RankShown
<1>1. NoticeInv => RankShown
  BY HandOfWorker DEF NoticeInv, Showing, RankShown, Announced
<1> QED BY NoticeInvariant, <1>1, PTL

\* The author is told of an event once and a follower once more, never twice, and
\* nobody who followed all the time is left out unless a message was lost.
THEOREM EveryoneIsToldAsDue == QueueSpec => []ToldAsDue
<1>1. NoticeInv => ToldAsDue
  <2> SUFFICES ASSUME NoticeInv, NEW e \in Events, NEW u \in Readers
               PROVE  /\ told[e][u] <= Due(e, u, ever[e])
                      /\ ~Underway(e) /\ e \notin lost => told[e][u] >= Due(e, u, always[e])
    BY DEF ToldAsDue
  <2>1. told[e][u] \in Nat
    BY DEF NoticeInv, QueueTyped, QueueTypeOK
  <2>2. /\ told[e][u] + Waits(e, u) <= Due(e, u, ever[e])
        /\ e \notin lost =>
             told[e][u] + Waits(e, u) + (IF Opened(e) /\ u \in always[e] THEN 1 ELSE 0)
               >= Due(e, u, always[e])
    BY DEF NoticeInv, Counting
  <2>3. ~Underway(e) => ~First(e, u) /\ ~Copied(e, u) /\ ~Opened(e)
    <3>1. Coming \cup starting \subseteq Pending \cup starting \cup pushes
      BY HandOfWorker DEF Coming, NoticeInv
    <3>2. \A m \in Coming \cup starting : m.push => m.type = "inbox"
      BY DEF NoticeInv, Tellings, MessageOK
    <3> QED BY <3>1, <3>2 DEF Underway, First, Copied, Opened
  <2> QED BY <2>1, <2>2, <2>3, WaitsValue, DueValue
<1> QED BY NoticeInvariant, <1>1, PTL
=============================================================================
