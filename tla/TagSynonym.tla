---------------------------- MODULE TagSynonym ----------------------------
(***************************************************************************)
(* Tags and their synonyms: adding, editing, deleting and recovering tags, *)
(* making tags synonyms of a main tag, and the tags a question brings      *)
(* along.  A synonym holds its main tag twice, by id and by name; requests *)
(* name tags by their slug names, which an edit may change meanwhile.      *)
(* Every statement is a step.  The tag rows of questions and the counts of *)
(* tags are in QuestionLifecycle, edits that wait in RevisionAudit.        *)
(***************************************************************************)
EXTENDS Integers, Sequences, FiniteSets

CONSTANTS
  Tags, Names,     \* ids and slug names; no more rows than names, which are unique
  Handlers,
  Seeds,           \* Seeds[t]: the name of a tag that exists at first, or None
  Operations,      \* the operations of this instance
  Lists,           \* the lists of names a request may carry
  MaxRequests,     \* bound: how many requests are received in all
  None,
  StatementsFail   \* a statement or the process may fail

AllOperations == {"add", "question", "synonyms", "edit", "approve", "remove", "recover"}
Requests == [op : AllOperations, tag : Tags \cup {None}, name : Names \cup {None},
             names : SUBSET Names]
TagRow == [st : {"absent", "available", "deleted"}, name : Names \cup {None},
           main : Tags \cup {None}, mainName : Names \cup {None}]

ASSUME TagAssumption ==
  /\ None \notin Tags \cup Names \cup Requests \cup [id : Tags, name : Names]
  /\ Seeds \in [Tags -> Names \cup {None}]
  /\ \A s, t \in Tags : Seeds[s] = Seeds[t] => s = t \/ Seeds[s] = None
  /\ Operations \subseteq AllOperations
  /\ Lists \subseteq SUBSET Names
  /\ MaxRequests \in Nat
  /\ StatementsFail \in BOOLEAN

VARIABLES
  tag,       \* the rows of the table, by id
  used,      \* the tags of the question
  received,  \* how many requests have been received
  todo, req, \* of every handler: the statements left, and the request
  row,       \* of every handler: the tag it has read
  old,       \* of every handler: the deleted tag found for a name, with the name
  names,     \* of every handler: the names it has to look up, drop or link
  fresh,     \* of every handler: the names it has to insert
  ids,       \* of every handler: the tags it has found or made
  alone      \* history: no other request was served meanwhile

locals == <<row, old, names, fresh, ids>>
vars == <<tag, used, received, todo, req, locals, alone>>

-----------------------------------------------------------------------------
(* The statements of a request *)

\* AddTagList looks every name up, one after the other, and revives the tag it
\* finds deleted, before one statement inserts what is left.
AddTag == <<"checkName", "lookUp", "insert", "reply">>
ObjectChangeTag == <<"listNames", "lookUp", "insert", "relate", "reply">>

\* Mutant: the synonyms of before stay synonyms.
UpdateTagSynonymAddsOnly ==
  <<"readTag", "listNames", "lookUp", "insert", "link", "reply">>

UpdateTagSynonym ==
  <<"readTag", "listNames", "lookUp", "insert", "listSynonyms", "drop", "link", "reply">>

\* The text of a tag is left out, and with it the first statement of
\* RevisionAuditTag, which saves nothing else.
UpdateTag == <<"readTag", "write", "listSynonyms", "link", "reply">>
RevisionAuditTag == <<"readTag", "listSynonyms", "link", "reply">>

RemoveTag == <<"countUses", "countSynonyms", "delete", "reply">>
RecoverTag == <<"readDeleted", "recover", "reply">>

Program(op) ==
  CASE op = "add" -> AddTag
    [] op = "question" -> ObjectChangeTag
    [] op = "synonyms" -> UpdateTagSynonym
    [] op = "edit" -> UpdateTag
    [] op = "approve" -> RevisionAuditTag
    [] op = "remove" -> RemoveTag
    [] op = "recover" -> RecoverTag

Statements == {"checkName", "listNames", "lookUp", "insert", "relate", "readTag",
               "listSynonyms", "drop", "link", "write", "countUses", "countSynonyms",
               "delete", "readDeleted", "recover", "reply"}

-----------------------------------------------------------------------------
Absent == [st |-> "absent", name |-> None, main |-> None, mainName |-> None]

\* A tag as it is inserted.
NewTag(n) == [st |-> "available", name |-> n, main |-> None, mainName |-> None]

Available(t) == tag[t].st = "available"
Named(n) == {t \in Tags : tag[t].name = n}

\* GetTagList, by the id of the main tag.
Synonyms(m) == {t \in Tags : Available(t) /\ tag[t].main = m}

Busy(h) == todo[h] # <<>>
At(h, s) == Busy(h) /\ Head(todo[h]) = s

Init ==
  /\ tag = [t \in Tags |-> IF Seeds[t] = None THEN Absent ELSE NewTag(Seeds[t])]
  /\ used = {}
  /\ received = 0
  /\ todo = [h \in Handlers |-> <<>>]
  /\ req = [h \in Handlers |-> None]
  /\ row = [h \in Handlers |-> None]
  /\ old = [h \in Handlers |-> None]
  /\ names = [h \in Handlers |-> {}]
  /\ fresh = [h \in Handlers |-> {}]
  /\ ids = [h \in Handlers |-> {}]
  /\ alone = [h \in Handlers |-> TRUE]

\* What the pages send: a tag that exists, the names an operation takes.
Sent(r) ==
  /\ r.op \in Operations
  /\ IF r.op \in {"add", "question"} THEN r.tag = None
     ELSE r.tag # None /\ tag[r.tag].st # "absent"
  /\ r.op # "edit" => r.name = None
  /\ IF r.op \in {"add", "question", "synonyms"} THEN r.names \in Lists ELSE r.names = {}
  /\ r.op = "add" => Cardinality(r.names) = 1
  /\ r.op = "question" => r.names # {}

Receive(h, r) ==
  LET others == {g \in Handlers : Busy(g)} IN
  /\ ~Busy(h)
  /\ received < MaxRequests
  /\ Sent(r)
  /\ received' = received + 1
  /\ req' = [req EXCEPT ![h] = r]
  /\ todo' = [todo EXCEPT ![h] = Program(r.op)]
  /\ alone' = [g \in Handlers |-> IF g = h THEN others = {} ELSE alone[g] /\ g \notin others]
  /\ UNCHANGED <<tag, used, locals>>

\* Go on after the next n statements.
Skip(h, n) == todo' = [todo EXCEPT ![h] = SubSeq(@, n + 1, Len(@))]
Advance(h) == Skip(h, 1)

\* The request is answered, or refused, and the handler keeps nothing.
Finish(h) ==
  /\ todo' = [todo EXCEPT ![h] = <<>>]
  /\ req' = [req EXCEPT ![h] = None]
  /\ row' = [row EXCEPT ![h] = None]
  /\ old' = [old EXCEPT ![h] = None]
  /\ names' = [names EXCEPT ![h] = {}]
  /\ fresh' = [fresh EXCEPT ![h] = {}]
  /\ ids' = [ids EXCEPT ![h] = {}]
  /\ UNCHANGED <<tag, used, received, alone>>

\* A read: the request goes on, or it ends.
Check(h, s, goesOn) ==
  /\ At(h, s)
  /\ IF goesOn THEN Advance(h) /\ UNCHANGED <<tag, used, received, req, locals, alone>>
               ELSE Finish(h)

-----------------------------------------------------------------------------
(* Adding tags *)

\* AddTag: GetTagBySlugName finds a tag of that name, or none.
CheckName(h) ==
  /\ At(h, "checkName")
  /\ IF \E n \in req[h].names, t \in Tags : t \in Named(n) /\ Available(t)
       THEN Finish(h)
       ELSE /\ names' = [names EXCEPT ![h] = req[h].names]
            /\ Advance(h)
            /\ UNCHANGED <<tag, used, received, req, row, old, fresh, ids, alone>>

\* GetTagListByNames: the names that have a tag, and those that need one.
ListNames(h) ==
  LET found == {t \in Tags : Available(t) /\ tag[t].name \in req[h].names}
      missing == req[h].names \ {tag[t].name : t \in found} IN
  /\ At(h, "listNames")
  /\ names' = [names EXCEPT ![h] = missing]
  /\ ids' = [ids EXCEPT ![h] = found]
  /\ Skip(h, IF missing = {} THEN 3 ELSE 1)
  /\ UNCHANGED <<tag, used, received, req, row, old, fresh, alone>>

\* updateDeletedTag, for one name after the other: is there a deleted tag?
LookUp(h, n) ==
  LET deleted == {t \in Named(n) : tag[t].st = "deleted"} IN
  /\ At(h, "lookUp")
  /\ old[h] = None
  /\ n \in names[h]
  /\ names' = [names EXCEPT ![h] = @ \ {n}]
  /\ \/ /\ deleted = {}
        /\ fresh' = [fresh EXCEPT ![h] = @ \cup {n}]
        /\ IF names[h] = {n} THEN Advance(h) ELSE UNCHANGED todo
        /\ UNCHANGED old
     \/ /\ \E t \in deleted : old' = [old EXCEPT ![h] = [id |-> t, name |-> n]]
        /\ UNCHANGED <<fresh, todo>>
  /\ UNCHANGED <<tag, used, received, req, row, ids, alone>>

\* A name is unique: what would give it to a second tag fails.
Taken(n, t) == \E s \in Tags \ {t} : tag[s].name = n

\* updateDeletedTag writes the row it has found; main_tag_id stays.
Revive(h) ==
  LET t == old[h].id IN
  /\ At(h, "lookUp")
  /\ old[h] # None
  /\ IF Taken(old[h].name, t) THEN Finish(h)
     ELSE /\ tag' = [tag EXCEPT ![t].st = "available", ![t].name = old[h].name]
          /\ ids' = [ids EXCEPT ![h] = @ \cup {t}]
          /\ old' = [old EXCEPT ![h] = None]
          /\ Skip(h, IF names[h] # {} THEN 0 ELSE IF fresh[h] # {} THEN 1 ELSE 2)
          /\ UNCHANGED <<used, received, req, row, names, fresh, alone>>

\* One statement inserts the tags that are left, or none of them.
Insert(h) ==
  LET absent == {t \in Tags : tag[t].st = "absent"} IN
  /\ At(h, "insert")
  /\ \/ (\E n \in fresh[h] : Named(n) # {}) /\ Finish(h)
     \/ /\ \A n \in fresh[h] : Named(n) = {}
        /\ \E id \in [fresh[h] -> absent] :
             LET new == {id[n] : n \in fresh[h]} IN
             /\ \A m, n \in fresh[h] : id[m] = id[n] => m = n
             /\ tag' = [t \in Tags |-> IF t \in new
                          THEN NewTag(CHOOSE n \in fresh[h] : id[n] = t) ELSE tag[t]]
             /\ ids' = [ids EXCEPT ![h] = @ \cup new]
        /\ fresh' = [fresh EXCEPT ![h] = {}]
        /\ Advance(h)
        /\ UNCHANGED <<used, received, req, row, old, names, alone>>

\* CreateOrUpdateTagRelList, whose statements are in QuestionLifecycle.
Relate(h) ==
  /\ At(h, "relate")
  /\ used' = ids[h]
  /\ Advance(h)
  /\ UNCHANGED <<tag, received, req, locals, alone>>

-----------------------------------------------------------------------------
(* Synonyms *)

\* Whether an operation goes on with the tag GetTagByID has read.
Wanted(r) ==
  LET t == tag[r.tag] IN
  /\ Available(r.tag)
  /\ r.op = "synonyms" => t.name \notin r.names
  /\ r.op = "approve" => t.main = None

ReadTag(h) ==
  /\ At(h, "readTag")
  /\ \/ ~Wanted(req[h]) /\ Finish(h)
     \* "If the content is the same, ignore it"
     \/ req[h].op = "edit" /\ req[h].name = tag[req[h].tag].name /\ Finish(h)
     \/ /\ Wanted(req[h])
        /\ row' = [row EXCEPT ![h] = tag[req[h].tag]]
        /\ Advance(h)
        /\ UNCHANGED <<tag, used, received, req, old, names, fresh, ids, alone>>

NonZero(new, kept) == IF new = None THEN kept ELSE new

\* UpdateTag writes the row back as it was read, with the new name; the
\* columns that are zero are not written.  A main tag with a name goes on
\* to its synonyms.
Write(h) ==
  LET t == req[h].tag
      n == req[h].name IN
  /\ At(h, "write")
  /\ IF Taken(NonZero(n, tag[t].name), t) THEN Finish(h)
     ELSE /\ tag' = [tag EXCEPT ![t] =
                       [st |-> "available",
                        name |-> NonZero(n, @.name),
                        main |-> NonZero(row[h].main, @.main),
                        mainName |-> NonZero(row[h].mainName, @.mainName)]]
          /\ Skip(h, IF row[h].main = None /\ n # None THEN 1 ELSE 3)
          /\ UNCHANGED <<used, received, req, locals, alone>>

\* Mutant: the synonyms are listed as they were asked for, none in an edit.
SynonymNamesOfList(h) ==
  {tag[t].name : t \in Synonyms(req[h].tag)} \cap req[h].names

\* What GetTagList finds; for new synonyms, what has to go of it.
SynonymNames(h) ==
  {tag[t].name : t \in Synonyms(req[h].tag)} \ req[h].names

ListSynonyms(h) ==
  /\ At(h, "listSynonyms")
  /\ names' = [names EXCEPT ![h] = SynonymNames(h)]
  /\ Advance(h)
  /\ UNCHANGED <<tag, used, received, req, row, old, fresh, ids, alone>>

\* Mutant: only the id must be written.
LinkedById(r, m, n) == [r EXCEPT !.main = m, !.mainName = NonZero(n, @)]

\* The repository's UpdateTagSynonym: both columns, whatever they hold.
Linked(r, m, n) == [r EXCEPT !.main = m, !.mainName = n]

LinkAll(list, m, n) ==
  tag' = [t \in Tags |-> IF tag[t].name \in list THEN Linked(tag[t], m, n) ELSE tag[t]]

Drop(h) ==
  /\ At(h, "drop")
  /\ LinkAll(names[h], None, None)
  /\ Advance(h)
  /\ UNCHANGED <<used, received, req, locals, alone>>

\* New synonyms get the main tag and its name.  After an edit the synonyms get
\* what the main tag has as the name of its own main tag.
Link(h) ==
  /\ At(h, "link")
  /\ IF req[h].op = "synonyms" THEN LinkAll(req[h].names, req[h].tag, row[h].name)
                               ELSE LinkAll(names[h], req[h].tag, row[h].mainName)
  /\ Advance(h)
  /\ UNCHANGED <<used, received, req, locals, alone>>

-----------------------------------------------------------------------------
(* Deleting and recovering *)

CountUses(h) == Check(h, "countUses", req[h].tag \notin used)
CountSynonyms(h) == Check(h, "countSynonyms", Synonyms(req[h].tag) = {})
ReadDeleted(h) == Check(h, "readDeleted", tag[req[h].tag].st = "deleted")

SetStatus(h, s, st) ==
  /\ At(h, s)
  /\ tag' = [tag EXCEPT ![req[h].tag].st = st]
  /\ Advance(h)
  /\ UNCHANGED <<used, received, req, locals, alone>>

Delete(h) == SetStatus(h, "delete", "deleted")
Recover(h) == SetStatus(h, "recover", "available")

-----------------------------------------------------------------------------
\* The revision and the activity that an operation ends with change no tag.
Reply(h) == At(h, "reply") /\ Finish(h)

\* A statement fails and the request ends, or the process dies.
Fail(h) == StatementsFail /\ Busy(h) /\ Finish(h)

Step(h) ==
  \/ CheckName(h) \/ ListNames(h) \/ (\E n \in Names : LookUp(h, n)) \/ Revive(h)
  \/ Insert(h) \/ Relate(h)
  \/ ReadTag(h) \/ Write(h) \/ ListSynonyms(h) \/ Drop(h) \/ Link(h)
  \/ CountUses(h) \/ CountSynonyms(h) \/ ReadDeleted(h) \/ Delete(h) \/ Recover(h)
  \/ Reply(h)

Next == \E h \in Handlers : (\E r \in Requests : Receive(h, r)) \/ Step(h) \/ Fail(h)

Spec == Init /\ [][Next]_vars

-----------------------------------------------------------------------------
(* Properties *)

TypeOK ==
  /\ tag \in [Tags -> TagRow]
  /\ used \subseteq Tags
  /\ received \in 0..MaxRequests
  /\ todo \in [Handlers -> Seq(Statements)]
  /\ req \in [Handlers -> Requests \cup {None}]
  /\ \A h \in Handlers : Busy(h) <=> req[h] # None
  /\ row \in [Handlers -> TagRow \cup {None}]
  /\ old \in [Handlers -> [id : Tags, name : Names] \cup {None}]
  /\ names \in [Handlers -> SUBSET Names] /\ fresh \in [Handlers -> SUBSET Names]
  /\ ids \in [Handlers -> SUBSET Tags]
  /\ alone \in [Handlers -> BOOLEAN]

\* A tag with the name of a main tag has a main tag, however edits that write a
\* whole row back overlap with changes of its two columns (UpdateTag and
\* UpdateTagSynonym): the pages tell a synonym by the name, lists by the id.
NameHasMain == \A t \in Tags : tag[t].mainName # None => tag[t].main # None

\* When the synonyms of a tag have been changed, they are the tags of the names
\* that were asked for, new ones, deleted ones and those of other tags included,
\* whatever requests that failed or overlapped before had left (UpdateTagSynonym).
SynonymsAsAsked ==
  [][\A h \in Handlers : Link(h) /\ req[h].op = "synonyms" /\ alone[h] =>
       {tag'[t].name : t \in {s \in Tags : /\ tag'[s].st = "available"
                                           /\ tag'[s].main = req[h].tag}} = req[h].names]_vars

\* When a main tag has been edited, no synonym that is available goes by the
\* name it had before (UpdateTag).
NoFormerName ==
  [][\A h \in Handlers : Link(h) /\ req[h].op = "edit" /\ alone[h] =>
       \A t \in Synonyms(req[h].tag) : tag'[t].mainName \in {None, tag'[req[h].tag].name}]_vars

\* "if main tag slug name is not empty, this tag is synonymous with the main
\* tag": between requests a synonym has the name of its main tag.
SynonymIsNamed ==
  (\A h \in Handlers : ~Busy(h)) =>
    \A t \in Tags : Available(t) /\ tag[t].main # None => tag[t].mainName # None

\* A tag is no synonym of itself (TagCannotSetSynonymAsItself).
NoSelfSynonym == \A t \in Tags : tag[t].main # t

\* "if tag is synonyms get original tag info" (GetTagInfo): the main tag of a
\* synonym is no synonym itself.
OriginalIsMain == \A t \in Tags : tag[t].main # None => tag[tag[t].main].main = None

\* "If the tag has associated problems, it cannot be deleted."
UsedIsAvailable == \A t \in used : Available(t)
=============================================================================
