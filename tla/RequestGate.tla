---------------------------- MODULE RequestGate ----------------------------
(***************************************************************************)
(* What stands in the cache between a request and the service that serves  *)
(* it: the record of requests that may not be repeated, the count of what  *)
(* a user did lately, and the captcha codes that are out.  Entries lapse   *)
(* by themselves; reading and writing one are two steps.                   *)
(***************************************************************************)
EXTENDS Naturals, FiniteSets

CONSTANTS
  Users, Requests, Codes,
  By,      \* By[r]: who sends request r
  Kind,    \* Kind[r]: the action it is counted as
  Code,    \* Code[r]: the code it carries, or NoCode
  NoCode,
  Wrong,   \* the requests whose answer to the code is wrong
  Limit    \* Limit[k]: how often action k is free within the time of a count

Kinds == {"question", "answer", "comment", "edit", "delete", "invitation", "report", "vote"}

ASSUME GateAssumption ==
  /\ By \in [Requests -> Users]
  /\ Kind \in [Requests -> Kinds]
  /\ NoCode \notin Codes
  /\ Code \in [Requests -> Codes \cup {NoCode}]
  /\ Wrong \subseteq Requests
  /\ Limit \in [Kinds -> Nat \ {0}]

VARIABLES
  record,  \* the requests that are recorded, and rejected if they come again
  acts,    \* how often each user did each action, and whether just now
  code     \* of every code: not out yet, out, or taken back

gate == <<record, acts, code>>

Acts == [num : Nat, recent : BOOLEAN]
NoActs == [num |-> 0, recent |-> FALSE]
CodeStates == {"new", "live", "used"}

GateTypeOK ==
  /\ record \subseteq Requests
  /\ acts \in [Users -> [Kinds -> Acts]]
  /\ code \in [Codes -> CodeStates]

GateInit ==
  /\ record = {}
  /\ acts = [u \in Users |-> [k \in Kinds |-> NoActs]]
  /\ code = [c \in Codes |-> "new"]

\* An edit, an invitation or a vote may follow another at once; the others may not.
Spaced == {"question", "answer", "comment", "delete", "report"}

\* Mutant: the count is compared one too late.
MayPassOnceMore(u, k) ==
  \/ acts[u][k].num = 0
  \/ acts[u][k].num <= Limit[k] /\ ~(k \in Spaced /\ acts[u][k].recent)

\* An action is free while it is not too fast and not too frequent.
MayPass(u, k) ==
  \/ acts[u][k].num = 0
  \/ acts[u][k].num < Limit[k] /\ ~(k \in Spaced /\ acts[u][k].recent)

\* The code of request r is out, and its answer is compared.
Compared(r) == Code[r] \in Codes /\ code[Code[r]] = "live"

Solved(r) == Compared(r) /\ r \notin Wrong

Put(r) == record' = record \cup {r}

Clear(r) == record' = record \ {r}

\* Mutant: only a right answer takes the code back.
BurnIfRight(r) ==
  code' = [c \in Codes |-> IF c = Code[r] /\ Solved(r) THEN "used" ELSE code[c]]

\* A code that is out is taken back, whether its answer was right or wrong.
Burn(r) ==
  code' = [c \in Codes |-> IF c = Code[r] /\ Compared(r) THEN "used" ELSE code[c]]

\* Mutant: the count starts anew with every action.
BumpFromNothing(r, n) ==
  acts' = [acts EXCEPT ![By[r]][Kind[r]] = [num |-> 1, recent |-> TRUE]]

\* The action of request r is counted, on top of the n that were read.
Bump(r, n) ==
  acts' = [acts EXCEPT ![By[r]][Kind[r]] = [num |-> n + 1, recent |-> TRUE]]

\* A client asks whether it needs a code; if it does, one is handed out.
ActionRecord(c) ==
  /\ code[c] = "new"
  /\ \E u \in Users, k \in Kinds : ~MayPass(u, k)
  /\ code' = [code EXCEPT ![c] = "live"]
  /\ UNCHANGED <<record, acts>>
=============================================================================
