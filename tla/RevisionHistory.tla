-------------------------- MODULE RevisionHistory --------------------------
(***************************************************************************)
(* What editing promises a reader: an object shows one text; an edit is   *)
(* made at once or waits, alone, to be approved or rejected; and while it *)
(* waits nothing else changes the text it was written against.            *)
(***************************************************************************)
CONSTANTS Objects, Texts, Nothing

VARIABLES shown, proposed

Edit(o, t) ==
  /\ proposed[o] = Nothing
  /\ shown' = [shown EXCEPT ![o] = t]
  /\ UNCHANGED proposed

Propose(o, t) ==
  /\ proposed[o] = Nothing
  /\ proposed' = [proposed EXCEPT ![o] = t]
  /\ UNCHANGED shown

Approve(o) ==
  /\ proposed[o] # Nothing
  /\ shown' = [shown EXCEPT ![o] = proposed[o]]
  /\ proposed' = [proposed EXCEPT ![o] = Nothing]

Reject(o) ==
  /\ proposed[o] # Nothing
  /\ proposed' = [proposed EXCEPT ![o] = Nothing]
  /\ UNCHANGED shown

Init ==
  /\ shown \in [Objects -> Texts]
  /\ proposed = [o \in Objects |-> Nothing]

Next == \E o \in Objects :
          \/ \E t \in Texts : Edit(o, t) \/ Propose(o, t)
          \/ Approve(o) \/ Reject(o)

Spec == Init /\ [][Next]_<<shown, proposed>>
=============================================================================
