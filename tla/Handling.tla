------------------------------ MODULE Handling ------------------------------
(***************************************************************************)
(* What the components whose requests are lists of statements have in      *)
(* common: the handlers, goroutines that serve one request after the       *)
(* other, and what each has left to do.                                    *)
(***************************************************************************)
EXTENDS Integers, Sequences

CONSTANTS
  Handlers,
  NoRequest,    \* what an idle handler serves
  MaxRequests   \* bound: how many requests are received in all

VARIABLES
  received,     \* how many requests have been received
  todo, req     \* of every handler: the statements left, and the request

Busy(h) == todo[h] # <<>>
At(h, s) == Busy(h) /\ Head(todo[h]) = s
=============================================================================
