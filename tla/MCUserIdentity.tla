--------------------------- MODULE MCUserIdentity ---------------------------
(* The instances of UserIdentity that TLC checks. *)
EXTENDS UserIdentity, TLC

CONSTANTS a1, a2, i1, i2, h1, h2

\* Two providers give different ids, or the same.
OwnID(i) == i
SameID(i) == 1

Symmetry == Permutations(Emails) \cup Permutations(Handlers) \cup Permutations(Identities)
=============================================================================
