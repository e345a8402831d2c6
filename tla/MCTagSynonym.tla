--------------------------- MODULE MCTagSynonym ---------------------------
(* The instances of TagSynonym that TLC checks. *)
EXTENDS TagSynonym, TLC

CONSTANTS t1, t2, t3, n1, n2, n3, h1, h2

\* Two tags exist at first.
TwoTags == t1 :> n1 @@ t2 :> n2 @@ t3 :> None
NoneOrTwo == {{}, {n2}, {n3}, {n2, n3}}
Symmetry == Permutations(Handlers)
=============================================================================
