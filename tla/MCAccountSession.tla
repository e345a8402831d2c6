-------------------------- MODULE MCAccountSession --------------------------
(* The instances of AccountSession that TLC checks. *)
EXTENDS AccountSession, TLC

CONSTANTS t1, t2, h1, h2

Symmetry == Permutations(Handlers) \cup Permutations(Tokens)
=============================================================================
