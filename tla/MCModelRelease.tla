--------------------------- MODULE MCModelRelease ---------------------------
(* Two terminals, two names, one training after an earlier one, two           *)
(* deployments.                                                               *)
EXTENDS ModelRelease, TLC

Sym == Permutations(Clients) \cup Permutations(Names)
=============================================================================
