---------------------------- MODULE MCRunRegistry ----------------------------
(* TLC instances of RunRegistry. *)
EXTENDS RunRegistry, TLC

CONSTANTS a, b, c, r1, r2

MCNames == {a, b, c}
MCOthers == {r1, r2}
Symmetry == Permutations(MCNames) \cup Permutations(MCOthers)
=============================================================================
