--------------------------- MODULE MCStageServer ---------------------------
(* TLC instances of StageServer. *)
EXTENDS StageServer, TLC

Symmetry == Permutations(Handlers) \cup Permutations(Chunks) \cup Permutations(Names)
=============================================================================
