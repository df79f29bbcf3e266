------------------------- MODULE MCKnowledgeSources -------------------------
(* Two server processes on one checkpoint. *)
EXTENDS KnowledgeSources, TLC

ProcessSymmetry == Permutations(Process)

=============================================================================
