--------------------------- MODULE MCTurnPipeline ---------------------------
(* Definitions for the small instances of TurnPipeline. *)
EXTENDS TurnPipeline, TLC

\* The turns are interchangeable: no action compares them.
TurnSymmetry == Permutations(Turns)
=============================================================================
