------------------------- MODULE MCTaskController -------------------------
(* Model values for the runs of module TaskController. *)
EXTENDS TaskController, TLC

CONSTANTS h1, h2, h3

SlotSymmetry == Permutations(Slots)
=============================================================================
