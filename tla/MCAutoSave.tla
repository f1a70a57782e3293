----------------------------- MODULE MCAutoSave -----------------------------
(* Model values for the run of module AutoSave. *)
EXTENDS AutoSave

CONSTANTS d1, d2
=============================================================================
