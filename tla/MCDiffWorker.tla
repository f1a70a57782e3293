---------------------------- MODULE MCDiffWorker ----------------------------
(* TLC gives the bounds of module DiffWorker their values in the cfg files. *)
EXTENDS DiffWorker
=============================================================================
