---------------------------- MODULE MCCompletion ----------------------------
(* TLC gives the constants of module Completion their values in the cfg    *)
(* files: one server whose lists may be incomplete and one list of words.  *)
EXTENDS Completion, TLC
CONSTANTS v1, v2
Symmetric == Permutations(Views)
=============================================================================
