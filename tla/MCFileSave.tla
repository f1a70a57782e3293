----------------------------- MODULE MCFileSave -----------------------------
(* Model values for the runs of module FileSave. *)
EXTENDS FileSave, TLC

CONSTANTS t1, t2, v1

TextSymmetry == Permutations(Text)

\* Recorded jumps change nothing else.
WithoutJumps == <<bufferVars, focus, [v \in Views |-> views[v].rev], crashed, levelVars,
                  clock, saveVars>>
=============================================================================
