----------------------------- MODULE MCDocument -----------------------------
(* Model values for the runs of module Document. *)
EXTENDS Document, TLC

CONSTANTS t1, t2, t3, v1, v2

TextSymmetry == Permutations(Text)

TextViewSymmetry == Permutations(Text) \cup Permutations(Views)

\* Recorded jumps change nothing else.
WithoutJumps == <<bufferVars, focus, [v \in Views |-> views[v].rev], crashed, levelVars, clock>>
=============================================================================
