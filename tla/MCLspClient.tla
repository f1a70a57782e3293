---------------------------- MODULE MCLspClient ----------------------------
(* Model values for the runs of module LspClient. *)
EXTENDS LspClient

CONSTANTS d1, c1, r1

\* Bound: there is a new root or an edit or preview, not both at a time.
RootsOrEdits ==
  \A d \in Docs, r \in NewRoots :
    rootTask[r] # "idle" => text[d] = 0 /\ d \notin preview
=============================================================================
