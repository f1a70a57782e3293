------------------------------ MODULE Timeline ------------------------------
(***************************************************************************)
(* What undo promises, without a tree: every text ever recorded stays      *)
(* available unchanged, moving in time shows exactly one of them, and      *)
(* edits not yet recorded are recorded before they are moved away from.    *)
(***************************************************************************)
EXTENDS Integers

CONSTANT Text

VARIABLES
    past,       \* the recorded texts, numbered from 0
    count,      \* how many there are
    at,         \* the one last recorded or moved to
    shown,      \* the text in the buffer
    unrecorded  \* whether the buffer has edits that are not recorded

timeVars == <<past, count, at, shown, unrecorded>>

Init ==
    /\ shown \in Text
    /\ count = 1
    /\ past = [i \in 0 .. 0 |-> shown]
    /\ at = 0
    /\ unrecorded = FALSE

Type ==
    /\ shown' \in Text
    /\ unrecorded' \in (IF unrecorded THEN BOOLEAN ELSE {TRUE})
    /\ ~unrecorded' => shown' = past[at]
    /\ UNCHANGED <<past, count, at>>

Recorded == [i \in 0 .. count |-> IF i = count THEN shown ELSE past[i]]

\* Record the edits, if there are any, then show some recorded text.
Travel ==
    /\ IF unrecorded THEN past' = Recorded /\ count' = count + 1
                     ELSE UNCHANGED <<past, count>>
    /\ at' \in 0 .. count' - 1
    /\ shown' = past'[at']
    /\ unrecorded' = FALSE

Next == Type \/ Travel

Spec == Init /\ [][Next]_timeVars
=============================================================================
