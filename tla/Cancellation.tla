---------------------------- MODULE Cancellation ----------------------------
(***************************************************************************)
(* What a task controller promises, without generations, counts and        *)
(* notifications: a task runs as long as one of its handles is left; it    *)
(* ends for all of them at one moment and never comes back, only restart   *)
(* begins another; and nobody is told of a cancellation while his task     *)
(* runs.                                                                   *)
(***************************************************************************)
CONSTANT Slots

VARIABLES
    running,    \* the handles of the task that runs
    told,       \* the handles that know they were canceled
    is_running  \* what the controller answers

cancelVars == <<running, told, is_running>>

Init == running = {} /\ told = {} /\ is_running = FALSE

Becomes(task) ==
    /\ running' = task
    /\ is_running' = (task # {})
    /\ UNCHANGED told

End == Becomes({})

Restart == \E h \in Slots \ told : Becomes({h})

\* A handle is made from another one that still runs.
Clone == running # {} /\ \E c \in Slots \ told : Becomes(running \cup {c})

Drop == \E h \in running : Becomes(running \ {h})

\* Some of those that do not run learn that they were canceled.
Tell ==
    /\ \E news \in SUBSET (Slots \ running) : told' = told \cup news
    /\ UNCHANGED <<running, is_running>>

\* A handle that knew is gone.
Forget ==
    /\ \E h \in told : told' = told \ {h}
    /\ UNCHANGED <<running, is_running>>

Next == End \/ Restart \/ Clone \/ Drop \/ Tell \/ Forget

Spec == Init /\ [][Next]_cancelVars
=============================================================================
