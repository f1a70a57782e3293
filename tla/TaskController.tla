--------------------------- MODULE TaskController ---------------------------
(***************************************************************************)
(* Cancelling background tasks: zmax-event/src/cancel.rs.                  *)
(*                                                                         *)
(* A controller and the handles it gave out share one atomic word, the     *)
(* generation of the current task and the number of its handles.  The      *)
(* controller loads the word and stores a new one; handles are cloned and  *)
(* dropped on other threads with compare-and-swap loops; futures wait on a *)
(* tokio Notify.  Every atomic operation is a step.                        *)
(***************************************************************************)
EXTENDS Integers, FiniteSets

CONSTANTS
    Slots,      \* bound: the handles that may exist at once
    GenLimit,   \* u32::MAX, where the generation saturates
    MaxCalls    \* bound: calls of cancel and restart, the drop included

ASSUME TaskControllerAssumption ==
    IsFiniteSet(Slots) /\ GenLimit \in Nat /\ MaxCalls \in Nat

VARIABLES
    state,      \* Shared::state
    ctl,        \* the controller: where it is in inc_generation, the word it
                \* loaded, the num_running it passes, and whether it is dropped
    handle,     \* the handles
    calls,      \* calls of inc_generation so far
    miscounted  \* the assertion of dec_running failed

taskVars == <<state, ctl, handle, calls, miscounted>>

Words == [gen : Nat, running : Nat]
Zero  == [gen |-> 0, running |-> 0]

\* A slot in which no handle lives.
NoHandle == [st |-> "free", gen |-> 0, seen |-> Zero, of |-> {},
             wait |-> "no", notified |-> FALSE]

TaskInit ==
    /\ state = Zero
    /\ ctl = [at |-> "idle", seen |-> Zero, num_running |-> 0, last |-> FALSE]
    /\ handle = [h \in Slots |-> NoHandle]
    /\ calls = 0
    /\ miscounted = FALSE

is_canceled(h) == handle[h].gen # state.gen

-----------------------------------------------------------------------------
(* The controller. *)

\* Mutant: the generation wraps round.
GenerationWraps(g) == (g + 1) % 2

NextGeneration(g) == IF g < GenLimit THEN g + 1 ELSE GenLimit

\* Mutant: a cancel that passes no handles is never worth a generation.
FastPathAlways(n) == n = 0

\* No new generation is needed when no handle is left to cancel.
FastPath(n) == state.running = 0 /\ n = 0

Returned == [ctl EXCEPT !.at = IF ctl.last THEN "dropped" ELSE "idle"]

\* inc_generation up to its load: cancel and Drop pass 0 handles.
Cancel(last) ==
    /\ ctl.at = "idle" /\ calls < MaxCalls
    /\ calls' = calls + 1
    /\ ctl' = IF FastPath(0)
              THEN [ctl EXCEPT !.at = IF last THEN "dropped" ELSE "idle", !.last = last]
              ELSE [at |-> "loaded", seen |-> state, num_running |-> 0, last |-> last]
    /\ UNCHANGED <<state, handle, miscounted>>

\* restart passes the 1 handle it will return.
restart(h) ==
    /\ ctl.at = "idle" /\ calls < MaxCalls
    /\ handle[h].st = "free"
    /\ calls' = calls + 1
    /\ ctl' = [at |-> "loaded", seen |-> state, num_running |-> 1, last |-> FALSE]
    /\ handle' = [handle EXCEPT ![h] = [NoHandle EXCEPT !.st = "promised"]]
    /\ UNCHANGED <<state, miscounted>>

\* Mutant: the word is stored and nobody is told.
StoreSilently ==
    /\ ctl.at = "loaded"
    /\ LET g == NextGeneration(ctl.seen.gen)
       IN  /\ state' = [gen |-> g, running |-> ctl.num_running]
           /\ handle' = [h \in Slots |->
                            IF handle[h].st = "promised"
                            THEN [handle[h] EXCEPT !.st = "live", !.gen = g]
                            ELSE handle[h]]
    /\ ctl' = Returned
    /\ UNCHANGED <<calls, miscounted>>

\* Mutant: the new handle is in use before the others are told.
StoreAndHandOver ==
    /\ ctl.at = "loaded"
    /\ LET g == NextGeneration(ctl.seen.gen)
       IN  /\ state' = [gen |-> g, running |-> ctl.num_running]
           /\ handle' = [h \in Slots |->
                            IF handle[h].st = "promised"
                            THEN [handle[h] EXCEPT !.st = "live", !.gen = g]
                            ELSE handle[h]]
    /\ ctl' = [ctl EXCEPT !.at = "stored"]
    /\ UNCHANGED <<calls, miscounted>>

Store ==
    /\ ctl.at = "loaded"
    /\ LET g == NextGeneration(ctl.seen.gen)
       IN  /\ state' = [gen |-> g, running |-> ctl.num_running]
           /\ handle' = [h \in Slots |->
                            IF handle[h].st = "promised"
                            THEN [handle[h] EXCEPT !.st = "born", !.gen = g]
                            ELSE handle[h]]
    /\ ctl' = [ctl EXCEPT !.at = "stored"]
    /\ UNCHANGED <<calls, miscounted>>

\* notify_waiters reaches every Notified future created before it, whether it
\* has been polled or not.  Then inc_generation returns.
notify_waiters ==
    /\ ctl.at = "stored"
    /\ handle' = [h \in Slots |->
                     IF handle[h].wait \in {"armed", "waiting"}
                     THEN [handle[h] EXCEPT !.notified = TRUE]
                     ELSE IF handle[h].st = "born"
                          THEN [handle[h] EXCEPT !.st = "live"]
                          ELSE handle[h]]
    /\ ctl' = Returned
    /\ UNCHANGED <<state, calls, miscounted>>

-----------------------------------------------------------------------------
(* Cloning and dropping handles. *)

\* Clone::clone up to the load of inc_running; c is the handle to be.
clone(h, c) ==
    /\ handle[h].st = "live"
    /\ handle[c].st = "free"
    /\ handle' = [handle EXCEPT ![c] = [NoHandle EXCEPT !.st = "cloning",
                      !.gen = handle[h].gen, !.seen = state, !.of = {h}]]
    /\ UNCHANGED <<state, ctl, calls, miscounted>>

Reload(h) ==
    /\ handle' = [handle EXCEPT ![h].seen = state]
    /\ UNCHANGED <<state, ctl, calls, miscounted>>

Born(c) == [NoHandle EXCEPT !.st = "live", !.gen = handle[c].gen]

\* Mutant: a clone of a canceled handle is counted too.
IncAnyGeneration(c) ==
    /\ handle[c].st = "cloning"
    /\ \/ /\ state = handle[c].seen
          /\ state' = [state EXCEPT !.running = @ + 1]
          /\ handle' = [handle EXCEPT ![c] = Born(c)]
          /\ UNCHANGED <<ctl, calls, miscounted>>
       \/ Reload(c)

\* One round of inc_running's loop.  compare_exchange_weak may fail for no
\* reason.
inc_running(c) ==
    /\ handle[c].st = "cloning"
    /\ \/ /\ handle[c].seen.gen # handle[c].gen
          /\ handle' = [handle EXCEPT ![c] = Born(c)]
          /\ UNCHANGED <<state, ctl, calls, miscounted>>
       \/ /\ handle[c].seen.gen = handle[c].gen
          /\ state = handle[c].seen
          /\ state' = [state EXCEPT !.running = @ + 1]
          /\ handle' = [handle EXCEPT ![c] = Born(c)]
          /\ UNCHANGED <<ctl, calls, miscounted>>
       \/ handle[c].seen.gen = handle[c].gen /\ Reload(c)

\* Drop::drop up to the load of dec_running.  Nothing borrows the handle.
drop(h) ==
    /\ handle[h].st = "live"
    /\ handle[h].wait \in {"no", "done"}
    /\ \A c \in Slots : h \notin handle[c].of
    /\ handle' = [handle EXCEPT ![h].st = "dropping", ![h].seen = state]
    /\ UNCHANGED <<state, ctl, calls, miscounted>>

\* Mutants: the count is lowered without a look at what was loaded; a canceled
\* handle is taken off the count of the current ones.
DecUnchecked(h) ==
    /\ handle[h].st = "dropping"
    /\ state' = [state EXCEPT !.running = @ - 1]
    /\ handle' = [handle EXCEPT ![h] = NoHandle]
    /\ UNCHANGED <<ctl, calls, miscounted>>

DecAnyGeneration(h) ==
    /\ handle[h].st = "dropping"
    /\ \/ /\ handle[h].seen.running = 0
          /\ miscounted' = TRUE
          /\ handle' = [handle EXCEPT ![h] = NoHandle]
          /\ UNCHANGED <<state, ctl, calls>>
       \/ /\ handle[h].seen.running # 0
          /\ state = handle[h].seen
          /\ state' = [state EXCEPT !.running = @ - 1]
          /\ handle' = [handle EXCEPT ![h] = NoHandle]
          /\ UNCHANGED <<ctl, calls, miscounted>>
       \/ Reload(h)

\* One round of dec_running's loop.
dec_running(h) ==
    /\ handle[h].st = "dropping"
    /\ \/ /\ handle[h].seen.gen # handle[h].gen
          /\ handle' = [handle EXCEPT ![h] = NoHandle]
          /\ UNCHANGED <<state, ctl, calls, miscounted>>
       \/ /\ handle[h].seen.gen = handle[h].gen
          /\ handle[h].seen.running = 0
          /\ miscounted' = TRUE
          /\ handle' = [handle EXCEPT ![h] = NoHandle]
          /\ UNCHANGED <<state, ctl, calls>>
       \/ /\ handle[h].seen.gen = handle[h].gen
          /\ handle[h].seen.running # 0
          /\ state = handle[h].seen
          /\ state' = [state EXCEPT !.running = @ - 1]
          /\ handle' = [handle EXCEPT ![h] = NoHandle]
          /\ UNCHANGED <<ctl, calls, miscounted>>
       \/ /\ handle[h].seen.gen = handle[h].gen
          /\ handle[h].seen.running # 0
          /\ Reload(h)

-----------------------------------------------------------------------------
(* Waiting for cancellation: TaskHandle::canceled, as cancelable_future     *)
(* awaits it.                                                               *)

\* The Notified future is created before the generation is looked at.
canceled(h) ==
    /\ handle[h].st = "live" /\ handle[h].wait = "no"
    /\ handle' = [handle EXCEPT ![h].wait = "armed", ![h].notified = FALSE]
    /\ UNCHANGED <<state, ctl, calls, miscounted>>

\* Mutant: the future is awaited without looking at the generation.
AwaitUnchecked(h) ==
    /\ handle[h].wait = "armed"
    /\ handle' = [handle EXCEPT ![h].wait = "waiting"]
    /\ UNCHANGED <<state, ctl, calls, miscounted>>

Await(h) ==
    /\ handle[h].wait = "armed"
    /\ handle' = [handle EXCEPT ![h].wait = IF is_canceled(h) THEN "done" ELSE "waiting"]
    /\ UNCHANGED <<state, ctl, calls, miscounted>>

Wake(h) ==
    /\ handle[h].wait = "waiting" /\ handle[h].notified
    /\ handle' = [handle EXCEPT ![h].wait = "done"]
    /\ UNCHANGED <<state, ctl, calls, miscounted>>

\* The other future is ready first.
Finish(h) ==
    /\ handle[h].wait = "waiting" /\ ~handle[h].notified
    /\ handle' = [handle EXCEPT ![h].wait = "no"]
    /\ UNCHANGED <<state, ctl, calls, miscounted>>

ControllerStep == Store \/ notify_waiters

TaskNext ==
    \/ \E last \in BOOLEAN : Cancel(last)
    \/ \E h \in Slots : restart(h)
    \/ ControllerStep
    \/ \E h, c \in Slots : clone(h, c)
    \/ \E h \in Slots : inc_running(h)
    \/ \E h \in Slots : drop(h)
    \/ \E h \in Slots : dec_running(h)
    \/ \E h \in Slots : canceled(h)
    \/ \E h \in Slots : Await(h)
    \/ \E h \in Slots : Wake(h)
    \/ \E h \in Slots : Finish(h)

\* inc_generation does not block, and a woken task is polled.
TaskSpec ==
    /\ TaskInit /\ [][TaskNext]_taskVars
    /\ WF_taskVars(ControllerStep)
    /\ \A h \in Slots : WF_taskVars(Await(h)) /\ WF_taskVars(Wake(h))

-----------------------------------------------------------------------------
(* Properties. *)

Controllers == [at : {"idle", "loaded", "stored", "dropped"}, seen : Words,
                num_running : {0, 1}, last : BOOLEAN]

Handles == [st : {"free", "promised", "born", "cloning", "live", "dropping"},
            gen : Nat, seen : Words, of : SUBSET Slots,
            wait : {"no", "armed", "waiting", "done"}, notified : BOOLEAN]

\* The shared word holds two unsigned halves and never goes below zero; the
\* controller and the handles are in one of the places their code can be.
TaskTypeOK ==
    /\ state \in Words
    /\ ctl \in Controllers
    /\ handle \in [Slots -> Handles]
    /\ calls \in Nat
    /\ miscounted \in BOOLEAN

\* The handles the count stands for: those of the current generation that
\* exist, also while they are being dropped.
Counted(h) ==
    /\ handle[h].st \in {"born", "live", "dropping"}
    /\ ~is_canceled(h)

\* The count is exact whatever cancels, restarts, clones and drops overlap, so
\* is_running tells the truth ("whether there are any task handles that
\* haven't been dropped (or canceled) yet").
CountIsExact == state.running = Cardinality({h \in Slots : Counted(h)})

\* dec_running's assertion never fails ("running can't be zero here, that
\* would mean we miscounted somewhere").
NeverMiscounts == ~miscounted

\* A canceled handle never becomes current again.
CanceledForever ==
    [][\A h \in Slots :
          /\ handle[h].st \in {"live", "dropping"} /\ is_canceled(h)
          /\ handle'[h].st \in {"live", "dropping"}
          => is_canceled(h)']_taskVars

\* When cancel or a drop of the controller returns, by the fast path too, no
\* handle of the task it canceled is current; after restart only the new one
\* is ("cancels the previous task (handles)").
CancelReachesAll ==
    [][(ctl.at = "loaded" \/ calls' # calls) /\ ctl'.at # "loaded"
          => \A h \in Slots :
                handle[h].st \in {"live", "dropping"} => is_canceled(h)']_taskVars

\* No wake-up is lost: a task that waits although it has been canceled has been
\* notified, or the controller is about to do so.
WaitersAreNotified ==
    \A h \in Slots :
        handle[h].wait = "waiting" /\ is_canceled(h)
            => handle[h].notified \/ ctl.at = "stored"

\* A handle in use that has been notified, or has found out by itself.
Told(h) == handle[h].st = "live" /\ (handle[h].notified \/ handle[h].wait = "done")

\* Only a canceled task is ever told so: cancelable_future gives up a result
\* for no other reason.
OnlyCanceledAreTold == \A h \in Slots : Told(h) => is_canceled(h)

\* The controller and its handles keep the promise of module Cancellation.
Promise == INSTANCE Cancellation WITH
    running <- {h \in Slots : Counted(h)},
    told <- {h \in Slots : Told(h)},
    is_running <- state.running # 0

\* One word, compare-and-swap loops and a Notify do what the interface of
\* TaskController says: cancel ends a task for all its handles at one moment, a
\* task without handles never runs again, is_running answers accordingly, and
\* only a handle that does not run is told so ("cancels the previous task
\* (handles)", "any task handles that haven't been dropped (or canceled) yet").
KeepsCancellationPromise == Promise!Spec

\* A canceled task that waits for its cancellation learns of it ("Waits until
\* TaskController::cancel is called").
CanceledTasksWake ==
    \A h \in Slots :
        handle[h].wait \in {"armed", "waiting"} /\ is_canceled(h)
            ~> handle[h].wait \in {"no", "done"}
=============================================================================
