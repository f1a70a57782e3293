------------------------ MODULE TaskControllerProofs ------------------------
(***************************************************************************)
(* Safety of module TaskController for any number of handles and any       *)
(* interleaving of its atomic steps, as long as the generation does not    *)
(* saturate.                                                               *)
(*                                                                         *)
(* The count is inductive only together with how old the words are that    *)
(* the controller and the handles have loaded: a handle that finds its     *)
(* generation gone must be right for good, one that finds it current must  *)
(* really be counted.                                                      *)
(***************************************************************************)
EXTENDS TaskController, FiniteSetTheorems, TLAPS

\* There is a generation left for every call.
Unsaturated == MaxCalls <= GenLimit

GenerationsGrow ==
    /\ state.gen <= calls /\ calls <= MaxCalls
    /\ ctl.at = "loaded" => ctl.seen.gen = state.gen /\ state.gen < calls

\* Nothing is newer than the shared word, and what a handle loaded is no older
\* than the handle.
NothingNewer ==
    \A h \in Slots :
        /\ handle[h].gen <= state.gen
        /\ handle[h].seen.gen <= state.gen
        /\ handle[h].st \in {"cloning", "dropping"} => handle[h].gen <= handle[h].seen.gen

PromisedSlots == {h \in Slots : handle[h].st = "promised"}

\* restart has set aside the one slot it will fill.
OnePromise ==
    IF ctl.at = "loaded" /\ ctl.num_running = 1
    THEN \E p \in Slots : PromisedSlots = {p}
    ELSE PromisedSlots = {}

\* Only a handle in use waits, and one is in the making only while its maker
\* is at work.
HandleShape ==
    \A h \in Slots :
        /\ handle[h].wait \in {"armed", "waiting"} => handle[h].st = "live"
        /\ handle[h].st \in {"free", "promised", "born", "cloning"}
              => handle[h].wait = "no" /\ handle[h].notified = FALSE
        /\ handle[h].st = "born" => ctl.at = "stored"

\* Between the store and the notification every handle in use is canceled.
OldAreCanceled ==
    ctl.at = "stored" =>
        \A h \in Slots :
            handle[h].st \in {"live", "dropping", "cloning"} => handle[h].gen # state.gen

\* A handle about to leave the count saw itself in it.
DropSawItself ==
    \A h \in Slots :
        handle[h].st = "dropping" /\ handle[h].seen.gen = handle[h].gen
            => handle[h].seen.running # 0

TaskInv ==
    /\ TaskTypeOK
    /\ GenerationsGrow
    /\ NothingNewer
    /\ OnePromise
    /\ HandleShape
    /\ OldAreCanceled
    /\ DropSawItself
    /\ CountIsExact
    /\ NeverMiscounts
    /\ WaitersAreNotified
    /\ OnlyCanceledAreTold

CountedHandles == {h \in Slots : Counted(h)}

\* The handles the count stands for are finitely many: there are finitely many
\* slots.
LEMMA CountedFinite == IsFiniteSet(CountedHandles) /\ Cardinality(CountedHandles) \in Nat
  <1>1. CountedHandles \in SUBSET Slots
    BY DEF CountedHandles
  <1>2. IsFiniteSet(CountedHandles)
    BY <1>1, TaskControllerAssumption, FS_Subset
  <1> QED
    BY <1>2, FS_CardinalityType

\* No handle is counted while the count is zero, the case of inc_generation's
\* fast path.
LEMMA NoneCounted ==
  ASSUME CountIsExact, state.running = 0
  PROVE  \A h \in Slots : ~Counted(h)
  <1>1. Cardinality(CountedHandles) = 0
    BY DEF CountIsExact, CountedHandles
  <1>2. CountedHandles = {}
    BY <1>1, CountedFinite, FS_EmptySet
  <1> QED
    BY <1>2 DEF CountedHandles

\* The controller as TaskController::new makes it satisfies the invariant.
LEMMA InitTaskInv == TaskInit => TaskInv
  <1> SUFFICES ASSUME TaskInit PROVE TaskInv
    OBVIOUS
  <1>1. TaskTypeOK
    BY DEF TaskInit, TaskTypeOK, Controllers, Handles, Words, Zero, NoHandle
  <1>2. GenerationsGrow /\ NothingNewer /\ OldAreCanceled /\ DropSawItself
    BY TaskControllerAssumption
    DEF TaskInit, GenerationsGrow, NothingNewer, OldAreCanceled, DropSawItself, Zero, NoHandle
  <1>3. OnePromise /\ HandleShape
    BY DEF TaskInit, OnePromise, PromisedSlots, HandleShape, NoHandle
  <1>4. CountIsExact
    <2>1. {h \in Slots : Counted(h)} = {}
      BY DEF TaskInit, Counted, NoHandle
    <2> QED
      BY <2>1, FS_EmptySet DEF CountIsExact, TaskInit, Zero
  <1>5. NeverMiscounts /\ WaitersAreNotified /\ OnlyCanceledAreTold
    BY DEF TaskInit, NeverMiscounts, WaitersAreNotified, OnlyCanceledAreTold, Told, NoHandle
  <1> QED
    BY <1>1, <1>2, <1>3, <1>4, <1>5 DEF TaskInv

\* cancel and drop up to the load: by the fast path nothing changes, else the
\* controller holds the current word.
LEMMA CancelKeeps ==
  ASSUME TaskInv, NEW last \in BOOLEAN, Cancel(last)
  PROVE  TaskInv'
  <1> USE DEF TaskInv, Cancel
  <1>1. TaskTypeOK'
    <2>1. ctl' \in Controllers
      <3>1. CASE FastPath(0) /\ last
        BY <3>1 DEF TaskTypeOK, Controllers
      <3>2. CASE FastPath(0) /\ ~last
        BY <3>2 DEF TaskTypeOK, Controllers
      <3>3. CASE ~FastPath(0)
        BY <3>3 DEF TaskTypeOK, Controllers
      <3> QED
        BY <3>1, <3>2, <3>3
    <2> QED
      BY <2>1 DEF TaskTypeOK, Controllers, Handles
  <1>2. GenerationsGrow'
    BY TaskControllerAssumption DEF GenerationsGrow, TaskTypeOK, Controllers, Handles, Words
  <1>3. NothingNewer' /\ DropSawItself'
    BY DEF NothingNewer, DropSawItself
  <1>4. OnePromise'
    <2>1. ~(ctl.at = "loaded" /\ ctl.num_running = 1)
      OBVIOUS
    <2>2. ~(ctl'.at = "loaded" /\ ctl'.num_running = 1)
      BY DEF TaskTypeOK, Controllers, Handles
    <2>3. PromisedSlots' = PromisedSlots
      BY DEF PromisedSlots
    <2> QED
      BY <2>1, <2>2, <2>3 DEF OnePromise
  <1>5. ctl.at # "stored" /\ ctl'.at # "stored"
    BY DEF TaskTypeOK, Controllers, Handles
  <1>6. HandleShape' /\ OldAreCanceled'
    BY <1>5 DEF HandleShape, OldAreCanceled
  <1>7. CountIsExact' /\ NeverMiscounts'
    BY DEF CountIsExact, Counted, is_canceled, NeverMiscounts
  <1>8. WaitersAreNotified' /\ OnlyCanceledAreTold'
    BY <1>5 DEF WaitersAreNotified, OnlyCanceledAreTold, Told, is_canceled
  <1> QED
    BY <1>1, <1>2, <1>3, <1>4, <1>6, <1>7, <1>8

\* restart up to the load: the slot set aside is not counted yet.
LEMMA RestartKeeps ==
  ASSUME TaskInv, NEW r \in Slots, restart(r)
  PROVE  TaskInv'
  <1> USE DEF TaskInv, restart
  <1>1. TaskTypeOK'
    <2>1. [NoHandle EXCEPT !.st = "promised"] \in Handles
      BY DEF Handles, NoHandle, Words, Zero
    <2> QED
      BY <2>1 DEF TaskTypeOK, Controllers, Handles
  <1>2. GenerationsGrow'
    BY TaskControllerAssumption DEF GenerationsGrow, TaskTypeOK, Controllers, Handles, Words
  <1>3. NothingNewer' /\ DropSawItself'
    BY DEF NothingNewer, DropSawItself, NoHandle, Zero, TaskTypeOK, Controllers, Handles, Words
  <1>4. OnePromise'
    <2>1. PromisedSlots = {}
      BY DEF OnePromise
    <2>2. PromisedSlots' = {r}
      BY <2>1 DEF PromisedSlots, TaskTypeOK, Controllers, Handles, NoHandle
    <2> QED
      BY <2>2 DEF OnePromise
  <1>5. HandleShape' /\ OldAreCanceled'
    BY DEF HandleShape, OldAreCanceled, TaskTypeOK, Controllers, Handles, NoHandle
  <1>6. {h \in Slots : Counted(h)}' = {h \in Slots : Counted(h)}
    BY DEF Counted, is_canceled, TaskTypeOK, Controllers, Handles, NoHandle
  <1>7. CountIsExact' /\ NeverMiscounts'
    BY <1>6 DEF CountIsExact, NeverMiscounts
  <1>8. WaitersAreNotified' /\ OnlyCanceledAreTold'
    BY DEF WaitersAreNotified, OnlyCanceledAreTold, Told, is_canceled, TaskTypeOK, Controllers,
           Handles, NoHandle
  <1> QED
    BY <1>1, <1>2, <1>3, <1>4, <1>5, <1>7, <1>8

\* The store: every handle in use is of an older generation, so the handle
\* restart promised is all that is counted.
LEMMA StoreKeeps ==
  ASSUME Unsaturated, TaskInv, Store
  PROVE  TaskInv'
  <1> DEFINE g == state.gen + 1
  <1> USE DEF TaskInv
  <1>1. /\ state \in Words /\ ctl \in Controllers /\ handle \in [Slots -> Handles]
        /\ ctl.at = "loaded"
    BY DEF TaskTypeOK, Store
  <1>2. NextGeneration(ctl.seen.gen) = g /\ g \in Nat /\ g <= calls
    BY <1>1, TaskControllerAssumption
    DEF Unsaturated, GenerationsGrow, NextGeneration, TaskTypeOK, Words
  <1>3. /\ state' = [gen |-> g, running |-> ctl.num_running]
        /\ handle' = [h \in Slots |->
                         IF handle[h].st = "promised"
                         THEN [handle[h] EXCEPT !.st = "born", !.gen = g]
                         ELSE handle[h]]
        /\ ctl' = [ctl EXCEPT !.at = "stored"]
        /\ calls' = calls /\ miscounted' = miscounted
    BY <1>2 DEF Store
  <1> HIDE DEF g
  <1>4. \A h \in Slots : handle[h].gen \in Nat /\ handle[h].gen < g
    BY <1>1 DEF NothingNewer, Handles, Words, g
  <1>5. \A h \in Slots :
           IF handle[h].st = "promised"
           THEN /\ handle'[h].st = "born" /\ handle'[h].gen = g
                /\ handle'[h].seen = handle[h].seen /\ handle'[h].wait = handle[h].wait
                /\ handle'[h].notified = handle[h].notified
           ELSE handle'[h] = handle[h]
    BY <1>1, <1>3 DEF Handles
  <1>6. ctl'.at = "stored" /\ state'.gen = g /\ state'.running = ctl.num_running
    BY <1>1, <1>3 DEF Controllers
  <1>7. TaskTypeOK'
    <2>1. ctl' \in Controllers
      BY <1>1, <1>3 DEF Controllers
    <2>2. handle' \in [Slots -> Handles]
      <3>1. \A x \in Handles : [x EXCEPT !.st = "born", !.gen = g] \in Handles
        BY <1>2 DEF Handles
      <3> QED
        BY <1>1, <1>3, <3>1
    <2>3. ctl.num_running \in Nat
      BY <1>1 DEF Controllers
    <2>4. state' \in Words
      BY <1>2, <1>3, <2>3 DEF Words
    <2> QED
      BY <1>3, <2>1, <2>2, <2>4 DEF TaskTypeOK
  <1>8. GenerationsGrow'
    BY <1>2, <1>3, <1>6 DEF GenerationsGrow
  <1>9. NothingNewer'
    <2> SUFFICES ASSUME NEW h \in Slots
                 PROVE  /\ handle'[h].gen <= state'.gen
                        /\ handle'[h].seen.gen <= state'.gen
                        /\ handle'[h].st \in {"cloning", "dropping"}
                              => handle'[h].gen <= handle'[h].seen.gen
      BY DEF NothingNewer
    <2>1. handle[h].seen.gen \in Nat /\ handle[h].seen.gen <= g
      BY <1>1, <1>2 DEF NothingNewer, Handles, Words, g
    <2> QED
      BY <1>1, <1>2, <1>4, <1>5, <1>6, <2>1 DEF NothingNewer, Handles
  <1>10. OnePromise'
    <2>1. PromisedSlots' = {}
      BY <1>1, <1>5 DEF PromisedSlots
    <2> QED
      BY <1>6, <2>1 DEF OnePromise
  <1>11. HandleShape'
    BY <1>1, <1>5, <1>6 DEF HandleShape
  <1>12. OldAreCanceled'
    BY <1>1, <1>2, <1>4, <1>5, <1>6 DEF OldAreCanceled
  <1>13. DropSawItself'
    BY <1>1, <1>5 DEF DropSawItself
  <1>14. CountIsExact'
    <2>1. {h \in Slots : Counted(h)}' = PromisedSlots
      <3>1. \A h \in Slots : Counted(h)' <=> handle[h].st = "promised"
        BY <1>1, <1>2, <1>4, <1>5, <1>6 DEF Counted, is_canceled
      <3> QED
        BY <3>1 DEF PromisedSlots
    <2>2. Cardinality(PromisedSlots) = ctl.num_running
      <3>1. CASE ctl.num_running = 1
        <4>1. \E p \in Slots : PromisedSlots = {p}
          BY <1>1, <3>1 DEF OnePromise
        <4> QED
          BY <3>1, <4>1, FS_Singleton
      <3>2. CASE ctl.num_running = 0
        BY <1>1, <3>2, FS_EmptySet DEF OnePromise
      <3> QED
        BY <1>1, <3>1, <3>2 DEF Controllers
    <2> QED
      BY <1>6, <2>1, <2>2 DEF CountIsExact
  <1>15. NeverMiscounts'
    BY <1>3 DEF NeverMiscounts
  <1>16. WaitersAreNotified' /\ OnlyCanceledAreTold'
    BY <1>1, <1>2, <1>4, <1>5, <1>6 DEF WaitersAreNotified, OnlyCanceledAreTold, Told, is_canceled
  <1> QED
    BY <1>7, <1>8, <1>9, <1>10, <1>11, <1>12, <1>13, <1>14, <1>15, <1>16

\* notify_waiters: those it tells are canceled, the new handle does not wait.
LEMMA NotifyKeeps ==
  ASSUME TaskInv, notify_waiters
  PROVE  TaskInv'
  <1> USE DEF TaskInv
  <1>1. /\ state \in Words /\ ctl \in Controllers /\ handle \in [Slots -> Handles]
        /\ ctl.at = "stored"
        /\ state' = state /\ calls' = calls /\ miscounted' = miscounted
    BY DEF TaskTypeOK, notify_waiters
  <1>2. ctl' \in Controllers /\ ctl'.at \in {"idle", "dropped"}
    BY <1>1 DEF notify_waiters, Returned, Controllers
  <1>3. handle' \in [Slots -> Handles]
    <2>1. \A x \in Handles : /\ [x EXCEPT !.notified = TRUE] \in Handles
                             /\ [x EXCEPT !.st = "live"] \in Handles
      BY DEF Handles
    <2> QED
      BY <1>1, <2>1 DEF notify_waiters
  <1>4. \A h \in Slots :
           /\ handle'[h].gen = handle[h].gen /\ handle'[h].seen = handle[h].seen
           /\ handle'[h].wait = handle[h].wait
           /\ handle'[h].st = IF handle[h].st = "born" THEN "live" ELSE handle[h].st
           /\ IF handle[h].wait \in {"armed", "waiting"}
              THEN handle'[h].notified
              ELSE handle'[h].notified = handle[h].notified
    <2> SUFFICES ASSUME NEW h \in Slots
                 PROVE  /\ handle'[h].gen = handle[h].gen /\ handle'[h].seen = handle[h].seen
                        /\ handle'[h].wait = handle[h].wait
                        /\ handle'[h].st = IF handle[h].st = "born" THEN "live" ELSE handle[h].st
                        /\ IF handle[h].wait \in {"armed", "waiting"}
                           THEN handle'[h].notified
                           ELSE handle'[h].notified = handle[h].notified
      OBVIOUS
    <2>1. CASE handle[h].wait \in {"armed", "waiting"}
      BY <1>1, <2>1 DEF notify_waiters, HandleShape, Handles
    <2>2. CASE handle[h].wait \notin {"armed", "waiting"} /\ handle[h].st = "born"
      BY <1>1, <2>2 DEF notify_waiters, Handles
    <2>3. CASE handle[h].wait \notin {"armed", "waiting"} /\ handle[h].st # "born"
      BY <1>1, <2>3 DEF notify_waiters
    <2> QED
      BY <2>1, <2>2, <2>3
  <1>5. TaskTypeOK' /\ GenerationsGrow' /\ NeverMiscounts'
    BY <1>1, <1>2, <1>3 DEF TaskTypeOK, GenerationsGrow, NeverMiscounts
  <1>6. NothingNewer' /\ DropSawItself'
    BY <1>1, <1>4 DEF NothingNewer, DropSawItself
  <1>7. OnePromise'
    <2>1. PromisedSlots = {} /\ PromisedSlots' = PromisedSlots
      BY <1>1, <1>4 DEF OnePromise, PromisedSlots
    <2> QED
      BY <1>2, <2>1 DEF OnePromise
  <1>8. HandleShape' /\ OldAreCanceled'
    BY <1>1, <1>2, <1>4 DEF HandleShape, OldAreCanceled, Handles
  <1>9. CountIsExact'
    <2>1. \A h \in Slots : Counted(h)' <=> Counted(h)
      BY <1>1, <1>4 DEF Counted, is_canceled
    <2> QED
      BY <1>1, <2>1 DEF CountIsExact
  <1>10. WaitersAreNotified' /\ OnlyCanceledAreTold'
    BY <1>1, <1>2, <1>4
    DEF WaitersAreNotified, OnlyCanceledAreTold, Told, OldAreCanceled, HandleShape, is_canceled,
        Handles
  <1> QED
    BY <1>5, <1>6, <1>7, <1>8, <1>9, <1>10

\* What the invariant says of one slot.
SlotOK(x) ==
    /\ x.gen <= state.gen /\ x.seen.gen <= state.gen
    /\ x.st \in {"cloning", "dropping"} => x.gen <= x.seen.gen
    /\ x.st = "dropping" /\ x.seen.gen = x.gen => x.seen.running # 0
    /\ x.wait \in {"armed", "waiting"} => x.st = "live"
    /\ x.st \in {"free", "born", "cloning"} => x.wait = "no" /\ x.notified = FALSE
    /\ x.st = "born" => ctl.at = "stored"
    /\ ctl.at = "stored" /\ x.st \in {"live", "dropping", "cloning"} => x.gen # state.gen
    /\ x.wait = "waiting" /\ x.gen # state.gen => x.notified \/ ctl.at = "stored"
    /\ x.st = "live" /\ (x.notified \/ x.wait = "done") => x.gen # state.gen

\* The invariant gives its part to every slot in use.
LEMMA SlotsOK ==
  ASSUME TaskInv, NEW h \in Slots
  PROVE  SlotOK(handle[h])
  BY DEF TaskInv, SlotOK, NothingNewer, DropSawItself, HandleShape, OldAreCanceled,
         WaitersAreNotified, OnlyCanceledAreTold, Told, is_canceled

\* A step of a handle changes its slot and at most the count.  It keeps the
\* invariant if it leaves the slot in order and the count exact.
LEMMA SlotStep ==
  ASSUME TaskInv, NEW h \in Slots, NEW x \in Handles,
         handle' = [handle EXCEPT ![h] = x],
         state' \in Words, state'.gen = state.gen, CountIsExact',
         ctl' = ctl, calls' = calls, miscounted' = miscounted,
         handle[h].st # "promised", x.st # "promised", SlotOK(x)
  PROVE  TaskInv'
  <1> USE DEF TaskInv
  <1>1. handle \in [Slots -> Handles]
    BY DEF TaskTypeOK
  <1>2. handle'[h] = x /\ \A k \in Slots : k # h => handle'[k] = handle[k]
    BY <1>1
  <1>3. TaskTypeOK'
    BY <1>1 DEF TaskTypeOK
  <1>4. GenerationsGrow' /\ NeverMiscounts'
    BY DEF GenerationsGrow, NeverMiscounts
  <1>5. NothingNewer' /\ DropSawItself'
    BY <1>2 DEF NothingNewer, DropSawItself, SlotOK
  <1>6. OnePromise'
    <2>1. PromisedSlots' = PromisedSlots
      BY <1>2 DEF PromisedSlots
    <2> QED
      BY <2>1 DEF OnePromise
  <1>7. HandleShape' /\ OldAreCanceled'
    BY <1>2 DEF HandleShape, OldAreCanceled, SlotOK
  <1>8. WaitersAreNotified' /\ OnlyCanceledAreTold'
    BY <1>2 DEF WaitersAreNotified, OnlyCanceledAreTold, Told, is_canceled, SlotOK
  <1> QED
    BY <1>3, <1>4, <1>5, <1>6, <1>7, <1>8

InCount(x) == x.st \in {"born", "live", "dropping"} /\ x.gen = state.gen

\* The count stays exact if the slot is counted as before.
LEMMA SameCount ==
  ASSUME TaskInv, NEW h \in Slots, NEW x \in Handles,
         handle' = [handle EXCEPT ![h] = x],
         state' = state, InCount(x) <=> InCount(handle[h])
  PROVE  CountIsExact'
  <1>1. handle'[h] = x /\ \A k \in Slots : k # h => handle'[k] = handle[k]
    BY DEF TaskInv, TaskTypeOK
  <1>2. \A k \in Slots : Counted(k)' <=> Counted(k)
    BY <1>1 DEF Counted, is_canceled, InCount
  <1> QED
    BY <1>2 DEF CountIsExact, TaskInv

\* A step that changes no more than a slot that stays in order and counted as
\* before keeps the invariant.
LEMMA QuietStep ==
  ASSUME TaskInv, NEW h \in Slots, NEW x \in Handles,
         handle' = [handle EXCEPT ![h] = x],
         UNCHANGED <<state, ctl, calls, miscounted>>,
         handle[h].st # "promised", x.st # "promised",
         SlotOK(x), InCount(x) <=> InCount(handle[h])
  PROVE  TaskInv'
  <1>1. CountIsExact'
    BY SameCount
  <1>2. state' \in Words /\ state'.gen = state.gen
    BY DEF TaskInv, TaskTypeOK
  <1> QED
    BY <1>1, <1>2, SlotStep

\* clone up to the load of inc_running: the clone is not counted yet.
LEMMA CloneKeeps ==
  ASSUME TaskInv, NEW h \in Slots, NEW c \in Slots, clone(h, c)
  PROVE  TaskInv'
  <1> DEFINE x == [NoHandle EXCEPT !.st = "cloning", !.gen = handle[h].gen,
                                   !.seen = state, !.of = {h}]
  <1>1. state \in Words /\ handle \in [Slots -> Handles]
    BY DEF TaskInv, TaskTypeOK
  <1>2. x \in Handles
    BY <1>1 DEF Handles, NoHandle
  <1>3. /\ x.st = "cloning" /\ x.gen = handle[h].gen /\ x.seen = state
        /\ x.wait = "no" /\ x.notified = FALSE
    BY DEF NoHandle
  <1>4. SlotOK(x)
    <2> HIDE DEF x
    <2>1. SlotOK(handle[h])
      BY SlotsOK
    <2> QED
      BY <1>1, <1>3, <2>1 DEF SlotOK, clone, Words, Handles
  <1>5. InCount(x) <=> InCount(handle[c])
    BY <1>3 DEF InCount, clone
  <1> QED
    BY <1>2, <1>3, <1>4, <1>5, QuietStep DEF clone

\* A failed compare-and-swap brings the current word: a handle being dropped
\* that finds itself current there is counted there.
LEMMA ReloadKeeps ==
  ASSUME TaskInv, NEW h \in Slots, handle[h].st \in {"cloning", "dropping"}, Reload(h)
  PROVE  TaskInv'
  <1> DEFINE x == [handle[h] EXCEPT !.seen = state]
  <1>1. state \in Words /\ handle \in [Slots -> Handles]
    BY DEF TaskInv, TaskTypeOK
  <1>2. x \in Handles
    BY <1>1 DEF Handles
  <1>3. /\ x.st = handle[h].st /\ x.gen = handle[h].gen /\ x.seen = state
        /\ x.wait = handle[h].wait /\ x.notified = handle[h].notified
    BY <1>1 DEF Handles
  <1>4. x.st = "dropping" /\ x.seen.gen = x.gen => x.seen.running # 0
    BY <1>3, NoneCounted DEF TaskInv, Counted, is_canceled
  <1>5. SlotOK(x)
    <2> HIDE DEF x
    <2>1. SlotOK(handle[h])
      BY SlotsOK
    <2> QED
      BY <1>1, <1>3, <1>4, <2>1 DEF SlotOK, Words, Handles
  <1>6. InCount(x) <=> InCount(handle[h])
    BY <1>3 DEF InCount
  <1>7. handle' = [handle EXCEPT ![h] = x]
    BY <1>1 DEF Reload
  <1> QED
    BY <1>2, <1>3, <1>5, <1>6, <1>7, QuietStep DEF Reload

\* The clone comes to life: counted if the generation it was made from is
\* current and the swap succeeded, canceled for good otherwise.
LEMMA IncRunningKeeps ==
  ASSUME TaskInv, NEW c \in Slots, inc_running(c)
  PROVE  TaskInv'
  <1> DEFINE x == Born(c)
  <1>1. state \in Words /\ handle \in [Slots -> Handles] /\ handle[c].st = "cloning"
    BY DEF TaskInv, TaskTypeOK, inc_running
  <1>2. x \in Handles
    BY <1>1 DEF Handles, Born, NoHandle, Words, Zero
  <1>3. /\ x.st = "live" /\ x.gen = handle[c].gen /\ x.seen.gen = 0
        /\ x.wait = "no" /\ x.notified = FALSE
    BY DEF Born, NoHandle, Zero
  <1>4. SlotOK(handle[c]) /\ SlotOK(x)
    <2> HIDE DEF x
    <2>1. SlotOK(handle[c])
      BY SlotsOK
    <2> QED
      BY <1>1, <1>3, <2>1 DEF SlotOK, Words, Handles
  <1>5. CASE handle[c].seen.gen # handle[c].gen
    <2>1. handle[c].gen # state.gen
      BY <1>1, <1>4, <1>5 DEF SlotOK, Handles, Words
    <2>2. InCount(x) <=> InCount(handle[c])
      BY <1>1, <1>3, <2>1 DEF InCount
    <2>3. handle' = [handle EXCEPT ![c] = x] /\ UNCHANGED <<state, ctl, calls, miscounted>>
      BY <1>5 DEF inc_running
    <2> QED
      BY <1>1, <1>2, <1>3, <1>4, <2>2, <2>3, QuietStep
  <1>6. CASE Reload(c)
    BY <1>1, <1>6, ReloadKeeps
  <1>7. CASE /\ handle[c].seen.gen = handle[c].gen
             /\ state = handle[c].seen
             /\ state' = [state EXCEPT !.running = @ + 1]
             /\ handle' = [handle EXCEPT ![c] = Born(c)]
             /\ UNCHANGED <<ctl, calls, miscounted>>
    <2>1. state' \in Words /\ state'.gen = state.gen /\ state'.running = state.running + 1
      BY <1>1, <1>7 DEF Words
    <2>2. handle'[c] = x /\ \A k \in Slots : k # c => handle'[k] = handle[k]
      BY <1>1, <1>7
    <2>3. CountedHandles' = CountedHandles \cup {c} /\ c \notin CountedHandles
      BY <1>1, <1>3, <1>7, <2>1, <2>2 DEF CountedHandles, Counted, is_canceled
    <2>4. Cardinality(CountedHandles') = Cardinality(CountedHandles) + 1
      BY <2>3, CountedFinite, FS_AddElement
    <2>5. CountIsExact'
      BY <2>1, <2>4 DEF CountIsExact, CountedHandles, TaskInv
    <2> QED
      BY <1>1, <1>2, <1>3, <1>4, <1>7, <2>1, <2>5, SlotStep
  <1> QED
    BY <1>5, <1>6, <1>7 DEF inc_running

\* drop up to the load of dec_running: a handle that is current is counted, so
\* the word it loads counts it.
LEMMA DropKeeps ==
  ASSUME TaskInv, NEW h \in Slots, drop(h)
  PROVE  TaskInv'
  <1> DEFINE x == [handle[h] EXCEPT !.st = "dropping", !.seen = state]
  <1>1. state \in Words /\ handle \in [Slots -> Handles] /\ handle[h].st = "live"
    BY DEF TaskInv, TaskTypeOK, drop
  <1>2. x \in Handles
    BY <1>1 DEF Handles
  <1>3. /\ x.st = "dropping" /\ x.gen = handle[h].gen /\ x.seen = state
        /\ x.wait = handle[h].wait /\ x.notified = handle[h].notified
    BY <1>1 DEF Handles
  <1>4. x.seen.gen = x.gen => x.seen.running # 0
    BY <1>1, <1>3, NoneCounted DEF TaskInv, Counted, is_canceled
  <1>5. SlotOK(x)
    <2> HIDE DEF x
    <2>1. SlotOK(handle[h])
      BY SlotsOK
    <2> QED
      BY <1>1, <1>3, <1>4, <2>1 DEF SlotOK, drop, Words, Handles
  <1>6. InCount(x) <=> InCount(handle[h])
    BY <1>1, <1>3 DEF InCount
  <1>7. handle' = [handle EXCEPT ![h] = x]
    BY <1>1 DEF drop, Handles
  <1> QED
    BY <1>1, <1>2, <1>3, <1>5, <1>6, <1>7, QuietStep DEF drop

\* The handle is gone: taken off the count if it was still current when the
\* swap succeeded, and not counted otherwise.
LEMMA DecRunningKeeps ==
  ASSUME TaskInv, NEW h \in Slots, dec_running(h)
  PROVE  TaskInv'
  <1>1. state \in Words /\ handle \in [Slots -> Handles] /\ handle[h].st = "dropping"
    BY DEF TaskInv, TaskTypeOK, dec_running
  <1>2. NoHandle \in Handles
    BY DEF Handles, NoHandle, Words, Zero
  <1>3. /\ NoHandle.st = "free" /\ NoHandle.gen = 0 /\ NoHandle.seen.gen = 0
        /\ NoHandle.wait = "no" /\ NoHandle.notified = FALSE
    BY DEF NoHandle, Zero
  <1>4. SlotOK(handle[h]) /\ SlotOK(NoHandle)
    <2>1. SlotOK(handle[h])
      BY SlotsOK
    <2>2. SlotOK(NoHandle)
      BY <1>1, <1>3 DEF SlotOK, Words
    <2> QED
      BY <2>1, <2>2
  <1>5. CASE handle[h].seen.gen # handle[h].gen
    <2>1. handle[h].gen # state.gen
      BY <1>1, <1>4, <1>5 DEF SlotOK, Handles, Words
    <2>2. InCount(NoHandle) <=> InCount(handle[h])
      BY <1>3, <2>1 DEF InCount
    <2>3. handle' = [handle EXCEPT ![h] = NoHandle] /\ UNCHANGED <<state, ctl, calls, miscounted>>
      BY <1>5 DEF dec_running
    <2> QED
      BY <1>1, <1>2, <1>3, <1>4, <2>2, <2>3, QuietStep
  <1>6. CASE Reload(h)
    BY <1>1, <1>6, ReloadKeeps
  <1>7. CASE /\ handle[h].seen.gen = handle[h].gen
             /\ handle[h].seen.running # 0
             /\ state = handle[h].seen
             /\ state' = [state EXCEPT !.running = @ - 1]
             /\ handle' = [handle EXCEPT ![h] = NoHandle]
             /\ UNCHANGED <<ctl, calls, miscounted>>
    <2>1. state' \in Words /\ state'.gen = state.gen /\ state'.running = state.running - 1
      BY <1>1, <1>7 DEF Words
    <2>2. handle'[h] = NoHandle /\ \A k \in Slots : k # h => handle'[k] = handle[k]
      BY <1>1, <1>7
    <2>3. CountedHandles' = CountedHandles \ {h} /\ h \in CountedHandles
      BY <1>1, <1>3, <1>7, <2>1, <2>2 DEF CountedHandles, Counted, is_canceled
    <2>4. Cardinality(CountedHandles') = Cardinality(CountedHandles) - 1
      BY <2>3, CountedFinite, FS_RemoveElement
    <2>5. CountIsExact'
      BY <2>1, <2>4 DEF CountIsExact, CountedHandles, TaskInv
    <2> QED
      BY <1>1, <1>2, <1>3, <1>4, <1>7, <2>1, <2>5, SlotStep
  <1>8. ~(handle[h].seen.gen = handle[h].gen /\ handle[h].seen.running = 0)
    BY <1>1, <1>4 DEF SlotOK
  <1> QED
    BY <1>5, <1>6, <1>7, <1>8 DEF dec_running

\* canceled up to the creation of its Notified future: nothing told the handle
\* anything yet.
LEMMA ArmKeeps ==
  ASSUME TaskInv, NEW h \in Slots, canceled(h)
  PROVE  TaskInv'
  <1> DEFINE x == [handle[h] EXCEPT !.wait = "armed", !.notified = FALSE]
  <1>1. handle \in [Slots -> Handles] /\ handle[h].st = "live"
    BY DEF TaskInv, TaskTypeOK, canceled
  <1>2. x \in Handles
    BY <1>1 DEF Handles
  <1>3. /\ x.st = "live" /\ x.gen = handle[h].gen /\ x.seen = handle[h].seen
        /\ x.wait = "armed" /\ x.notified = FALSE
    BY <1>1 DEF Handles
  <1>4. handle' = [handle EXCEPT ![h] = x]
    BY <1>1 DEF canceled, Handles
  <1> HIDE DEF x
  <1>5. SlotOK(handle[h])
    BY SlotsOK
  <1>6. SlotOK(x)
    BY <1>1, <1>3, <1>5 DEF SlotOK
  <1>7. InCount(x) <=> InCount(handle[h])
    BY <1>1, <1>3 DEF InCount
  <1> QED
    BY <1>1, <1>2, <1>3, <1>4, <1>6, <1>7, QuietStep DEF canceled

\* The rest of waiting: a handle goes to sleep only if it is current, and
\* leaves as canceled only if it is.
LEMMA WaitKeeps ==
  ASSUME TaskInv, NEW h \in Slots, Await(h) \/ Wake(h) \/ Finish(h)
  PROVE  TaskInv'
  <1>1. handle \in [Slots -> Handles] /\ SlotOK(handle[h])
    BY SlotsOK DEF TaskInv, TaskTypeOK
  <1>2. handle[h].st = "live"
    BY <1>1 DEF SlotOK, Await, Wake, Finish
  <1>3. SUFFICES ASSUME NEW w \in {"no", "armed", "waiting", "done"},
                        handle' = [handle EXCEPT ![h].wait = w],
                        w = "waiting" => handle[h].gen = state.gen,
                        w = "done" => handle[h].gen # state.gen,
                        UNCHANGED <<state, ctl, calls, miscounted>>
                 PROVE  TaskInv'
    <2>1. CASE Await(h)
      BY <2>1 DEF Await, is_canceled
    <2>2. CASE Wake(h)
      BY <1>1, <1>2, <2>2 DEF Wake, SlotOK
    <2>3. CASE Finish(h)
      BY <2>3 DEF Finish
    <2> QED
      BY <2>1, <2>2, <2>3
  <1> DEFINE x == [handle[h] EXCEPT !.wait = w]
  <1>4. x \in Handles
    BY <1>1 DEF Handles
  <1>5. /\ x.st = "live" /\ x.gen = handle[h].gen /\ x.seen = handle[h].seen
        /\ x.wait = w /\ x.notified = handle[h].notified
    BY <1>1, <1>2 DEF Handles
  <1>6. handle' = [handle EXCEPT ![h] = x]
    BY <1>1, <1>3
  <1> HIDE DEF x
  <1>7. SlotOK(x)
    BY <1>1, <1>2, <1>3, <1>5 DEF SlotOK
  <1>8. InCount(x) <=> InCount(handle[h])
    BY <1>2, <1>5 DEF InCount
  <1> QED
    BY <1>2, <1>3, <1>4, <1>5, <1>6, <1>7, <1>8, QuietStep

\* Every step of the controller and of the handles keeps the invariant.
LEMMA NextKeepsTaskInv ==
  ASSUME Unsaturated, TaskInv, [TaskNext]_taskVars
  PROVE  TaskInv'
  <1>1. CASE \E last \in BOOLEAN : Cancel(last)
    BY <1>1, CancelKeeps
  <1>2. CASE \E h \in Slots : restart(h)
    BY <1>2, RestartKeeps
  <1>3. CASE ControllerStep
    BY <1>3, StoreKeeps, NotifyKeeps DEF ControllerStep
  <1>4. CASE \E h, c \in Slots : clone(h, c)
    BY <1>4, CloneKeeps
  <1>5. CASE \E h \in Slots : inc_running(h)
    BY <1>5, IncRunningKeeps
  <1>6. CASE \E h \in Slots : drop(h)
    BY <1>6, DropKeeps
  <1>7. CASE \E h \in Slots : dec_running(h)
    BY <1>7, DecRunningKeeps
  <1>8. CASE \E h \in Slots : canceled(h)
    BY <1>8, ArmKeeps
  <1>9. CASE \E h \in Slots : Await(h) \/ Wake(h) \/ Finish(h)
    BY <1>9, WaitKeeps
  <1>10. CASE UNCHANGED taskVars
    BY <1>10
    DEF taskVars, TaskInv, TaskTypeOK, GenerationsGrow, NothingNewer, OnePromise,
        PromisedSlots, HandleShape, OldAreCanceled, DropSawItself, CountIsExact, Counted,
        is_canceled, NeverMiscounts, WaitersAreNotified, OnlyCanceledAreTold, Told
  <1> QED
    BY <1>1, <1>2, <1>3, <1>4, <1>5, <1>6, <1>7, <1>8, <1>9, <1>10 DEF TaskNext

\* The invariant holds in every state of every behaviour.
THEOREM TaskInvariant == ASSUME Unsaturated PROVE TaskSpec => []TaskInv
  <1>1. TaskInit => TaskInv
    BY InitTaskInv
  <1>2. TaskInv /\ [TaskNext]_taskVars => TaskInv'
    BY NextKeepsTaskInv
  <1> QED
    BY <1>1, <1>2, PTL DEF TaskSpec

\* The shared word, the controller and the handles keep their types.
THEOREM TaskTypes == ASSUME Unsaturated PROVE TaskSpec => []TaskTypeOK
  <1>1. TaskInv => TaskTypeOK
    BY DEF TaskInv
  <1> QED
    BY <1>1, TaskInvariant, PTL

\* is_running can rely on the count: it is exact whatever cancels, restarts,
\* clones and drops overlap.
THEOREM CountExact == ASSUME Unsaturated PROVE TaskSpec => []CountIsExact
  <1>1. TaskInv => CountIsExact
    BY DEF TaskInv
  <1> QED
    BY <1>1, TaskInvariant, PTL

\* dec_running's assertion never fails: a handle about to be taken off the
\* count saw itself in it.
THEOREM CountNeverFails == ASSUME Unsaturated PROVE TaskSpec => []NeverMiscounts
  <1>1. TaskInv => NeverMiscounts
    BY DEF TaskInv
  <1> QED
    BY <1>1, TaskInvariant, PTL

\* canceled misses no notification.
THEOREM NotificationsExact == ASSUME Unsaturated PROVE TaskSpec => []WaitersAreNotified
  <1>1. TaskInv => WaitersAreNotified
    BY DEF TaskInv
  <1> QED
    BY <1>1, TaskInvariant, PTL

\* canceled reports no cancellation that did not happen.
THEOREM NobodyIsMisled == ASSUME Unsaturated PROVE TaskSpec => []OnlyCanceledAreTold
  <1>1. TaskInv => OnlyCanceledAreTold
    BY DEF TaskInv
  <1> QED
    BY <1>1, TaskInvariant, PTL

\* The store makes a generation that no handle has had.
LEMMA StoreCancelsAll ==
  ASSUME Unsaturated, TaskInv, Store
  PROVE  \A h \in Slots : handle[h].st \in {"live", "dropping"} => is_canceled(h)'
  <1> SUFFICES ASSUME NEW h \in Slots, handle[h].st \in {"live", "dropping"}
               PROVE  handle'[h].gen # state'.gen
    BY DEF is_canceled
  <1>1. handle'[h] = handle[h] /\ state'.gen = NextGeneration(ctl.seen.gen)
    BY DEF Store
  <1>2. NextGeneration(ctl.seen.gen) = state.gen + 1
    <2>1. /\ state.gen \in Nat /\ calls \in Nat
          /\ ctl.seen.gen = state.gen /\ state.gen < calls /\ calls <= MaxCalls
      BY DEF Store, TaskInv, TaskTypeOK, GenerationsGrow, Words
    <2> QED
      BY <2>1, TaskControllerAssumption DEF Unsaturated, NextGeneration
  <1>3. handle[h].gen \in Nat /\ state.gen \in Nat /\ handle[h].gen <= state.gen
    BY DEF TaskInv, NothingNewer, TaskTypeOK, Handles, Words
  <1> QED
    BY <1>1, <1>2, <1>3

\* Only the store changes the generation, and no step changes the generation of
\* a handle in use.
LEMMA OthersKeepGenerations ==
  ASSUME TaskInv, [TaskNext]_taskVars, ~Store, NEW h \in Slots,
         handle[h].st \in {"live", "dropping"}, handle'[h].st \in {"live", "dropping"}
  PROVE  handle'[h].gen = handle[h].gen /\ state'.gen = state.gen
  <1>1. state \in Words /\ handle \in [Slots -> Handles]
    BY DEF TaskInv, TaskTypeOK
  <1>2. CASE \E last \in BOOLEAN : Cancel(last)
    BY <1>2 DEF Cancel
  <1>3. CASE \E r \in Slots : restart(r)
    BY <1>1, <1>3 DEF restart
  <1>4. CASE notify_waiters
    BY <1>1, <1>4 DEF notify_waiters, Handles
  <1>5. CASE \E k, c \in Slots : clone(k, c)
    BY <1>1, <1>5 DEF clone
  <1>6. CASE \E c \in Slots : inc_running(c)
    <2>1. PICK c \in Slots : inc_running(c)
      BY <1>6
    <2>2. c # h \/ Reload(c)
      BY <2>1 DEF inc_running
    <2>3. state'.gen = state.gen
      BY <1>1, <2>1 DEF inc_running, Reload, Words
    <2>4. CASE c # h
      BY <1>1, <2>1, <2>3, <2>4 DEF inc_running, Reload
    <2>5. CASE Reload(c)
      BY <1>1, <2>3, <2>5 DEF Reload, Handles
    <2> QED
      BY <2>2, <2>4, <2>5
  <1>7. CASE \E k \in Slots : drop(k)
    BY <1>1, <1>7 DEF drop, Handles
  <1>8. CASE \E k \in Slots : dec_running(k)
    BY <1>1, <1>8 DEF dec_running, Reload, Words, Handles, NoHandle
  <1>9. CASE \E k \in Slots : canceled(k) \/ Await(k) \/ Wake(k) \/ Finish(k)
    BY <1>1, <1>9 DEF canceled, Await, Wake, Finish, Handles
  <1>10. CASE UNCHANGED taskVars
    BY <1>10 DEF taskVars
  <1> QED
    BY <1>2, <1>3, <1>4, <1>5, <1>6, <1>7, <1>8, <1>9, <1>10 DEF TaskNext, ControllerStep

\* A canceled handle stays canceled: no later generation is its own.
THEOREM CanceledStaysCanceled == ASSUME Unsaturated PROVE TaskSpec => CanceledForever
  <1>1. TaskInv /\ [TaskNext]_taskVars =>
          [\A h \in Slots :
              /\ handle[h].st \in {"live", "dropping"} /\ is_canceled(h)
              /\ handle'[h].st \in {"live", "dropping"}
              => is_canceled(h)']_taskVars
    BY StoreCancelsAll, OthersKeepGenerations DEF is_canceled
  <1> QED
    BY <1>1, TaskInvariant, PTL DEF TaskSpec, CanceledForever

HandleStep(h) ==
    \/ inc_running(h) \/ drop(h) \/ dec_running(h)
    \/ canceled(h) \/ Await(h) \/ Wake(h) \/ Finish(h)

\* When cancel, restart or the drop of the controller has stored, or has taken
\* the fast path, every handle of the task it cancels is canceled.
THEOREM CancelReachesEveryHandle == ASSUME Unsaturated PROVE TaskSpec => CancelReachesAll
  <1>1. ASSUME TaskInv, [TaskNext]_taskVars,
               ctl.at = "loaded" \/ calls' # calls, ctl'.at # "loaded"
        PROVE  \A h \in Slots : handle[h].st \in {"live", "dropping"} => is_canceled(h)'
    <2>1. CASE Store
      BY <2>1, StoreCancelsAll, <1>1
    <2>2. CASE \E last \in BOOLEAN : Cancel(last)
      <3>1. state.running = 0 /\ state' = state /\ handle' = handle
        BY <1>1, <2>2 DEF Cancel, FastPath
      <3>2. \A h \in Slots : ~Counted(h)
        BY <1>1, <3>1, NoneCounted DEF TaskInv
      <3> QED
        BY <3>1, <3>2 DEF Counted, is_canceled
    <2>3. CASE ~Store /\ ~\E last \in BOOLEAN : Cancel(last)
      <3>1. \/ \E h \in Slots : restart(h)
            \/ notify_waiters
            \/ \E h \in Slots : HandleStep(h) \/ \E c \in Slots : clone(h, c)
            \/ UNCHANGED taskVars
        BY <1>1, <2>3 DEF TaskNext, ControllerStep, HandleStep
      <3>2. CASE \E h \in Slots : restart(h)
        BY <1>1, <3>2 DEF restart
      <3>3. CASE notify_waiters
        BY <1>1, <3>3 DEF notify_waiters
      <3>4. CASE \E h \in Slots : HandleStep(h) \/ \E c \in Slots : clone(h, c)
        <4>1. ctl' = ctl /\ calls' = calls
          BY <3>4
          DEF HandleStep, clone, inc_running, Reload, drop, dec_running, canceled, Await, Wake,
              Finish
        <4> QED
          BY <1>1, <4>1
      <3>5. CASE UNCHANGED taskVars
        BY <1>1, <3>5 DEF taskVars
      <3> QED
        BY <3>1, <3>2, <3>3, <3>4, <3>5
    <2> QED
      BY <2>1, <2>2, <2>3
  <1>2. TaskInv /\ [TaskNext]_taskVars =>
          [(ctl.at = "loaded" \/ calls' # calls) /\ ctl'.at # "loaded"
             => \A h \in Slots :
                   handle[h].st \in {"live", "dropping"} => is_canceled(h)']_taskVars
    BY <1>1
  <1> QED
    BY <1>2, TaskInvariant, PTL DEF TaskSpec, CancelReachesAll

(***************************************************************************)
(* The refinement of Cancellation.  That a task without handles does not   *)
(* come back needs one more fact: a clone is made from a handle that is    *)
(* borrowed until the clone is counted.                                    *)
(***************************************************************************)

CloneBorrows ==
    \A c \in Slots : handle[c].st = "cloning" =>
        \E h \in Slots : /\ handle[c].of = {h}
                         /\ handle[h].st = "live" /\ handle[h].gen = handle[c].gen

\* A step of one slot leaves the clones in the making with what they borrow, if
\* what was borrowed from it stays and it is itself no new clone.
LEMMA BorrowStep ==
  ASSUME CloneBorrows, NEW h \in Slots, NEW x \in Handles,
         handle \in [Slots -> Handles], handle' = [handle EXCEPT ![h] = x],
         \/ handle[h].st # "live"
         \/ x.st = "live" /\ x.gen = handle[h].gen
         \/ \A c \in Slots : h \notin handle[c].of,
         x.st = "cloning" =>
            handle[h].st = "cloning" /\ x.of = handle[h].of /\ x.gen = handle[h].gen
  PROVE  CloneBorrows'
  <1>1. handle'[h] = x /\ \A k \in Slots : k # h => handle'[k] = handle[k]
    OBVIOUS
  <1> SUFFICES ASSUME NEW c \in Slots, handle'[c].st = "cloning"
               PROVE  \E b \in Slots : /\ handle'[c].of = {b}
                                       /\ handle'[b].st = "live" /\ handle'[b].gen = handle'[c].gen
    BY DEF CloneBorrows
  <1>2. /\ handle[c].st = "cloning"
        /\ handle'[c].of = handle[c].of /\ handle'[c].gen = handle[c].gen
    BY <1>1
  <1>3. PICK b \in Slots : /\ handle[c].of = {b}
                           /\ handle[b].st = "live" /\ handle[b].gen = handle[c].gen
    BY <1>2 DEF CloneBorrows
  <1>4. handle'[b].st = "live" /\ handle'[b].gen = handle[b].gen
    BY <1>1, <1>3
  <1> QED
    BY <1>2, <1>3, <1>4

\* A step that leaves each clone in the making and each handle in use its
\* generation, and makes no clone, leaves what is borrowed.
LEMMA BorrowAll ==
  ASSUME CloneBorrows,
         \A k \in Slots : /\ handle'[k].gen = handle[k].gen \/ handle[k].st = "promised"
                          /\ handle[k].st = "live" => handle'[k].st = "live"
                          /\ handle'[k].st = "cloning" =>
                                handle[k].st = "cloning" /\ handle'[k].of = handle[k].of
  PROVE  CloneBorrows'
  <1> SUFFICES ASSUME NEW c \in Slots, handle'[c].st = "cloning"
               PROVE  \E b \in Slots : /\ handle'[c].of = {b}
                                       /\ handle'[b].st = "live" /\ handle'[b].gen = handle'[c].gen
    BY DEF CloneBorrows
  <1>1. handle[c].st = "cloning" /\ handle'[c].of = handle[c].of /\ handle'[c].gen = handle[c].gen
    OBVIOUS
  <1>2. PICK b \in Slots : /\ handle[c].of = {b}
                           /\ handle[b].st = "live" /\ handle[b].gen = handle[c].gen
    BY <1>1 DEF CloneBorrows
  <1>3. handle'[b].st = "live" /\ handle'[b].gen = handle[b].gen
    BY <1>2
  <1> QED
    BY <1>1, <1>2, <1>3

\* No step takes a handle away from the clone being made of it.
LEMMA NextKeepsBorrows ==
  ASSUME TaskInv, CloneBorrows, [TaskNext]_taskVars
  PROVE  CloneBorrows'
  <1>1. handle \in [Slots -> Handles] /\ state \in Words
    BY DEF TaskInv, TaskTypeOK
  <1>2. ASSUME NEW last \in BOOLEAN, Cancel(last) PROVE CloneBorrows'
    BY <1>2 DEF Cancel, CloneBorrows
  <1>3. ASSUME NEW r \in Slots, restart(r) PROVE CloneBorrows'
    <2> DEFINE x == [NoHandle EXCEPT !.st = "promised"]
    <2>1. x \in Handles /\ x.st = "promised"
      BY DEF Handles, NoHandle, Words, Zero
    <2> QED
      BY <1>1, <1>3, <2>1, BorrowStep DEF restart
  <1>4. ASSUME Store PROVE CloneBorrows'
    <2>1. \A k \in Slots : IF handle[k].st = "promised" THEN handle'[k].st = "born"
                                                        ELSE handle'[k] = handle[k]
      BY <1>1, <1>4 DEF Store, Handles
    <2> QED
      BY <2>1, BorrowAll
  <1>5. ASSUME notify_waiters PROVE CloneBorrows'
    <2>1. \A k \in Slots :
             /\ handle'[k].gen = handle[k].gen /\ handle'[k].of = handle[k].of
             /\ handle'[k].st = handle[k].st \/ (handle[k].st = "born" /\ handle'[k].st = "live")
      BY <1>1, <1>5 DEF notify_waiters, Handles
    <2> QED
      BY <2>1, BorrowAll
  <1>6. ASSUME NEW h \in Slots, NEW c \in Slots, clone(h, c) PROVE CloneBorrows'
    <2> DEFINE x == [NoHandle EXCEPT !.st = "cloning", !.gen = handle[h].gen,
                                     !.seen = state, !.of = {h}]
    <2>1. x.st = "cloning" /\ x.gen = handle[h].gen /\ x.of = {h}
      BY DEF NoHandle
    <2>2. handle' = [handle EXCEPT ![c] = x] /\ handle[c].st = "free" /\ handle[h].st = "live"
      BY <1>6 DEF clone
    <2> HIDE DEF x
    <2>3. handle'[c] = x /\ \A k \in Slots : k # c => handle'[k] = handle[k]
      BY <1>1, <2>2
    <2> SUFFICES ASSUME NEW d \in Slots, handle'[d].st = "cloning"
                 PROVE  \E b \in Slots : /\ handle'[d].of = {b} /\ handle'[b].st = "live"
                                         /\ handle'[b].gen = handle'[d].gen
      BY DEF CloneBorrows
    <2>4. CASE d = c
      BY <2>1, <2>2, <2>3, <2>4
    <2>5. CASE d # c
      <3>1. PICK b \in Slots : /\ handle[d].of = {b}
                               /\ handle[b].st = "live" /\ handle[b].gen = handle[d].gen
        BY <2>3, <2>5 DEF CloneBorrows
      <3>2. handle'[b] = handle[b] /\ handle'[d] = handle[d]
        BY <2>2, <2>3, <2>5, <3>1
      <3> QED
        BY <3>1, <3>2
    <2> QED
      BY <2>4, <2>5
  <1>7. ASSUME NEW h \in Slots, Reload(h), handle[h].st \in {"cloning", "dropping"}
        PROVE  CloneBorrows'
    <2> DEFINE x == [handle[h] EXCEPT !.seen = state]
    <2>1. /\ x \in Handles /\ x.st = handle[h].st
          /\ x.gen = handle[h].gen /\ x.of = handle[h].of
      BY <1>1 DEF Handles
    <2>2. handle' = [handle EXCEPT ![h] = x]
      BY <1>1, <1>7 DEF Reload
    <2> HIDE DEF x
    <2> QED
      BY <1>1, <1>7, <2>1, <2>2, BorrowStep
  <1>8. ASSUME NEW h \in Slots, inc_running(h) \/ dec_running(h) PROVE CloneBorrows'
    <2>1. Born(h) \in Handles /\ Born(h).st = "live" /\ NoHandle \in Handles /\ NoHandle.st = "free"
      BY <1>1 DEF Handles, NoHandle, Words, Zero, Born
    <2>2. handle[h].st \in {"cloning", "dropping"}
      BY <1>8 DEF inc_running, dec_running
    <2>3. \/ Reload(h) \/ handle' = [handle EXCEPT ![h] = Born(h)]
          \/ handle' = [handle EXCEPT ![h] = NoHandle]
      BY <1>8 DEF inc_running, dec_running
    <2>4. CASE handle' = [handle EXCEPT ![h] = Born(h)]
      BY <1>1, <2>1, <2>2, <2>4, BorrowStep
    <2>5. CASE handle' = [handle EXCEPT ![h] = NoHandle]
      BY <1>1, <2>1, <2>2, <2>5, BorrowStep
    <2> QED
      BY <1>7, <2>2, <2>3, <2>4, <2>5
  <1>9. ASSUME NEW h \in Slots, drop(h) PROVE CloneBorrows'
    <2> DEFINE x == [handle[h] EXCEPT !.st = "dropping", !.seen = state]
    <2>0. handle[h] \in Handles /\ state \in Words
      BY <1>1
    <2>1. x \in Handles
      BY <2>0 DEF Handles
    <2>2. x.st = "dropping"
      BY <1>1 DEF Handles
    <2>3. handle' = [handle EXCEPT ![h] = x]
      BY <1>1, <1>9 DEF drop, Handles
    <2>4. \A c \in Slots : h \notin handle[c].of
      BY <1>9 DEF drop
    <2> HIDE DEF x
    <2> QED
      BY <1>1, <2>1, <2>2, <2>3, <2>4, BorrowStep
  <1>10. ASSUME NEW h \in Slots, canceled(h) \/ Await(h) \/ Wake(h) \/ Finish(h)
         PROVE  CloneBorrows'
    <2>1. \A k \in Slots : /\ handle'[k].gen = handle[k].gen /\ handle'[k].of = handle[k].of
                           /\ handle'[k].st = handle[k].st
      BY <1>1, <1>10 DEF canceled, Await, Wake, Finish, Handles
    <2> QED
      BY <2>1, BorrowAll
  <1>11. ASSUME UNCHANGED taskVars PROVE CloneBorrows'
    BY <1>11 DEF taskVars, CloneBorrows
  <1> QED
    BY <1>2, <1>3, <1>4, <1>5, <1>6, <1>8, <1>9, <1>10, <1>11 DEF TaskNext, ControllerStep

\* A clone in the making borrows a handle of its own generation that is in use,
\* in every state of every behaviour.
THEOREM ClonesBorrow == ASSUME Unsaturated PROVE TaskSpec => []CloneBorrows
  <1>1. TaskInit => CloneBorrows
    BY DEF TaskInit, CloneBorrows, NoHandle
  <1>2. TaskInv /\ CloneBorrows /\ [TaskNext]_taskVars => CloneBorrows'
    BY NextKeepsBorrows
  <1> QED
    BY <1>1, <1>2, TaskInvariant, PTL DEF TaskSpec

TaskRuns == {h \in Slots : Counted(h)}
TaskTold == {h \in Slots : Told(h)}

\* A step that leaves the task and what its handles know is no step of the
\* promise.
LEMMA Stutters ==
  ASSUME TaskRuns' = TaskRuns, TaskTold' = TaskTold,
         (state.running # 0)' <=> (state.running # 0)
  PROVE  UNCHANGED Promise!cancelVars
  BY DEF Promise!cancelVars, TaskRuns, TaskTold

\* Neither is a step that leaves every handle where it is.
LEMMA SameHandlesStutter ==
  ASSUME state' = state,
         \A k \in Slots : /\ handle'[k].st = handle[k].st /\ handle'[k].gen = handle[k].gen
                          /\ handle'[k].wait = handle[k].wait
                          /\ handle'[k].notified = handle[k].notified
  PROVE  UNCHANGED Promise!cancelVars
  <1>1. \A k \in Slots : (Counted(k)' <=> Counted(k)) /\ (Told(k)' <=> Told(k))
    BY DEF Counted, is_canceled, Told
  <1>2. TaskRuns' = TaskRuns /\ TaskTold' = TaskTold
    BY <1>1 DEF TaskRuns, TaskTold
  <1> QED
    BY <1>2, Stutters

\* is_running answers whether a handle is left.
LEMMA AnswersExactly == TaskInv => ((state.running # 0) <=> TaskRuns # {})
  <1> SUFFICES ASSUME TaskInv PROVE (state.running # 0) <=> TaskRuns # {}
    OBVIOUS
  <1>1. IsFiniteSet(TaskRuns) /\ state.running = Cardinality(TaskRuns)
    BY CountedFinite DEF TaskInv, CountIsExact, CountedHandles, TaskRuns
  <1> QED
    BY <1>1, FS_EmptySet

\* The store ends the task and, if restart made it, begins one of one handle.
LEMMA StoreEndsOrRestarts ==
  ASSUME Unsaturated, TaskInv, Store
  PROVE  Promise!Next
  <1>1. TaskTold' = TaskTold
    <2>1. handle \in [Slots -> Handles]
      BY DEF TaskInv, TaskTypeOK
    <2>2. \A h \in Slots : IF handle[h].st = "promised" THEN handle'[h].st = "born"
                                                        ELSE handle'[h] = handle[h]
      BY <2>1 DEF Store, Handles
    <2>3. \A h \in Slots : Told(h)' <=> Told(h)
      BY <2>2 DEF Told
    <2> QED
      BY <2>3 DEF TaskTold
  <1>2. TaskRuns' = PromisedSlots
    <2> DEFINE g == state.gen + 1
    <2>0. ctl.at = "loaded"
      BY DEF Store
    <2>1. NextGeneration(ctl.seen.gen) = g
      BY <2>0, TaskControllerAssumption
      DEF TaskInv, Unsaturated, GenerationsGrow, NextGeneration, TaskTypeOK, Words
    <2>2. handle \in [Slots -> Handles] /\ state.gen \in Nat
      BY DEF TaskInv, TaskTypeOK, Words
    <2>3. /\ state'.gen = g
          /\ \A h \in Slots : IF handle[h].st = "promised"
                              THEN handle'[h].st = "born" /\ handle'[h].gen = g
                              ELSE handle'[h] = handle[h]
      BY <2>1, <2>2 DEF Store, Handles
    <2>4. \A h \in Slots : handle[h].gen \in Nat /\ handle[h].gen < g
      BY <2>2 DEF TaskInv, NothingNewer, Handles
    <2>5. \A h \in Slots : handle[h].st # "born"
      BY <2>0 DEF TaskInv, HandleShape
    <2>6. \A h \in Slots : Counted(h)' <=> handle[h].st = "promised"
      BY <2>2, <2>3, <2>4, <2>5 DEF Counted, is_canceled
    <2> QED
      BY <2>6 DEF TaskRuns, PromisedSlots
  <1>3. ((state.running # 0) <=> TaskRuns # {})'
    <2>1. TaskInv'
      BY StoreKeeps
    <2> QED
      BY <2>1, AnswersExactly, PTL
  <1>4. CASE PromisedSlots = {}
    BY <1>1, <1>2, <1>3, <1>4 DEF Promise!Next, Promise!End, Promise!Becomes, TaskRuns, TaskTold
  <1>5. CASE PromisedSlots # {}
    <2>1. PICK p \in Slots : PromisedSlots = {p}
      BY <1>5 DEF TaskInv, OnePromise
    <2>2. p \notin TaskTold
      BY <2>1 DEF PromisedSlots, TaskTold, Told
    <2> QED
      BY <1>1, <1>2, <1>3, <2>1, <2>2
      DEF Promise!Next, Promise!Restart, Promise!Becomes, TaskRuns, TaskTold
  <1> QED
    BY <1>4, <1>5

\* notify_waiters tells only handles that do not run.
LEMMA NotifyTells ==
  ASSUME TaskInv, notify_waiters
  PROVE  [Promise!Next]_(Promise!cancelVars)
  <1>1. handle \in [Slots -> Handles] /\ ctl.at = "stored" /\ state' = state
    BY DEF TaskInv, TaskTypeOK, notify_waiters
  <1>2. \A h \in Slots :
           /\ handle'[h].gen = handle[h].gen /\ handle'[h].wait = handle[h].wait
           /\ handle'[h].st = handle[h].st \/ (handle[h].st = "born" /\ handle'[h].st = "live")
           /\ handle[h].notified => handle'[h].notified
           /\ handle[h].wait \notin {"armed", "waiting"} => handle'[h].notified = handle[h].notified
    BY <1>1 DEF notify_waiters, Handles
  <1>3. \A h \in Slots :
           /\ handle[h].wait \in {"armed", "waiting"} => handle[h].st = "live"
           /\ handle[h].st = "born" => handle[h].wait = "no" /\ handle[h].notified = FALSE
           /\ handle[h].st = "live" => handle[h].gen # state.gen
    BY <1>1 DEF TaskInv, HandleShape, OldAreCanceled
  <1>4. TaskRuns' = TaskRuns
    <2>1. \A h \in Slots : Counted(h)' <=> Counted(h)
      BY <1>1, <1>2 DEF Counted, is_canceled
    <2> QED
      BY <2>1 DEF TaskRuns
  <1>5. TaskTold \subseteq TaskTold' /\ TaskTold' \cap TaskRuns = {}
    <2>1. \A h \in Slots : Told(h) => Told(h)'
      BY <1>2 DEF Told
    <2>2. \A h \in Slots : Told(h)' => ~Counted(h)
      BY <1>2, <1>3 DEF Told, Counted, is_canceled
    <2> QED
      BY <2>1, <2>2 DEF TaskTold, TaskRuns
  <1>6. TaskTold' = TaskTold \cup TaskTold' /\ TaskTold' \in SUBSET (Slots \ TaskRuns)
    BY <1>5 DEF TaskTold, TaskRuns
  <1> QED
    BY <1>1, <1>4, <1>6 DEF Promise!Next, Promise!Tell, TaskRuns, TaskTold

\* A handle that comes to life joins the task its maker still runs, or no task.
LEMMA CloneJoins ==
  ASSUME TaskInv, TaskInv', CloneBorrows, NEW c \in Slots, inc_running(c)
  PROVE  [Promise!Next]_(Promise!cancelVars)
  <1>1. handle \in [Slots -> Handles] /\ state \in Words /\ handle[c].st = "cloning"
    BY DEF TaskInv, TaskTypeOK, inc_running
  <1>2. c \notin TaskTold /\ c \notin TaskRuns
    BY <1>1 DEF TaskTold, Told, TaskRuns, Counted
  <1>3. CASE handle' = [handle EXCEPT ![c] = Born(c)]
    <2>1. handle'[c] = Born(c) /\ \A k \in Slots : k # c => handle'[k] = handle[k]
      BY <1>1, <1>3
    <2>2. /\ Born(c).st = "live" /\ Born(c).gen = handle[c].gen
          /\ Born(c).wait = "no" /\ Born(c).notified = FALSE
      BY DEF Born, NoHandle
    <2>3. TaskTold' = TaskTold
      <3>1. \A k \in Slots : Told(k)' <=> Told(k)
        BY <1>1, <2>1, <2>2 DEF Told
      <3> QED
        BY <3>1 DEF TaskTold
    <2>4. state'.gen = state.gen
      BY <1>1 DEF inc_running, Reload, Words
    <2>5. \A k \in Slots : k # c => (Counted(k)' <=> Counted(k))
      BY <2>1, <2>4 DEF Counted, is_canceled
    <2>6. Counted(c)' <=> handle[c].gen = state.gen
      BY <2>1, <2>2, <2>4 DEF Counted, is_canceled
    <2>7. CASE handle[c].gen = state.gen
      <3>1. TaskRuns' = TaskRuns \cup {c}
        BY <2>5, <2>6, <2>7 DEF TaskRuns
      <3>2. PICK h \in Slots : handle[h].st = "live" /\ handle[h].gen = handle[c].gen
        BY <1>1 DEF CloneBorrows
      <3>3. TaskRuns # {}
        BY <2>7, <3>2 DEF TaskRuns, Counted, is_canceled
      <3>4. ((state.running # 0) <=> TaskRuns # {})'
        BY AnswersExactly, PTL
      <3> QED
        BY <1>2, <2>3, <3>1, <3>3, <3>4
        DEF Promise!Next, Promise!Clone, Promise!Becomes, TaskRuns, TaskTold
    <2>8. CASE handle[c].gen # state.gen
      <3>1. TaskRuns' = TaskRuns
        BY <1>2, <2>5, <2>6, <2>8 DEF TaskRuns
      <3>2. ((state.running # 0) <=> TaskRuns # {})'
        BY AnswersExactly, PTL
      <3>3. (state.running # 0) <=> TaskRuns # {}
        BY AnswersExactly
      <3> QED
        BY <2>3, <3>1, <3>2, <3>3, Stutters
    <2> QED
      BY <2>7, <2>8
  <1>4. CASE Reload(c)
    <2>1. state' = state /\ \A k \in Slots : /\ handle'[k].st = handle[k].st
                                             /\ handle'[k].gen = handle[k].gen
                                             /\ handle'[k].wait = handle[k].wait
                                             /\ handle'[k].notified = handle[k].notified
      BY <1>1, <1>4 DEF Reload, Handles
    <2> QED
      BY <2>1, SameHandlesStutter
  <1> QED
    BY <1>3, <1>4 DEF inc_running

\* A step that leaves who runs, and changes what one handle knows, tells a
\* handle that does not run or removes one that knew.
LEMMA OneLearns ==
  ASSUME TaskInv', NEW h \in Slots, state' = state,
         \A k \in Slots : Counted(k)' <=> Counted(k),
         \A k \in Slots : k # h => (Told(k)' <=> Told(k))
  PROVE  [Promise!Next]_(Promise!cancelVars)
  <1>1. TaskRuns' = TaskRuns
    BY DEF TaskRuns
  <1>2. Told(h)' => h \notin TaskRuns
    <2>1. Told(h)' => is_canceled(h)'
      BY DEF TaskInv, OnlyCanceledAreTold
    <2> QED
      BY <2>1 DEF Counted, TaskRuns
  <1>3. CASE Told(h)'
    <2>1. TaskTold' = TaskTold \cup {h} /\ {h} \in SUBSET (Slots \ TaskRuns)
      BY <1>2, <1>3 DEF TaskTold
    <2> QED
      BY <1>1, <2>1 DEF Promise!Next, Promise!Tell, TaskRuns, TaskTold
  <1>4. CASE ~Told(h)' /\ Told(h)
    <2>1. h \in TaskTold /\ TaskTold' = TaskTold \ {h}
      BY <1>4 DEF TaskTold
    <2> QED
      BY <1>1, <2>1 DEF Promise!Next, Promise!Forget, TaskRuns, TaskTold
  <1>5. CASE ~Told(h)' /\ ~Told(h)
    <2>1. TaskTold' = TaskTold
      BY <1>5 DEF TaskTold
    <2> QED
      BY <1>1, <2>1, Stutters
  <1> QED
    BY <1>3, <1>4, <1>5

\* Setting a slot aside, starting to clone or to drop, and waiting leave who
\* runs.
LEMMA OthersLearnAtMost ==
  ASSUME TaskInv, TaskInv', NEW h \in Slots,
         \/ restart(h) \/ (\E k \in Slots : clone(k, h)) \/ drop(h)
         \/ canceled(h) \/ Await(h) \/ Wake(h) \/ Finish(h)
  PROVE  [Promise!Next]_(Promise!cancelVars)
  <1>1. handle \in [Slots -> Handles]
    BY DEF TaskInv, TaskTypeOK
  <1>2. state' = state
    BY DEF restart, clone, drop, canceled, Await, Wake, Finish
  <1>3. \A k \in Slots : k # h => handle'[k] = handle[k]
    BY <1>1 DEF restart, clone, drop, canceled, Await, Wake, Finish
  <1>4. Counted(h)' <=> Counted(h)
    <2>1. CASE restart(h) \/ \E k \in Slots : clone(k, h)
      <3>1. handle[h].st = "free" /\ handle'[h].st \in {"promised", "cloning"}
        BY <1>1, <2>1 DEF restart, clone, NoHandle
      <3> QED
        BY <3>1 DEF Counted
    <2>2. CASE drop(h)
      <3>1. handle[h].st = "live" /\ handle'[h].st = "dropping" /\ handle'[h].gen = handle[h].gen
        BY <1>1, <2>2 DEF drop, Handles
      <3> QED
        BY <1>2, <3>1 DEF Counted, is_canceled
    <2>3. CASE canceled(h) \/ Await(h) \/ Wake(h) \/ Finish(h)
      <3>1. handle'[h].st = handle[h].st /\ handle'[h].gen = handle[h].gen
        BY <1>1, <2>3 DEF canceled, Await, Wake, Finish, Handles
      <3> QED
        BY <1>2, <3>1 DEF Counted, is_canceled
    <2> QED
      BY <2>1, <2>2, <2>3
  <1>5. \A k \in Slots : Counted(k)' <=> Counted(k)
    BY <1>2, <1>3, <1>4 DEF Counted, is_canceled
  <1>6. \A k \in Slots : k # h => (Told(k)' <=> Told(k))
    BY <1>3 DEF Told
  <1> QED
    BY <1>2, <1>5, <1>6, OneLearns

\* A handle that is gone leaves the task it was counted in, or no task.
LEMMA DroppedLeaves ==
  ASSUME TaskInv, TaskInv', NEW h \in Slots, dec_running(h)
  PROVE  [Promise!Next]_(Promise!cancelVars)
  <1>1. handle \in [Slots -> Handles] /\ state \in Words /\ handle[h].st = "dropping"
    BY DEF TaskInv, TaskTypeOK, dec_running
  <1>2. CASE Reload(h)
    <2>1. state' = state /\ \A k \in Slots : /\ handle'[k].st = handle[k].st
                                             /\ handle'[k].gen = handle[k].gen
                                             /\ handle'[k].wait = handle[k].wait
                                             /\ handle'[k].notified = handle[k].notified
      BY <1>1, <1>2 DEF Reload, Handles
    <2> QED
      BY <2>1, SameHandlesStutter
  <1>3. CASE handle' = [handle EXCEPT ![h] = NoHandle]
    <2>1. handle'[h].st = "free" /\ \A k \in Slots : k # h => handle'[k] = handle[k]
      BY <1>1, <1>3 DEF NoHandle
    <2>2. state'.gen = state.gen
      BY <1>1 DEF dec_running, Reload, Words
    <2>3. TaskTold' = TaskTold
      <3>1. \A k \in Slots : Told(k)' <=> Told(k)
        BY <1>1, <2>1 DEF Told
      <3> QED
        BY <3>1 DEF TaskTold
    <2>4. TaskRuns' = TaskRuns \ {h}
      <3>1. ~Counted(h)' /\ \A k \in Slots : k # h => (Counted(k)' <=> Counted(k))
        BY <2>1, <2>2 DEF Counted, is_canceled
      <3> QED
        BY <3>1 DEF TaskRuns
    <2>5. ((state.running # 0) <=> TaskRuns # {})'
      BY AnswersExactly, PTL
    <2>6. CASE h \in TaskRuns
      BY <2>3, <2>4, <2>5, <2>6 DEF Promise!Next, Promise!Drop, Promise!Becomes, TaskRuns, TaskTold
    <2>7. CASE h \notin TaskRuns
      <3>1. TaskRuns' = TaskRuns
        BY <2>4, <2>7
      <3>2. (state.running # 0) <=> TaskRuns # {}
        BY AnswersExactly
      <3> QED
        BY <2>3, <2>5, <3>1, <3>2, Stutters
    <2> QED
      BY <2>6, <2>7
  <1> QED
    BY <1>2, <1>3 DEF dec_running

\* Every step of the controller and of the handles is a step of the promise or
\* none.
LEMMA StepsKeepPromise ==
  ASSUME Unsaturated, TaskInv, TaskInv', CloneBorrows, [TaskNext]_taskVars
  PROVE  [Promise!Next]_(Promise!cancelVars)
  <1>1. CASE UNCHANGED taskVars \/ \E last \in BOOLEAN : Cancel(last)
    <2>1. state' = state /\ handle' = handle
      BY <1>1 DEF taskVars, Cancel
    <2> QED
      BY <2>1, SameHandlesStutter
  <1>2. CASE Store
    BY <1>2, StoreEndsOrRestarts
  <1>3. CASE notify_waiters
    BY <1>3, NotifyTells
  <1>4. CASE \E h \in Slots : inc_running(h)
    BY <1>4, CloneJoins
  <1>5. CASE \E h \in Slots : dec_running(h)
    BY <1>5, DroppedLeaves
  <1>6. CASE \E h \in Slots : \/ restart(h) \/ (\E k \in Slots : clone(k, h)) \/ drop(h)
                              \/ canceled(h) \/ Await(h) \/ Wake(h) \/ Finish(h)
    BY <1>6, OthersLearnAtMost
  <1> QED
    BY <1>1, <1>2, <1>3, <1>4, <1>5, <1>6 DEF TaskNext, ControllerStep

\* The atomic word, its compare-and-swap loops and the notifications do what
\* the interface of TaskController promises, whatever cancels, restarts,
\* clones, drops and waits overlap.
THEOREM ControllerKeepsPromise == ASSUME Unsaturated PROVE TaskSpec => KeepsCancellationPromise
  <1>1. TaskInit => Promise!Init
    <2> SUFFICES ASSUME TaskInit PROVE Promise!Init
      OBVIOUS
    <2>1. TaskRuns = {} /\ TaskTold = {} /\ ~(state.running # 0)
      BY DEF TaskInit, TaskRuns, TaskTold, Counted, Told, NoHandle, Zero
    <2> QED
      BY <2>1 DEF Promise!Init, TaskRuns, TaskTold
  <1>2. TaskInv /\ TaskInv' /\ CloneBorrows /\ [TaskNext]_taskVars
          => [Promise!Next]_(Promise!cancelVars)
    BY StepsKeepPromise
  <1> QED
    BY <1>1, <1>2, TaskInvariant, ClonesBorrow, PTL
    DEF TaskSpec, KeepsCancellationPromise, Promise!Spec
=============================================================================
