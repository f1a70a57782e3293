--------------------------- MODULE AutoSaveProofs ---------------------------
(***************************************************************************)
(* Autosave forgets no change, for channels of every capacity: the type    *)
(* invariant and UnsavedIsPending of module AutoSave.  The latter needs    *)
(* that a job passes over no change unless undo or :set modified led to    *)
(* it: InOrder, an order on the revisions saved and still to be saved.     *)
(***************************************************************************)
EXTENDS AutoSave, TLAPS

-----------------------------------------------------------------------------
(* The queues. *)

(* Appending to a queue with room keeps it a queue within its capacity.    *)
LEMMA AppendFits ==
  ASSUME NEW T, NEW q \in Seq(T), NEW x \in T, NEW cap \in Nat, HasRoom(q, cap)
  PROVE  /\ Append(q, x) \in Seq(T) /\ Len(Append(q, x)) <= cap
         /\ Append(q, x) # <<>>
BY DEF HasRoom

(* Taking the head of a queue keeps it a queue within its capacity.        *)
LEMMA TailFits ==
  ASSUME NEW T, NEW q \in Seq(T), q # <<>>, NEW cap \in Nat, Len(q) <= cap
  PROVE  Tail(q) \in Seq(T) /\ Len(Tail(q)) <= cap /\ Head(q) \in T
OBVIOUS

(* A queue without room is not empty: its capacity is positive.            *)
LEMMA FullIsNotEmpty ==
  ASSUME NEW q, NEW cap \in Nat \ {0}, GivesUp(q, cap)
  PROVE  q # <<>>
BY DEF GivesUp, HasRoom

(* A save job stays queued when another job is added, ...                  *)
LEMMA SaveStaysOnAppend ==
  ASSUME TypeOK, SaveQueued, NEW x, jobs' = Append(jobs, x)
  PROVE  SaveQueued'
<1>1. PICK i \in DOMAIN jobs : jobs[i] = "save" BY DEF SaveQueued
<1>2. i \in DOMAIN jobs' /\ jobs'[i] = "save" BY <1>1 DEF TypeOK
<1> QED BY <1>2 DEF SaveQueued

(* ... or when another job is run.                                         *)
LEMMA SaveStaysOnTail ==
  ASSUME TypeOK, SaveQueued, jobs # <<>>, Head(jobs) = "other", jobs' = Tail(jobs)
  PROVE  SaveQueued'
<1>1. PICK i \in DOMAIN jobs : jobs[i] = "save" BY DEF SaveQueued
<1>2. i # 1 BY <1>1 DEF TypeOK
<1>3. i - 1 \in DOMAIN jobs' /\ jobs'[i - 1] = "save" BY <1>1, <1>2 DEF TypeOK
<1> QED BY <1>3 DEF SaveQueued

(* A save job is queued once it was added.                                 *)
LEMMA SaveIsQueued ==
  ASSUME TypeOK, jobs' = Append(jobs, "save")
  PROVE  SaveQueued'
<1>1. Len(jobs) + 1 \in DOMAIN jobs' /\ jobs'[Len(jobs) + 1] = "save" BY DEF TypeOK
<1> QED BY <1>1 DEF SaveQueued

(* Whichever event is received, a deadline follows.                        *)
LEMMA EventsSetDeadlines ==
  ASSUME TypeOK, NEW e \in Events
  PROVE  handle_event(e) \in {"future", "due"}
BY DEF TypeOK, handle_event, Events

(* Sending an event, the thread waits or has put it into the channel.      *)
LEMMA SendIsPending ==
  ASSUME TypeOK, NEW e \in Events, main = "idle", SendEvent(e)
  PROVE  /\ main' \in {"idle", "sending"} /\ event' \in Events
         /\ channel' \in Seq(Events) /\ Len(channel') <= ChannelCap
         /\ main' = "sending" \/ channel' # <<>>
<1>0. channel \in Seq(Events) /\ Len(channel) <= ChannelCap /\ event \in Events /\ ChannelCap \in Nat
  BY AutoSaveAssumption DEF TypeOK
<1>1. CASE HasRoom(channel, ChannelCap)
  <2>1. channel' = Append(channel, e) /\ main' = main /\ event' = event BY <1>1 DEF SendEvent
  <2>2. channel' \in Seq(Events) /\ Len(channel') <= ChannelCap /\ channel' # <<>>
    BY <1>0, <1>1, <2>1, AppendFits
  <2> QED BY <1>0, <2>1, <2>2
<1>2. CASE ~HasRoom(channel, ChannelCap)
  BY <1>2 DEF SendEvent, TypeOK
<1> QED BY <1>1, <1>2

\* What a send leaves: a thread that is idle or waits, a channel in bounds.
SendTyped(m, e, ch) ==
  /\ m \in {"idle", "sending"} /\ e \in Events
  /\ ch \in Seq(Events) /\ Len(ch) <= ChannelCap
  /\ m = "sending" \/ ch # <<>>

(* The hook of a change sends an event.                                    *)
LEMMA ChangeIsSent ==
  ASSUME TypeOK, NEW d \in Docs, main = "idle", Changed(d)
  PROVE  SendTyped(main', event', channel')
<1> DEFINE e == IF on_change THEN "SaveNow" ELSE "DocumentChanged"
<1>1. e \in Events BY DEF Events
<1>2. SendEvent(e) BY DEF Changed
<1> QED BY <1>1, <1>2, SendIsPending DEF SendTyped

(* A commit makes revisions of numbers.                                    *)
LEMMA CommitTyped ==
  ASSUME TypeOK, NEW d \in Docs, Commit(d)
  PROVE  /\ last' \in [Docs -> Nat] /\ current' \in [Docs -> Nat] /\ uncommitted' \subseteq Docs
<1>1. CASE d \in uncommitted
  <2>1. last[d] + 1 \in Nat /\ last \in [Docs -> Nat] /\ current \in [Docs -> Nat] BY DEF TypeOK
  <2>2. /\ last' = [last EXCEPT ![d] = last[d] + 1] /\ current' = [current EXCEPT ![d] = last[d] + 1]
        /\ uncommitted' = uncommitted \ {d}
    BY <1>1 DEF Commit
  <2>3. uncommitted' \subseteq Docs BY <2>2 DEF TypeOK
  <2> QED BY <2>1, <2>2, <2>3
<1>2. CASE d \notin uncommitted BY <1>2 DEF Commit, TypeOK
<1> QED BY <1>1, <1>2

-----------------------------------------------------------------------------
(* The variables of AutoSave keep their types, and neither queue exceeds   *)
(* its capacity (debounce.rs:30, job.rs:83).                               *)
THEOREM TypeCorrect == Spec => []TypeOK
<1>1. Init => TypeOK
  BY AutoSaveAssumption DEF Init, TypeOK, Events
<1>2. TypeOK /\ [Next]_vars => TypeOK'
  <2> SUFFICES ASSUME TypeOK, [Next]_vars PROVE TypeOK' OBVIOUS
  <2> USE AutoSaveAssumption
  <2>1. CASE EventSent
    BY <2>1, AppendFits DEF EventSent, TypeOK, userVars, docVars, dirtVars, revVars, hookVars
  <2>2. CASE EventDropped
    BY <2>2 DEF EventDropped, TypeOK, userVars, docVars, dirtVars, revVars, hookVars
  <2>3. ASSUME NEW d \in Docs, Edit(d) PROVE TypeOK'
    <3>1. SendTyped(main', event', channel') BY <2>3, ChangeIsSent DEF Edit
    <3> QED BY <2>3, <3>1 DEF Edit, Changed, TypeOK, SendTyped, hookVars
  <2>4. ASSUME NEW d \in Docs, TimeTravel(d) PROVE TypeOK'
    <3>1. SendTyped(main', event', channel') BY <2>4, ChangeIsSent DEF TimeTravel
    <3>2. last' \in [Docs -> Nat] /\ current' \in [Docs -> Nat]
      BY <2>4 DEF TimeTravel, TypeOK
    <3> QED BY <2>4, <3>1, <3>2 DEF TimeTravel, Changed, TypeOK, SendTyped, hookVars
  <2>5. ASSUME NEW d \in Docs, LeaveInsertMode(d) PROVE TypeOK'
    <3>1. SendTyped(main', event', channel')
      BY <2>5, SendIsPending DEF LeaveInsertMode, Events, SendTyped
    <3>2. last' \in [Docs -> Nat] /\ current' \in [Docs -> Nat] /\ uncommitted' \subseteq Docs
      BY <2>5, CommitTyped DEF LeaveInsertMode
    <3> QED BY <2>5, <3>1, <3>2 DEF LeaveInsertMode, TypeOK, SendTyped, dirtVars, hookVars
  <2>6. ASSUME NEW d \in Docs, Write(d) PROVE TypeOK'
    <3>1. last' \in [Docs -> Nat] /\ current' \in [Docs -> Nat] /\ uncommitted' \subseteq Docs
      BY <2>6, CommitTyped DEF Write
    <3>2. Append(writes[d], current'[d]) \in Seq(Nat) BY <3>1 DEF TypeOK
    <3>3. writes' \in [Docs -> Seq(Nat)] BY <2>6, <3>2 DEF Write, TypeOK
    <3> QED BY <2>6, <3>1, <3>3 DEF Write, TypeOK, userVars, sendVars, hookVars
  <2>15. ASSUME NEW d \in Docs, Saved(d) PROVE TypeOK'
    <3>1. writes[d] \in Seq(Nat) /\ Head(writes[d]) \in Nat /\ Tail(writes[d]) \in Seq(Nat)
      BY <2>15 DEF Saved, TypeOK
    <3> QED BY <2>15, <3>1 DEF Saved, TypeOK, userVars, dirtVars, sendVars, hookVars
  <2>16. ASSUME NEW d \in Docs, set_modified(d) PROVE TypeOK'
    BY <2>16 DEF set_modified, TypeOK, dirtVars, sendVars, hookVars
  <2>17. CASE SaveJob
    <3>1. PICK failed \in SUBSET {d \in Docs : is_modified(d)} : save_changed_docs(failed)
      BY <2>17 DEF SaveJob
    <3>2. writes' \in [Docs -> Seq(Nat)] BY <3>1 DEF save_changed_docs, TypeOK
    <3>3. unsaved' \subseteq Docs /\ forsaken' \subseteq unsaved' /\ passed' \subseteq unsaved'
      BY <3>1 DEF save_changed_docs, TypeOK
    <3>4. jobs' \in Seq({"save", "other"}) /\ Len(jobs') <= JobCap
      BY <2>17, TailFits DEF SaveJob, TypeOK
    <3> QED BY <2>17, <3>2, <3>3, <3>4 DEF SaveJob, TypeOK, userVars, sendVars, hookVars
  <2>7. CASE OtherJob
    BY <2>7, TailFits DEF OtherJob, TypeOK, userVars, docVars, dirtVars, revVars, sendVars, hookVars
  <2>8. CASE Dispatch
    BY <2>8, AppendFits DEF Dispatch, TypeOK, userVars, docVars, dirtVars, revVars, sendVars, hookVars
  <2>9. CASE Recv
    <3>1. Head(channel) \in Events /\ channel' \in Seq(Events) /\ Len(channel') <= ChannelCap
      BY <2>9, TailFits DEF Recv, TypeOK
    <3>2. deadline' \in {"none", "future", "due"}
      BY <2>9, <3>1, EventsSetDeadlines DEF Recv
    <3> QED BY <2>9, <3>1, <3>2 DEF Recv, TypeOK, userVars, docVars, dirtVars, revVars
  <2>10. CASE Elapse
    BY <2>10 DEF Elapse, TypeOK, userVars, docVars, dirtVars, revVars, sendVars
  <2>11. CASE FinishDebounce
    <3>1. jobs' \in Seq({"save", "other"}) /\ Len(jobs') <= JobCap
      BY <2>11, AppendFits DEF FinishDebounce, TypeOK
    <3>2. deadline' \in {"none", "future", "due"} /\ hook' \in {"running", "dispatching"}
      BY <2>11 DEF FinishDebounce, TypeOK
    <3> QED BY <2>11, <3>1, <3>2 DEF FinishDebounce, TypeOK, userVars, docVars, dirtVars, revVars, sendVars
  <2>12. CASE JobSent
    BY <2>12, AppendFits DEF JobSent, TypeOK, userVars, docVars, dirtVars, revVars, sendVars
  <2>13. CASE JobDropped
    BY <2>13 DEF JobDropped, TypeOK, userVars, revVars, sendVars
  <2>14. CASE UNCHANGED vars
    BY <2>14 DEF vars, TypeOK, userVars, docVars, dirtVars, revVars, sendVars, hookVars
  <2> QED BY <2>1, <2>2, <2>3, <2>4, <2>5, <2>6, <2>7, <2>8, <2>9, <2>10, <2>11, <2>12,
             <2>13, <2>14, <2>15, <2>16, <2>17 DEF Next, User, EventLoop, MainThread, HookTask
<1> QED BY <1>1, <1>2, PTL DEF Spec

-----------------------------------------------------------------------------
(* The revisions of a document whose mark is right: none that was or will  *)
(* be marked as saved is newer than its history, and those of an unsaved   *)
(* document are older than the one it is at.                               *)
InOrder ==
  \A d \in Docs :
    /\ current[d] <= last[d]
    /\ \A i \in DOMAIN writes[d] : writes[d][i] <= last[d]
    /\ d \notin astray => saved[d] <= last[d]
    /\ d \in unsaved \ (astray \cup uncommitted) =>
         /\ saved[d] < current[d]
         /\ \A i \in DOMAIN writes[d] : writes[d][i] < current[d]

(* Such a document is shown as modified, and a job does not pass over it.  *)
LEMMA UnsavedIsModified ==
  ASSUME TypeOK, InOrder, NEW d \in unsaved \ astray
  PROVE  is_modified(d)
<1>1. CASE d \in uncommitted BY <1>1 DEF is_modified
<1>2. CASE d \notin uncommitted
  <2>1. d \in Docs /\ saved[d] \in Nat /\ current[d] \in Nat BY DEF TypeOK
  <2>2. saved[d] < current[d] BY <1>2, <2>1 DEF InOrder
  <2> QED BY <2>1, <2>2 DEF is_modified
<1> QED BY <1>1, <1>2

(* A commit keeps the order: its revision is newer than all others.        *)
LEMMA CommitKeepsOrder ==
  ASSUME TypeOK, InOrder, NEW d \in Docs, Commit(d),
         UNCHANGED <<saved, writes, astray>>, unsaved' \subseteq unsaved
  PROVE  InOrder'
<1> SUFFICES ASSUME NEW c \in Docs
             PROVE  /\ current'[c] <= last'[c]
                    /\ \A i \in DOMAIN writes[c] : writes[c][i] <= last'[c]
                    /\ c \notin astray => saved[c] <= last'[c]
                    /\ c \in unsaved' \ (astray \cup uncommitted') =>
                         /\ saved[c] < current'[c]
                         /\ \A i \in DOMAIN writes[c] : writes[c][i] < current'[c]
  BY DEF InOrder
<1>0. last[c] \in Nat /\ current[c] \in Nat /\ saved[c] \in Nat /\ writes[c] \in Seq(Nat)
  BY DEF TypeOK
<1>1. \A i \in DOMAIN writes[c] : writes[c][i] \in Nat
  BY <1>0
<1>2. CASE c = d /\ d \in uncommitted
  <2>1. last'[c] = last[c] + 1 /\ current'[c] = last[c] + 1 BY <1>2 DEF Commit, TypeOK
  <2> QED BY <1>0, <1>1, <2>1 DEF InOrder
<1>3. CASE ~(c = d /\ d \in uncommitted)
  <2>1. /\ last'[c] = last[c] /\ current'[c] = current[c]
        /\ c \in uncommitted' <=> c \in uncommitted
    BY <1>3 DEF Commit, TypeOK
  <2> QED BY <2>1 DEF InOrder
<1> QED BY <1>2, <1>3

(* A revision appended to the saves under way of a document that is not,   *)
(* or no longer, unsaved.                                                  *)
LEMMA AppendKeepsOrder ==
  ASSUME NEW q \in Seq(Nat), NEW rev \in Nat, NEW l \in Nat, rev <= l,
         \A i \in DOMAIN q : q[i] <= l
  PROVE  \A i \in DOMAIN Append(q, rev) : Append(q, rev)[i] <= l
<1> TAKE i \in DOMAIN Append(q, rev)
<1>1. CASE i \in DOMAIN q BY <1>1
<1>2. CASE i = Len(q) + 1 BY <1>2
<1> QED BY <1>1, <1>2

(* The order is kept by every step.                                        *)
LEMMA OrderIsInductive == TypeOK /\ InOrder /\ [Next]_vars => InOrder'
<1> SUFFICES ASSUME TypeOK, InOrder, [Next]_vars PROVE InOrder' OBVIOUS
<1>0. \A c \in Docs : /\ last[c] \in Nat /\ current[c] \in Nat /\ saved[c] \in Nat
                      /\ writes[c] \in Seq(Nat)
  BY DEF TypeOK
<1>1. ASSUME UNCHANGED <<revVars>>, unsaved' \subseteq unsaved PROVE InOrder'
  BY <1>1 DEF InOrder, revVars
<1>2. ASSUME NEW d \in Docs, Edit(d) PROVE InOrder'
  <2>1. /\ UNCHANGED <<last, current, saved, writes>> /\ unsaved' = unsaved \cup {d}
        /\ uncommitted' = uncommitted \cup {d}
        /\ astray' = IF saved[d] <= last[d] THEN astray \ {d} ELSE astray
    BY <1>2 DEF Edit, Changed
  <2> QED BY <2>1 DEF InOrder
<1>3. ASSUME NEW d \in Docs, TimeTravel(d) PROVE InOrder'
  <2> DEFINE newest == IF d \in uncommitted THEN last[d] + 1 ELSE last[d]
  <2>1. /\ UNCHANGED <<saved, writes>> /\ unsaved' = unsaved \cup {d}
        /\ uncommitted' = uncommitted \ {d} /\ astray' = astray \cup {d}
        /\ last' = [last EXCEPT ![d] = newest]
        /\ \E rev \in 0..newest : current' = [current EXCEPT ![d] = rev]
    BY <1>3 DEF TimeTravel, Changed
  <2>2. newest \in Nat /\ last[d] <= newest BY <1>0
  <2>3. \A c \in Docs \ {d} : last'[c] = last[c] /\ current'[c] = current[c]
    BY <2>1 DEF TypeOK
  <2>4. last'[d] = newest /\ current'[d] <= newest
    <3>1. PICK rev \in 0..newest : current' = [current EXCEPT ![d] = rev] BY <2>1
    <3> QED BY <2>1, <2>2, <3>1 DEF TypeOK
  <2>5. \A i \in DOMAIN writes[d] : writes[d][i] <= newest
    BY <1>0, <2>2 DEF InOrder
  <2> QED BY <2>1, <2>3, <2>4, <2>5 DEF InOrder
<1>4. ASSUME NEW d \in Docs, LeaveInsertMode(d) PROVE InOrder'
  BY <1>4, CommitKeepsOrder DEF LeaveInsertMode, dirtVars
<1>5. ASSUME NEW d \in Docs, Write(d) PROVE InOrder'
  <2> SUFFICES ASSUME NEW c \in Docs
               PROVE  /\ current'[c] <= last'[c]
                      /\ \A i \in DOMAIN writes'[c] : writes'[c][i] <= last'[c]
                      /\ c \notin astray => saved[c] <= last'[c]
                      /\ c \in unsaved' \ (astray \cup uncommitted') =>
                           /\ saved[c] < current'[c]
                           /\ \A i \in DOMAIN writes'[c] : writes'[c][i] < current'[c]
    BY <1>5 DEF InOrder, Write
  <2>1. /\ UNCHANGED <<saved, astray>> /\ Commit(d) /\ unsaved' = unsaved \ {d}
        /\ writes' = [writes EXCEPT ![d] = Append(@, current'[d])]
    BY <1>5 DEF Write
  <2>2. CASE c # d
    <3>1. /\ writes'[c] = writes[c] /\ last'[c] = last[c] /\ current'[c] = current[c]
          /\ c \in uncommitted' <=> c \in uncommitted
      BY <2>1, <2>2 DEF Commit, TypeOK
    <3> QED BY <2>1, <3>1 DEF InOrder
  <2>3. CASE c = d
    <3>1. /\ last'[d] \in Nat /\ current'[d] \in Nat /\ current'[d] <= last'[d] /\ last[d] <= last'[d]
      <4>1. current[d] <= last[d] BY DEF InOrder
      <4>2. CASE d \in uncommitted
        <5>1. last'[d] = last[d] + 1 /\ current'[d] = last[d] + 1
          BY <2>1, <4>2 DEF Commit, TypeOK
        <5> QED BY <1>0, <5>1
      <4>3. CASE d \notin uncommitted
        BY <1>0, <2>1, <4>1, <4>3 DEF Commit
      <4> QED BY <4>2, <4>3
    <3>2. \A i \in DOMAIN writes[d] : writes[d][i] <= last'[d]
      BY <1>0, <3>1 DEF InOrder
    <3>3. writes'[d] = Append(writes[d], current'[d]) BY <2>1 DEF TypeOK
    <3>4. \A i \in DOMAIN writes'[d] : writes'[d][i] <= last'[d]
      BY <1>0, <3>1, <3>2, <3>3, AppendKeepsOrder
    <3>5. d \notin astray => saved[d] <= last'[d] BY <1>0, <3>1 DEF InOrder
    <3> QED BY <2>1, <2>3, <3>1, <3>4, <3>5
  <2> QED BY <2>2, <2>3
<1>6. ASSUME NEW d \in Docs, Saved(d) PROVE InOrder'
  <2>1. /\ UNCHANGED <<unsaved, uncommitted, last, current, astray>> /\ writes[d] # <<>>
        /\ saved' = [saved EXCEPT ![d] = Head(writes[d])]
        /\ writes' = [writes EXCEPT ![d] = Tail(@)]
    BY <1>6 DEF Saved, dirtVars
  <2>2. \A c \in Docs \ {d} : saved'[c] = saved[c] /\ writes'[c] = writes[c]
    BY <2>1 DEF TypeOK
  <2>3. saved'[d] = writes[d][1] /\ 1 \in DOMAIN writes[d]
    BY <1>0, <2>1 DEF TypeOK
  <2>4. \A i \in DOMAIN writes'[d] : i + 1 \in DOMAIN writes[d] /\ writes'[d][i] = writes[d][i + 1]
    BY <1>0, <2>1 DEF TypeOK
  <2> QED BY <2>1, <2>2, <2>3, <2>4 DEF InOrder
<1>7. ASSUME NEW d \in Docs, set_modified(d) PROVE InOrder'
  <2>1. /\ UNCHANGED <<unsaved, uncommitted, last, current, writes>>
        /\ astray' = astray \cup {d}
        /\ \A c \in Docs \ {d} : saved'[c] = saved[c]
    BY <1>7 DEF set_modified, dirtVars, TypeOK
  <2> QED BY <2>1 DEF InOrder
<1>8. CASE SaveJob
  <2>1. PICK failed \in SUBSET {d \in Docs : is_modified(d)} : save_changed_docs(failed)
    BY <1>8 DEF SaveJob
  <2> DEFINE given == {d \in Docs : is_modified(d)} \ failed
  <2>2. /\ UNCHANGED <<uncommitted, last, current, saved, astray>> /\ unsaved' = unsaved \ given
        /\ \A c \in Docs : writes'[c] = IF c \in given THEN Append(writes[c], current[c])
                                        ELSE writes[c]
    BY <1>8, <2>1 DEF SaveJob, save_changed_docs
  <2>3. \A c \in Docs : \A i \in DOMAIN writes'[c] : writes'[c][i] <= last[c]
    <3> TAKE c \in Docs
    <3>1. CASE c \in given
      BY <1>0, <2>2, <3>1, AppendKeepsOrder DEF InOrder
    <3>2. CASE c \notin given
      BY <2>2, <3>2 DEF InOrder
    <3> QED BY <3>1, <3>2
  <2> QED BY <2>2, <2>3 DEF InOrder
<1>9. CASE EventSent \/ EventDropped \/ OtherJob \/ Dispatch \/ HookTask \/ UNCHANGED vars
  <2>1. UNCHANGED <<revVars, unsaved>>
    BY <1>9 DEF EventSent, EventDropped, OtherJob, Dispatch, HookTask, Recv, Elapse,
                FinishDebounce, JobSent, JobDropped, vars, docVars, dirtVars
  <2> QED BY <1>1, <2>1
<1> QED BY <1>2, <1>3, <1>4, <1>5, <1>6, <1>7, <1>8, <1>9
        DEF Next, User, EventLoop, MainThread

(* The order holds from the start, when nothing was edited.                *)
LEMMA OrderAtStart == Init => InOrder
<1> SUFFICES ASSUME Init PROVE InOrder OBVIOUS
<1>1. \A d \in Docs : last[d] = 0 /\ current[d] = 0 /\ saved[d] = 0 /\ writes[d] = <<>>
  BY DEF Init
<1>2. unsaved = {} BY DEF Init
<1> SUFFICES ASSUME NEW d \in Docs
             PROVE  /\ current[d] <= last[d]
                    /\ \A i \in DOMAIN writes[d] : writes[d][i] <= last[d]
                    /\ saved[d] <= last[d]
  BY <1>2 DEF InOrder
<1>3. DOMAIN writes[d] = {}
  <2>1. writes[d] = <<>> BY <1>1
  <2> QED BY <2>1
<1> QED BY <1>1, <1>3

-----------------------------------------------------------------------------
(* An unsaved change always has something under way that will save it,     *)
(* whatever is dropped on the way (debounce.rs:63, auto_save.rs:55).       *)
THEOREM NothingIsForgotten == Spec => []UnsavedIsPending
<1>1. Init => UnsavedIsPending
  BY DEF Init, UnsavedIsPending
<1>2. TypeOK /\ InOrder /\ UnsavedIsPending /\ [Next]_vars => UnsavedIsPending'
  <2> SUFFICES ASSUME TypeOK, InOrder, UnsavedIsPending, [Next]_vars PROVE UnsavedIsPending' OBVIOUS
  <2> USE AutoSaveAssumption
  <2>1. CASE EventSent
    <3>1. channel' # <<>> BY <2>1, AppendFits DEF EventSent, TypeOK
    <3> QED BY <3>1 DEF UnsavedIsPending, Pending
  <2>2. CASE EventDropped
    <3>1. channel' # <<>> BY <2>2, FullIsNotEmpty DEF EventDropped
    <3> QED BY <3>1 DEF UnsavedIsPending, Pending
  <2>3. ASSUME NEW d \in Docs, Edit(d) PROVE UnsavedIsPending'
    <3>1. main' = "sending" \/ channel' # <<>>
      BY <2>3, ChangeIsSent DEF Edit, SendTyped
    <3> QED BY <3>1 DEF UnsavedIsPending, Pending
  <2>4. ASSUME NEW d \in Docs, TimeTravel(d) PROVE UnsavedIsPending'
    <3>1. main' = "sending" \/ channel' # <<>>
      BY <2>4, ChangeIsSent DEF TimeTravel, SendTyped
    <3> QED BY <3>1 DEF UnsavedIsPending, Pending
  <2>5. ASSUME NEW d \in Docs, LeaveInsertMode(d) PROVE UnsavedIsPending'
    <3>1. main' = "sending" \/ channel' # <<>>
      BY <2>5, SendIsPending DEF LeaveInsertMode, Events
    <3> QED BY <3>1 DEF UnsavedIsPending, Pending
  <2>6. ASSUME NEW d \in Docs, Write(d) PROVE UnsavedIsPending'
    BY <2>6 DEF Write, UnsavedIsPending, Pending, SaveQueued, sendVars, hookVars
  <2>15. ASSUME NEW d \in Docs, Saved(d) PROVE UnsavedIsPending'
    BY <2>15 DEF Saved, UnsavedIsPending, Pending, SaveQueued, dirtVars, sendVars, hookVars
  <2>16. ASSUME NEW d \in Docs, set_modified(d) PROVE UnsavedIsPending'
    BY <2>16 DEF set_modified, UnsavedIsPending, Pending, SaveQueued, dirtVars, sendVars, hookVars
  <2>17. CASE SaveJob
    <3>1. PICK failed \in SUBSET {d \in Docs : is_modified(d)} : save_changed_docs(failed)
      BY <2>17 DEF SaveJob
    <3>2. unsaved \subseteq Docs BY DEF TypeOK
    <3> QED BY <3>1, <3>2, UnsavedIsModified DEF save_changed_docs, UnsavedIsPending
  <2>7. CASE OtherJob
    <3>1. SaveQueued => SaveQueued' BY <2>7, SaveStaysOnTail DEF OtherJob
    <3> QED BY <2>7, <3>1 DEF OtherJob, UnsavedIsPending, Pending, docVars, dirtVars, sendVars, hookVars
  <2>8. CASE Dispatch
    <3>1. SaveQueued => SaveQueued' BY <2>8, SaveStaysOnAppend DEF Dispatch
    <3> QED BY <2>8, <3>1 DEF Dispatch, UnsavedIsPending, Pending, docVars, dirtVars, sendVars, hookVars
  <2>9. CASE Recv
    <3>1. Head(channel) \in Events BY <2>9, TailFits DEF Recv, TypeOK
    <3>2. deadline' # "none" BY <2>9, <3>1, EventsSetDeadlines DEF Recv
    <3> QED BY <3>2 DEF UnsavedIsPending, Pending
  <2>10. CASE Elapse
    BY <2>10 DEF Elapse, UnsavedIsPending, Pending
  <2>11. CASE FinishDebounce
    <3>1. SaveQueued' \/ deadline' # "none"
      BY <2>11, SaveIsQueued DEF FinishDebounce
    <3> QED BY <3>1 DEF UnsavedIsPending, Pending
  <2>12. CASE JobSent
    <3>1. SaveQueued' BY <2>12, SaveIsQueued DEF JobSent
    <3> QED BY <3>1 DEF UnsavedIsPending, Pending
  <2>13. CASE JobDropped
    BY <2>13 DEF JobDropped, UnsavedIsPending, Pending, SaveQueued, sendVars
  <2>14. CASE UNCHANGED vars
    BY <2>14 DEF vars, UnsavedIsPending, Pending, SaveQueued, docVars, dirtVars, sendVars, hookVars
  <2> QED BY <2>1, <2>2, <2>3, <2>4, <2>5, <2>6, <2>7, <2>8, <2>9, <2>10, <2>11, <2>12,
             <2>13, <2>14, <2>15, <2>16, <2>17 DEF Next, User, EventLoop, MainThread, HookTask
<1> QED BY <1>1, <1>2, OrderAtStart, OrderIsInductive, TypeCorrect, PTL DEF Spec
=============================================================================
