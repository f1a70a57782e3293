------------------------------ MODULE AutoSave ------------------------------
(***************************************************************************)
(* Autosave: the hooks of zmax-term/src/handlers/auto_save.rs on the        *)
(* debounce loop of zmax-event/src/debounce.rs, and the job queue of        *)
(* zmax-term/src/job.rs that brings the save back to the main thread.       *)
(*                                                                         *)
(* Two bounded channels connect the main thread and the handler's task in  *)
(* a circle: the main thread sends events and runs jobs, the task receives *)
(* events and sends jobs.  Each blocks the other when its channel is full, *)
(* for 10 ms at the most.  What a save does is module FileSave's matter;    *)
(* here it takes the text, and brings back the revision it stands for.     *)
(***************************************************************************)
EXTENDS Naturals, Sequences

CONSTANTS Docs,         \* documents with a path
          ChannelCap,   \* events the hook's channel holds (128 in the code)
          JobCap,       \* jobs the queue holds (1024 in the code)
          MaxEdits,     \* bound: edits and other keys
          MaxOthers     \* bound: jobs of other tasks

ASSUME AutoSaveAssumption ==
  /\ ChannelCap \in Nat \ {0} /\ JobCap \in Nat \ {0}
  /\ MaxEdits \in Nat /\ MaxOthers \in Nat

VARIABLES
  on_change,   \* the setting: save at once, or after a delay
  unsaved,     \* documents with changes that no save has been given yet
  forsaken,    \* of those, the ones whose save failed or whose job was dropped
  passed,      \* and the ones a job passed over as they were shown as unmodified
  uncommitted, \* documents whose last change is not in the history
  last,        \* the newest revision of each document,
  current,     \* the one it is at,
  saved,       \* and its last_saved_revision
  writes,      \* the revisions of its saves whose event is still to come
  astray,      \* documents whose saved revision may be of another text
  main,        \* the main thread: idle, or blocked in send_blocking
  event,       \* the event it is sending
  channel,     \* the hook's channel
  deadline,    \* the debounce: none, future, or due
  hook,        \* the hook's task: running, or blocked in dispatch_blocking
  jobs,        \* JOB_QUEUE: save, or the job of another task
  edits, others

userVars == <<on_change, edits>>
dirtVars == <<unsaved, forsaken, passed>>
revVars  == <<uncommitted, last, current, saved, writes, astray>>
docVars  == <<dirtVars, revVars>>
sendVars == <<main, event, channel>>
hookVars == <<deadline, hook>>
vars == <<userVars, docVars, sendVars, hookVars, jobs, others>>

Events == {"SaveNow", "DocumentChanged", "LeftInsertMode"}

-----------------------------------------------------------------------------
(* send_blocking: a full channel blocks the sender until there is room or  *)
(* 10 ms have passed, after which the message is dropped.                  *)

HasRoom(q, cap) == Len(q) < cap

\* Mutant: send instead of send_timeout.
NeverGivesUp(q, cap) == FALSE

GivesUp(q, cap) == ~HasRoom(q, cap)

\* The main thread sends the event e.
SendEvent(e) ==
  IF HasRoom(channel, ChannelCap)
  THEN channel' = Append(channel, e) /\ UNCHANGED <<main, event>>
  ELSE main' = "sending" /\ event' = e /\ UNCHANGED channel

EventSent ==
  /\ main = "sending" /\ HasRoom(channel, ChannelCap)
  /\ channel' = Append(channel, event)
  /\ main' = "idle"
  /\ UNCHANGED <<userVars, docVars, event, hookVars, jobs, others>>

EventDropped ==
  /\ main = "sending" /\ GivesUp(channel, ChannelCap)
  /\ main' = "idle"
  /\ UNCHANGED <<userVars, docVars, event, channel, hookVars, jobs, others>>

-----------------------------------------------------------------------------
(* The main thread.                                                        *)

\* Document::is_modified.
is_modified(d) == d \in uncommitted \/ current[d] # saved[d]

\* append_changes_to_history.
Commit(d) ==
  /\ uncommitted' = uncommitted \ {d}
  /\ IF d \in uncommitted
     THEN last' = [last EXCEPT ![d] = @ + 1] /\ current' = [current EXCEPT ![d] = last[d] + 1]
     ELSE UNCHANGED <<last, current>>

\* The DocumentDidChange hook: d differs from its file, for all one knows.
Changed(d) ==
  /\ edits < MaxEdits /\ edits' = edits + 1
  /\ unsaved' = unsaved \cup {d}
  /\ forsaken' = forsaken \ {d} /\ passed' = passed \ {d}
  /\ SendEvent(IF on_change THEN "SaveNow" ELSE "DocumentChanged")

\* A change that is no ghost transaction.  The revision it will be committed
\* as is new, unless the mark was set ahead of the history.
Edit(d) ==
  /\ main = "idle" /\ Changed(d)
  /\ uncommitted' = uncommitted \cup {d}
  /\ astray' = IF saved[d] <= last[d] THEN astray \ {d} ELSE astray
  /\ UNCHANGED <<on_change, last, current, saved, writes, hookVars, jobs, others>>

\* Undo, redo and the jumps: to a text that may be the file's or not.
TimeTravel(d) ==
  /\ main = "idle" /\ Changed(d)
  /\ uncommitted' = uncommitted \ {d}
  /\ LET newest == IF d \in uncommitted THEN last[d] + 1 ELSE last[d]
         from   == IF d \in uncommitted THEN newest ELSE current[d]
     IN /\ last' = [last EXCEPT ![d] = newest]
        /\ \E rev \in (0..newest) \ {from} : current' = [current EXCEPT ![d] = rev]
  /\ astray' = astray \cup {d}
  /\ UNCHANGED <<on_change, saved, writes, hookVars, jobs, others>>

\* Esc: changes are committed, and the OnModeSwitch hook runs.
LeaveInsertMode(d) ==
  /\ main = "idle" /\ edits < MaxEdits
  /\ edits' = edits + 1
  /\ Commit(d)
  /\ SendEvent("LeftInsertMode")
  /\ UNCHANGED <<on_change, dirtVars, saved, writes, astray, hookVars, jobs, others>>

\* The user saves the document.
Write(d) ==
  /\ main = "idle" /\ d \in unsaved
  /\ Commit(d)
  /\ unsaved' = unsaved \ {d}
  /\ forsaken' = forsaken \ {d} /\ passed' = passed \ {d}
  /\ writes' = [writes EXCEPT ![d] = Append(@, current'[d])]
  /\ UNCHANGED <<userVars, saved, astray, sendVars, hookVars, jobs, others>>

\* The event of a save arrives: set_last_saved_revision.
Saved(d) ==
  /\ main = "idle" /\ writes[d] # <<>>
  /\ saved' = [saved EXCEPT ![d] = Head(writes[d])]
  /\ writes' = [writes EXCEPT ![d] = Tail(@)]
  /\ UNCHANGED <<userVars, dirtVars, uncommitted, last, current, astray, sendVars, hookVars, jobs, others>>

\* :set modified and :set nomodified.
set_modified(d) ==
  /\ main = "idle" /\ edits < MaxEdits
  /\ edits' = edits + 1
  /\ \E mark \in {current[d], current[d] + 1} : saved' = [saved EXCEPT ![d] = mark]
  /\ astray' = astray \cup {d}
  /\ UNCHANGED <<on_change, dirtVars, uncommitted, last, current, writes, sendVars, hookVars, jobs, others>>

\* Mutant: the loop ends with the first save that fails.
save_some_docs(failed) ==
  LET to_save == {d \in Docs : is_modified(d)}
  IN \E rest \in SUBSET to_save :
       /\ failed # {} \/ rest = {}
       /\ unsaved' = unsaved \ (to_save \ (failed \cup rest))
       /\ forsaken' = unsaved \cap failed
       /\ passed' = (unsaved \cap astray) \ to_save
       /\ writes' = [d \in Docs |-> IF d \in to_save \ (failed \cup rest)
                                    THEN Append(writes[d], current[d]) ELSE writes[d]]

\* Every document shown as modified is saved, without a commit; the user is
\* told of those that cannot be saved.
save_changed_docs(failed) ==
  LET to_save == {d \in Docs : is_modified(d)}
  IN /\ unsaved' = unsaved \ (to_save \ failed)
     /\ forsaken' = unsaved \cap failed
     /\ passed' = (unsaved \cap astray) \ to_save
     /\ writes' = [d \in Docs |-> IF d \in to_save \ failed
                                  THEN Append(writes[d], current[d]) ELSE writes[d]]

SaveJob ==
  /\ main = "idle" /\ jobs # <<>> /\ Head(jobs) = "save"
  /\ \E failed \in SUBSET {d \in Docs : is_modified(d)} : save_changed_docs(failed)
  /\ jobs' = Tail(jobs)
  /\ UNCHANGED <<userVars, uncommitted, last, current, saved, astray, sendVars, hookVars, others>>

OtherJob ==
  /\ main = "idle" /\ jobs # <<>> /\ Head(jobs) = "other"
  /\ jobs' = Tail(jobs)
  /\ UNCHANGED <<userVars, docVars, sendVars, hookVars, others>>

\* dispatch: another task sends a job, and waits as long as it takes.
Dispatch ==
  /\ others < MaxOthers /\ HasRoom(jobs, JobCap)
  /\ others' = others + 1
  /\ jobs' = Append(jobs, "other")
  /\ UNCHANGED <<userVars, docVars, sendVars, hookVars>>

-----------------------------------------------------------------------------
(* The hook's task: the loop of debounce.rs.                               *)

\* Mutant: leaving insert mode starts no debounce.
handle_event_lazily(e) ==
  CASE e = "SaveNow"         -> "due"
    [] e = "DocumentChanged" -> "future"
    [] OTHER                 -> deadline

handle_event(e) ==
  CASE e = "SaveNow"         -> "due"
    [] e = "DocumentChanged" -> "future"
    [] OTHER                 -> IF deadline = "none" THEN "due" ELSE deadline

\* timeout_at polls the channel before it looks at the deadline.
Recv ==
  /\ hook = "running" /\ channel # <<>>
  /\ deadline' = handle_event(Head(channel))
  /\ channel' = Tail(channel)
  /\ UNCHANGED <<userVars, docVars, main, event, hook, jobs, others>>

Elapse ==
  /\ deadline = "future"
  /\ deadline' = "due"
  /\ UNCHANGED <<userVars, docVars, sendVars, hook, jobs, others>>

\* finish_debounce: dispatch_blocking, at once or after a wait.
FinishDebounce ==
  /\ hook = "running" /\ deadline = "due" /\ channel = <<>>
  /\ IF HasRoom(jobs, JobCap)
     THEN jobs' = Append(jobs, "save") /\ deadline' = "none" /\ UNCHANGED hook
     ELSE hook' = "dispatching" /\ UNCHANGED <<jobs, deadline>>
  /\ UNCHANGED <<userVars, docVars, sendVars, others>>

JobSent ==
  /\ hook = "dispatching" /\ HasRoom(jobs, JobCap)
  /\ jobs' = Append(jobs, "save")
  /\ hook' = "running" /\ deadline' = "none"
  /\ UNCHANGED <<userVars, docVars, sendVars, others>>

SaveQueued == \E i \in DOMAIN jobs : jobs[i] = "save"

\* The job is dropped; nobody is told.
JobDropped ==
  /\ hook = "dispatching" /\ GivesUp(jobs, JobCap)
  /\ hook' = "running" /\ deadline' = "none"
  /\ forsaken' = IF main = "sending" \/ channel # <<>> \/ SaveQueued
                 THEN forsaken ELSE unsaved
  /\ UNCHANGED <<userVars, unsaved, passed, revVars, sendVars, jobs, others>>

-----------------------------------------------------------------------------
Init ==
  /\ on_change \in BOOLEAN
  /\ unsaved = {} /\ forsaken = {} /\ passed = {}
  /\ uncommitted = {} /\ astray = {}
  /\ last = [d \in Docs |-> 0] /\ current = last /\ saved = last
  /\ writes = [d \in Docs |-> <<>>]
  /\ main = "idle" /\ event = "SaveNow" /\ channel = <<>>
  /\ deadline = "none" /\ hook = "running"
  /\ jobs = <<>> /\ edits = 0 /\ others = 0

User       == \E d \in Docs : Edit(d) \/ TimeTravel(d) \/ LeaveInsertMode(d) \/ Write(d) \/ set_modified(d)
EventLoop  == \E d \in Docs : Saved(d)
MainThread == EventSent \/ EventDropped \/ SaveJob \/ OtherJob
HookTask   == Recv \/ Elapse \/ FinishDebounce \/ JobSent \/ JobDropped

Next == User \/ EventLoop \/ MainThread \/ HookTask \/ Dispatch

(* The main thread and the task run, and timers fire.  Nothing is assumed  *)
(* of the user or of the tasks that send other jobs.                       *)
Spec == Init /\ [][Next]_vars /\ WF_vars(MainThread) /\ WF_vars(HookTask)

-----------------------------------------------------------------------------
TypeOK ==
  /\ on_change \in BOOLEAN
  /\ unsaved \subseteq Docs /\ forsaken \subseteq unsaved /\ passed \subseteq unsaved
  /\ uncommitted \subseteq Docs /\ astray \subseteq Docs
  /\ last \in [Docs -> Nat] /\ current \in [Docs -> Nat] /\ saved \in [Docs -> Nat]
  /\ writes \in [Docs -> Seq(Nat)]
  /\ main \in {"idle", "sending"} /\ event \in Events
  /\ channel \in Seq(Events) /\ Len(channel) <= ChannelCap
  /\ deadline \in {"none", "future", "due"} /\ hook \in {"running", "dispatching"}
  /\ jobs \in Seq({"save", "other"}) /\ Len(jobs) <= JobCap
  /\ edits \in 0..MaxEdits /\ others \in 0..MaxOthers

\* Something is under way that ends in a save of every modified document.
Pending == main = "sending" \/ channel # <<>> \/ deadline # "none" \/ SaveQueued

(* An unsaved change is never left to itself: an event, a deadline or a    *)
(* job will save it.  An event dropped by send_blocking (debounce.rs:68)   *)
(* loses nothing.  Given up are changes whose save failed or whose job was *)
(* dropped, and those a job passes over (auto_save.rs:71), which happens   *)
(* only where undo or :set modified led to the revision last saved.        *)
UnsavedIsPending == unsaved \subseteq forsaken \cup passed \/ Pending

(* Autosave reaches every change it has not given up on.                   *)
ModifiedIsSaved == \A d \in Docs : d \in unsaved ~> d \notin unsaved \ (forsaken \cup passed)

(* "we just drop a message instead of freezing the editor"                 *)
(* (debounce.rs:67): the main thread, blocked on a task that is blocked on *)
(* the main thread's own job queue, goes on.                               *)
EditorNeverFreezes == main = "sending" ~> main = "idle"
=============================================================================
