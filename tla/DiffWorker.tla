----------------------------- MODULE DiffWorker -----------------------------
(***************************************************************************)
(* The diff of a buffer against its version-control base, computed by a    *)
(* worker beside the editor: zmax-vcs/src/diff.rs, diff/worker.rs and       *)
(* diff/line_cache.rs, with the render lock and the redraw signal of        *)
(* zmax-event/src/redraw.rs through which the two meet.                     *)
(*                                                                         *)
(* The main thread edits and draws frames; the worker gathers events,      *)
(* diffs and publishes; a task spawned for each diff releases the render   *)
(* lock or asks for a redraw.  Texts are versions.  Texts too large to be  *)
(* diffed are left out.                                                    *)
(***************************************************************************)
EXTENDS Integers, Sequences

CONSTANTS MaxEdits,   \* bound: edits of the document
          MaxBases    \* bound: updates of the diff base

ASSUME DiffAssumption == MaxEdits \in Nat /\ MaxBases \in Nat

NoText == -1        \* Option<Rope>::None
NoLock == 0         \* Option<RenderLock>::None
Cycles == 1..(MaxEdits + MaxBases)    \* a diff takes an event at least

VARIABLES
  text, base,       \* the document's text and its diff base
  main,             \* the main thread: idle, or waiting in start_frame
  wantFrame,        \* a render follows what is being handled
  drawn,            \* the last frame: the text, and the diff it showed
  channel,          \* events on their way to the worker
  locks,            \* the read guards of RENDER_LOCK that live; a guard is
                    \* named by the text it was taken for
  now,              \* guards up to this one have timed out
  worker,           \* the worker: idle, debouncing, diffing
  acc,              \* the EventAccumulator
  cache,            \* InternedRopeLines: the texts the worker diffs
  shown,            \* DiffInner: the texts of the published hunks
  task, cycle,      \* the task of each diff, and the diffs begun
  permit,           \* REDRAW_NOTIFY
  needs_redraw, redraw_timer

editorVars == <<text, base>>
frameVars  == <<main, wantFrame, drawn>>
workerVars == <<worker, acc, cache, shown>>
redrawVars == <<permit, needs_redraw, redraw_timer>>
vars == <<editorVars, frameVars, channel, locks, now, workerVars, task, cycle, redrawVars>>

Texts(b, d) == [base |-> b, doc |-> d]
Nothing     == [base |-> NoText, doc |-> NoText, lock |-> NoLock]
Event(k, t, l) == [kind |-> k, text |-> t, lock |-> l]     \* is_base: kind "base"

-----------------------------------------------------------------------------
(* The main thread.                                                        *)

\* An edit sends the text with a render lock; block is false at the only
\* call (document.rs:2628), so that every lock has a timeout.
update_document ==
  /\ main = "idle" /\ text < MaxEdits
  /\ text' = text + 1
  /\ locks' = locks \cup {text'}
  /\ channel' = Append(channel, Event("doc", text', text'))
  /\ wantFrame' = TRUE
  /\ UNCHANGED <<base, main, drawn, now, workerVars, task, cycle, redrawVars>>

update_diff_base ==
  /\ main = "idle" /\ base < MaxBases
  /\ base' = base + 1
  /\ channel' = Append(channel, Event("base", base', NoLock))
  /\ wantFrame' = TRUE
  /\ UNCHANGED <<text, main, drawn, locks, now, workerVars, task, cycle, redrawVars>>

\* render reaches start_frame, which waits for the write lock ...
BeginFrame ==
  /\ main = "idle" /\ wantFrame
  /\ main' = "waiting"
  /\ UNCHANGED <<editorVars, wantFrame, drawn, channel, locks, now, workerVars, task, cycle,
                 redrawVars>>

\* ... then forgets the redraws asked for; the gutter loads the diff.
start_frame ==
  /\ main = "waiting" /\ locks = {}
  /\ main' = "idle" /\ wantFrame' = FALSE
  /\ permit' = FALSE /\ needs_redraw' = FALSE
  /\ drawn' = [text |-> text, diff |-> shown]
  /\ UNCHANGED <<editorVars, channel, locks, now, workerVars, task, cycle, redraw_timer>>

\* wait_event: the first request arms a timer of 33 ms, which renders.
redraw_requested ==
  /\ main = "idle" /\ ~wantFrame /\ permit
  /\ permit' = FALSE /\ needs_redraw' = TRUE
  /\ redraw_timer' = (redraw_timer \/ ~needs_redraw)
  /\ UNCHANGED <<editorVars, frameVars, channel, locks, now, workerVars, task, cycle>>

RedrawTimer ==
  /\ main = "idle" /\ ~wantFrame /\ redraw_timer
  /\ redraw_timer' = FALSE /\ wantFrame' = TRUE
  /\ UNCHANGED <<editorVars, main, drawn, channel, locks, now, workerVars, task, cycle,
                 permit, needs_redraw>>

\* Time passes; locks time out in the order they were taken.
Tick ==
  /\ now < text /\ now' = now + 1
  /\ UNCHANGED <<editorVars, frameVars, channel, locks, workerVars, task, cycle, redrawVars>>

-----------------------------------------------------------------------------
(* The worker.                                                             *)

\* Mutant: the first text that came is kept.
handled_first(a, e) ==
  [base |-> IF e.kind = "base" /\ a.base = NoText THEN e.text ELSE a.base,
   doc  |-> IF e.kind = "doc" /\ a.doc = NoText THEN e.text ELSE a.doc,
   lock |-> IF a.lock = NoLock THEN e.lock ELSE a.lock]

\* The last text counts, and the first lock: its timeout is the shorter.
handle_event(a, e) ==
  [base |-> IF e.kind = "base" THEN e.text ELSE a.base,
   doc  |-> IF e.kind = "doc" THEN e.text ELSE a.doc,
   lock |-> IF a.lock = NoLock THEN e.lock ELSE a.lock]

Recv ==
  /\ worker = "idle" /\ channel # <<>>
  /\ worker' = "debouncing"
  /\ acc' = handle_event(Nothing, Head(channel))
  /\ channel' = Tail(channel)
  /\ UNCHANGED <<editorVars, frameVars, locks, now, cache, shown, task, cycle, redrawVars>>

\* A second guard is dropped with its event.
Accumulate ==
  /\ worker = "debouncing" /\ channel # <<>>
  /\ acc' = handle_event(acc, Head(channel))
  /\ locks' = IF acc.lock = NoLock THEN locks ELSE locks \ {Head(channel).lock}
  /\ channel' = Tail(channel)
  /\ UNCHANGED <<editorVars, frameVars, now, worker, cache, shown, task, cycle, redrawVars>>

\* Mutant: a document that changed along with its base is forgotten.
CachedBase(a) == IF a.base # NoText THEN Texts(a.base, cache.doc) ELSE Texts(cache.base, a.doc)

\* update_diff_base with the document if there is one, or else update_doc.
Cached(a) == Texts(IF a.base = NoText THEN cache.base ELSE a.base,
                   IF a.doc  = NoText THEN cache.doc  ELSE a.doc)

\* The debounce timeout (which looks into the channel first): the release
\* task is spawned, and the texts are diffed.
Debounced ==
  /\ worker = "debouncing" /\ channel = <<>>
  /\ worker' = "diffing"
  /\ cycle' = cycle + 1
  /\ task' = [task EXCEPT ![cycle'] = [at |-> "spawned", lock |-> acc.lock]]
  /\ cache' = Cached(acc)
  /\ acc' = Nothing
  /\ UNCHANGED <<editorVars, frameVars, channel, locks, now, shown, redrawVars>>

\* notify_waiters wakes the tasks that listen and keeps nothing for others.
apply_hunks ==
  /\ worker = "diffing"
  /\ worker' = "idle"
  /\ shown' = cache
  /\ task' = [n \in Cycles |-> IF task[n].at = "listening"
                               THEN [task[n] EXCEPT !.at = "notified"] ELSE task[n]]
  /\ UNCHANGED <<editorVars, frameVars, channel, locks, now, acc, cache, cycle, redrawVars>>

-----------------------------------------------------------------------------
(* The task spawned for a diff.  It listens from its first poll on.        *)

Listen(n) ==
  /\ task[n].at = "spawned"
  /\ task' = [task EXCEPT ![n].at = "listening"]
  /\ UNCHANGED <<editorVars, frameVars, channel, locks, now, workerVars, cycle, redrawVars>>

\* A diff that was in time releases the lock, and a late one asks for a redraw.
Notified(n) ==
  /\ task[n].at = "notified"
  /\ task' = [task EXCEPT ![n] = [at |-> "done", lock |-> NoLock]]
  /\ locks' = locks \ {task[n].lock}
  /\ permit' = (permit \/ task[n].lock = NoLock)
  /\ UNCHANGED <<editorVars, frameVars, channel, now, workerVars, cycle, needs_redraw,
                 redraw_timer>>

\* Mutant: the task waits for the diff once more and holds on to the lock.
TimesOutHolding(n) ==
  /\ task[n].at = "listening" /\ task[n].lock \in 1..now
  /\ task' = [task EXCEPT ![n].at = "spawned"]
  /\ UNCHANGED <<editorVars, frameVars, channel, locks, now, workerVars, cycle, redrawVars>>

\* The timeout releases the lock; the task goes on to listen once more.
TimesOut(n) ==
  /\ task[n].at = "listening" /\ task[n].lock \in 1..now
  /\ task' = [task EXCEPT ![n] = [at |-> "spawned", lock |-> NoLock]]
  /\ locks' = locks \ {task[n].lock}
  /\ UNCHANGED <<editorVars, frameVars, channel, now, workerVars, cycle, redrawVars>>

-----------------------------------------------------------------------------
\* DiffHandle::new spawned the worker, which begins by diffing both texts.
Init ==
  /\ text = 0 /\ base = 0
  /\ main = "idle" /\ wantFrame = TRUE
  /\ drawn = [text |-> 0, diff |-> Texts(NoText, NoText)]
  /\ channel = <<>> /\ locks = {} /\ now = 0
  /\ worker = "diffing" /\ acc = Nothing
  /\ cache = Texts(0, 0) /\ shown = Texts(NoText, NoText)
  /\ task = [n \in Cycles |-> [at |-> "none", lock |-> NoLock]] /\ cycle = 0
  /\ permit = FALSE /\ needs_redraw = FALSE /\ redraw_timer = FALSE

User       == update_document \/ update_diff_base
EventLoop  == BeginFrame \/ start_frame \/ redraw_requested \/ RedrawTimer
Worker     == Recv \/ Accumulate \/ Debounced \/ apply_hunks
ReleaseTask(n) == Listen(n) \/ Notified(n) \/ TimesOut(n)

\* All is drawn and nothing more will be edited.
Done == /\ text = MaxEdits /\ base = MaxBases /\ main = "idle" /\ ~wantFrame /\ ~permit
        /\ ~redraw_timer /\ channel = <<>> /\ worker = "idle" /\ now = text
        /\ \A n \in Cycles : task[n].at \in {"none", "listening", "done"}
        /\ UNCHANGED vars

Next == \/ User \/ EventLoop \/ Tick \/ Worker \/ Done
        \/ \E n \in Cycles : ReleaseTask(n)

(* Threads and ready tasks run, timers fire, a diff comes to an end; the   *)
(* user need not edit.                                                     *)
Fairness == /\ WF_vars(EventLoop) /\ WF_vars(Tick) /\ WF_vars(Worker)
            /\ \A n \in Cycles : WF_vars(ReleaseTask(n))

Spec == Init /\ [][Next]_vars /\ Fairness

-----------------------------------------------------------------------------
TextsOf(B, D) == [base : B, doc : D]
TypeOK ==
  /\ text \in 0..MaxEdits /\ base \in 0..MaxBases
  /\ main \in {"idle", "waiting"} /\ wantFrame \in BOOLEAN
  /\ drawn \in [text : 0..text, diff : TextsOf(Int, Int)]
  /\ channel \in Seq([kind : {"doc", "base"}, text : Nat, lock : Nat])
  /\ locks \subseteq 1..text /\ now \in 0..text
  /\ worker \in {"idle", "debouncing", "diffing"}
  /\ acc \in [base : Int, doc : Int, lock : Nat]
  /\ cache \in TextsOf(Int, Int) /\ shown \in TextsOf(Int, Int)
  /\ task \in [Cycles -> [at : {"none", "spawned", "listening", "notified", "done"},
                           lock : Nat]]
  /\ cycle \in 0..(MaxEdits + MaxBases)
  /\ permit \in BOOLEAN /\ needs_redraw \in BOOLEAN /\ redraw_timer \in BOOLEAN

(* "diff is performed inside the rendering loop, block redraw until the    *)
(* diff is done or the timeout is expired" (worker.rs:172): a frame that   *)
(* follows an edit shows the diff of the text it draws, unless the timeout *)
(* of a lock taken since the last frame has expired.                       *)
FramesWaitForTheDiff ==
  [][main = "waiting" /\ main' = "idle" =>
       \/ text = drawn.text \/ shown.doc = text
       \/ \E l \in drawn.text + 1 .. text : l <= now]_vars

(* No diff, however it interleaves with the task that is to release the    *)
(* render lock, blocks drawing for ever (worker.rs:183).                   *)
RenderNeverStuck == main = "waiting" ~> main = "idle"

(* Whatever is gathered in one debounce, the diff that is published in the *)
(* end is the one of the newest text and the newest base (worker.rs:45).   *)
DiffCatchesUp == <>[](shown = Texts(base, text))

(* "diff is performed outside of the rendering loop, request a redraw      *)
(* after the diff is done" (worker.rs:164): the diff of an event is drawn.  *)
DiffsAreDrawn == (cycle > 0 /\ worker = "idle" /\ shown # drawn.diff) ~> (shown = drawn.diff)

(* "maximum time that rendering should be blocked until the diff finishes" *)
(* (diff.rs:118): a frame does not wait for a lock that has timed out and  *)
(* is queued behind a diff.                                                *)
BlockedNoLongerThanTimeout ==
  main = "waiting" /\ worker = "diffing" =>
    \A i \in DOMAIN channel : channel[i].lock \notin locks \cap 1..now
=============================================================================
