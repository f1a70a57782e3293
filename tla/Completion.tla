----------------------------- MODULE Completion -----------------------------
(***************************************************************************)
(* The completion menu of insert mode: the hooks and jobs of               *)
(* zmax-term/src/handlers/completion.rs, the debounced handler and the     *)
(* requests of handlers/completion/request.rs, and the menu with the       *)
(* preview of its selected item (ui/completion.rs, ui/editor.rs).          *)
(*                                                                         *)
(* The main thread handles keys, clicks and the jobs it is sent; the       *)
(* handler's task debounces events; a task per request gathers the answers *)
(* of the providers.  A moment is the number of keys and clicks before it, *)
(* and a savepoint is the moment it was taken; each view shows its own     *)
(* document.  preview-completion-insert is on and completion-preview-mode  *)
(* off, as by default; a trigger takes one word character.  Which items    *)
(* match what is typed is left open.  TaskController is taken at its word: *)
(* a handle is canceled when its generation has passed.                    *)
(***************************************************************************)
EXTENDS Integers, Sequences

CONSTANTS Views,       \* windows
          Servers,     \* providers whose lists may be incomplete
          Others,      \* providers whose lists are complete: paths, words
          Words,       \* those of them that complete words of the documents
          MaxKeys,     \* bound: keys and clicks
          MaxEvents,   \* bound: events that wait when a key is pressed
          MaxRequests, \* bound: generations of the handler's task controller
          MaxCursor    \* bound: the cursor

ASSUME CompletionAssumption ==
  /\ Views # {} /\ Servers \cap Others = {} /\ Words \subseteq Others
  /\ Views \cap {"none", "triggered"} = {}
  /\ MaxKeys \in Nat /\ MaxEvents \in Nat /\ MaxRequests \in Nat /\ MaxCursor \in Nat

Providers == Servers \cup Others
Chars     == {"word", "trigger", "space"}
NoView    == "none"
NoTrigger == [pos |-> 0, view |-> NoView]
NoMenu    == [opened |-> 0, items |-> {}]
NoAnswers == [p \in {} |-> [incomplete |-> FALSE, empty |-> TRUE]]

VARIABLES
  mode, focus, cursor,   \* the editor: its mode, focused view and cursor
  keys,                  \* keys and clicks so far
  ui,                    \* the menu, last_completion, active_completions and
                         \* the generation of request_controller
  events,                \* CompletionEvents on their way to the handler
  trigger, in_flight, generation,    \* the handler and its task_controller
  jobs,                  \* closures dispatched to the main thread
  requests, refreshes,   \* the tasks of request_completions, and of
                         \* request_incomplete_completion_list
  panicked               \* an assertion of the main thread failed

editorVars  == <<mode, focus, cursor>>
handlerVars == <<trigger, in_flight, generation>>
taskVars    == <<requests, refreshes>>
vars == <<editorVars, keys, ui, events, handlerVars, jobs, taskVars, panicked>>

IsOpen(u)     == u.menu.items # {}
Triggered(u)  == u.last # "none"             \* last_completion.is_some()
IsSelected(u) == u.last \in Views            \* CompleteAction::Selected
Event(kind, pos, view) == [kind |-> kind, pos |-> pos, view |-> view]

Generation(ctl)      == IF ctl = "hook" THEN generation ELSE ui.refresh
IsCanceled(ctl, gen) == gen # Generation(ctl)

\* task_controller.is_running(): a task or a closure holds a live handle.
IsRunning == \/ \E r \in requests : r.gen = generation
             \/ \E i \in DOMAIN jobs : /\ jobs[i].kind \in {"request", "replace"}
                                       /\ jobs[i].ctl = "hook" /\ jobs[i].gen = generation

-----------------------------------------------------------------------------
(* What keys and jobs share.                                               *)

\* cancelable_future drops a task when its handle is canceled, except that a poll
\* that had looked at the handle before goes on to dispatch the menu.
Survivors == {r \in requests : r.stage = "sending"}

\* Mutant: what is still asked for the closed menu goes on.
ClosedOnly(u) == [menu |-> NoMenu, last |-> "none", active |-> NoAnswers, refresh |-> u.refresh]

clear_completion(u) ==
  [menu |-> NoMenu, last |-> "none", active |-> NoAnswers, refresh |-> u.refresh + 1]

\* doc.restore asserts that the savepoint of the preview is the current view's.
restore(u) == panicked' = (IsSelected(u) /\ u.last # focus)

\* The events that trigger_auto_completion sends after the character c.
trigger_auto_completion(c, triggerCharOnly, pos, view) ==
  CASE c = "trigger"                     -> <<Event("TriggerChar", pos, view)>>
    [] c = "word" /\ ~triggerCharOnly    -> <<Event("AutoTrigger", pos, view)>>
    [] OTHER                             -> <<>>

\* A key that the menu does not take accepts the item that is selected (the
\* editor sends Enter after it), which may send a trigger of its own.
Accepted(u)    == IF IsSelected(u) THEN clear_completion(u) ELSE u
AcceptEvents   == {<<>>} \cup IF IsSelected(ui)
                              THEN {<<Event("TriggerChar", cursor, focus)>>} ELSE {}

request_incomplete_completion_list(u, at) ==
  LET incomplete == {p \in DOMAIN u.active : u.active[p].incomplete} IN
  IF incomplete = {} THEN refreshes
  ELSE refreshes \cup {[gen |-> u.refresh, at |-> at, waiting |-> incomplete]}

\* A character is typed (c) or deleted with the menu open: the menu closes when
\* nothing matches or a word has ended, and else asks again for what was incomplete.
update_completion_filter(u, closes, sent) ==
  IF closes
  THEN ui' = clear_completion(u) /\ events' = events \o sent /\ refreshes' = refreshes
  ELSE /\ ui' = [u EXCEPT !.refresh = @ + 1]
       /\ refreshes' = request_incomplete_completion_list(ui', keys + 1)
       /\ events' = events

-----------------------------------------------------------------------------
(* Keys and clicks.                                                        *)

Press == keys < MaxKeys /\ keys' = keys + 1 /\ Len(events) < MaxEvents
Quiet == UNCHANGED <<handlerVars, jobs, requests>>

TypeChar(c) ==
  /\ Press /\ mode = "insert" /\ cursor < MaxCursor
  /\ cursor' = cursor + 1
  /\ restore(ui)
  /\ \E first \in AcceptEvents, noMatch \in BOOLEAN :
       LET u    == Accepted(ui)
           sent == trigger_auto_completion(c, FALSE, cursor', focus)
       IN IF Triggered(u)
          THEN update_completion_filter(u, noMatch \/ c # "word", sent)
          ELSE ui' = u /\ events' = events \o first \o sent /\ refreshes' = refreshes
  /\ UNCHANGED <<mode, focus>> /\ Quiet

\* delete_char_backward
DeleteChar ==
  /\ Press /\ mode = "insert" /\ cursor > 0
  /\ cursor' = cursor - 1
  /\ restore(ui)
  /\ \E first \in AcceptEvents, closes \in BOOLEAN :
       LET u == Accepted(ui) IN
       IF Triggered(u) THEN update_completion_filter(u, closes, <<>>)
       ELSE /\ ui' = u /\ refreshes' = refreshes
            /\ events' = events \o first \o <<Event("DeleteText", cursor', focus)>>
  /\ UNCHANGED <<mode, focus>> /\ Quiet

\* Any other command of insert mode: it closes the menu, or cancels.
OtherCommand ==
  /\ Press /\ mode = "insert" /\ cursor' \in 0..MaxCursor
  /\ restore(ui)
  /\ \E first \in AcceptEvents :
       LET u == Accepted(ui) IN
       IF Triggered(u) THEN ui' = clear_completion(u) /\ events' = events
       ELSE ui' = u /\ events' = events \o first \o <<Event("Cancel", 0, focus)>>
  /\ UNCHANGED <<mode, focus, refreshes>> /\ Quiet

\* The command "completion".
ManualTrigger ==
  /\ Press /\ mode = "insert"
  /\ restore(ui)
  /\ ui' = Accepted(ui)
  /\ \E first \in AcceptEvents :
       events' = events \o first \o <<Event("ManualTrigger", cursor, focus)>>
  /\ UNCHANGED <<editorVars, refreshes>> /\ Quiet

\* delete_char_forward, delete_word_forward: the menu stays as it is.
DeleteForward ==
  /\ Press /\ mode = "insert"
  /\ restore(ui)
  /\ ui' = Accepted(ui)
  /\ \E first \in AcceptEvents :
       events' = IF Triggered(ui') THEN events
                 ELSE events \o first \o <<Event("DeleteText", cursor, focus)>>
  /\ UNCHANGED <<editorVars, refreshes>> /\ Quiet

\* Tab, Down: the item's text is previewed in the document, over a savepoint.
SelectItem ==
  /\ Press /\ mode = "insert" /\ IsOpen(ui)
  /\ ui' = [ui EXCEPT !.last = IF @ = "triggered" THEN focus ELSE @]
  /\ UNCHANGED <<editorVars, events, refreshes, panicked>> /\ Quiet

\* Enter
AcceptItem ==
  /\ Press /\ mode = "insert" /\ IsSelected(ui)
  /\ restore(ui)
  /\ ui' = Accepted(ui)
  /\ \E first \in AcceptEvents : events' = events \o first
  /\ UNCHANGED <<editorVars, refreshes>> /\ Quiet

\* Esc accepts a selected item, too, then cancels and closes the menu.
LeaveInsert ==
  /\ Press /\ mode = "insert"
  /\ mode' = "normal"
  /\ restore(ui)
  /\ ui' = clear_completion(Accepted(ui))
  /\ \E first \in AcceptEvents :
       events' = events \o first \o <<Event("Cancel", 0, focus)>>
  /\ UNCHANGED <<focus, cursor, refreshes>> /\ Quiet

\* insert_mode and append_mode trigger after the character c before the cursor;
\* other ways into insert mode cancel first.  A menu that was left open is closed.
EnterInsert(c) ==
  /\ Press /\ mode = "normal"
  /\ mode' = "insert"
  /\ restore(ui)
  /\ ui' = IF Triggered(ui) THEN clear_completion(ui) ELSE ui
  /\ \E first \in {<<>>} \cup (IF Triggered(ui) THEN {} ELSE {<<Event("Cancel", 0, focus)>>}) :
       events' = events \o first \o trigger_auto_completion(c, FALSE, cursor, focus)
  /\ UNCHANGED <<focus, cursor, refreshes>> /\ Quiet

\* Editor::focus enters normal mode without the hooks.  The click means to close
\* the menu when it changes the view, but reads the previous view too late.
Click(v) ==
  /\ Press
  /\ focus' = v /\ cursor' \in 0..MaxCursor
  /\ mode' = IF v = focus THEN mode ELSE "normal"
  /\ UNCHANGED <<ui, events, refreshes, panicked>> /\ Quiet

-----------------------------------------------------------------------------
(* The handler: an AsyncHook, whose debounce may end between two events.   *)

\* finish_debounce: the trigger t becomes a request.
Dispatch(t) ==
  /\ generation < MaxRequests
  /\ trigger' = NoTrigger /\ in_flight' = t
  /\ generation' = generation + 1 /\ requests' = Survivors
  /\ jobs' = Append(jobs, [kind |-> "request", ctl |-> "hook", gen |-> generation',
                           trigger |-> t])

FinishDebounce ==
  /\ trigger # NoTrigger
  /\ Dispatch(trigger)
  /\ UNCHANGED <<editorVars, keys, ui, events, refreshes, panicked>>

\* The trigger an event is measured by: trigger.or(in_flight).
Current(flying) == IF trigger # NoTrigger THEN trigger ELSE flying
NewTrigger(e)   == [pos |-> e.pos, view |-> e.view]

\* task_controller.cancel() makes a new generation when something runs.
Cancel == /\ generation' = IF IsRunning THEN generation + 1 ELSE generation
          /\ requests' = IF IsRunning THEN Survivors ELSE requests

handle_event ==
  /\ events # <<>>
  /\ events' = Tail(events)
  /\ LET e      == Head(events)
         flying == IF IsRunning THEN in_flight ELSE NoTrigger
         now    == Current(flying)
     IN \/ /\ e.kind = "AutoTrigger"
           /\ trigger' = IF now = NoTrigger \/ now.view # e.view THEN NewTrigger(e) ELSE trigger
           /\ in_flight' = flying /\ UNCHANGED <<generation, jobs, requests>>
        \/ /\ e.kind = "TriggerChar"
           /\ trigger' = NewTrigger(e) /\ Cancel
           /\ in_flight' = flying /\ jobs' = jobs
        \/ e.kind = "ManualTrigger" /\ Dispatch(NewTrigger(e))
        \/ /\ \/ e.kind = "Cancel"
              \/ e.kind = "DeleteText" /\ now # NoTrigger /\ e.pos < now.pos
           /\ trigger' = NoTrigger /\ Cancel
           /\ in_flight' = flying /\ jobs' = jobs
        \/ /\ e.kind = "DeleteText" /\ ~(now # NoTrigger /\ e.pos < now.pos)
           /\ in_flight' = flying /\ UNCHANGED <<trigger, generation, jobs, requests>>
  /\ UNCHANGED <<editorVars, keys, ui, refreshes, panicked>>

-----------------------------------------------------------------------------
(* The task of a request, and of a refresh.                                *)

Become(r, next) == requests' = (requests \ {r}) \cup next

\* What a provider may answer: an error is an empty list.
Answers(p) == [incomplete : IF p \in Servers THEN BOOLEAN ELSE {FALSE}, empty : BOOLEAN]
IsNothing(a) == a.empty /\ ~a.incomplete

Replacement(ctl, r, p, a) ==
  [kind |-> "replace", ctl |-> ctl, gen |-> r.gen, by |-> p, at |-> r.at, answer |-> a]

\* The first answers are gathered, later ones go to the menu one by one; an answer
\* without anything is skipped, and the task ends with the last one.
Answer(r, p, a) ==
  LET left == [r EXCEPT !.waiting = @ \ {p}] IN
  /\ p \in r.waiting /\ r.stage # "sending"
  /\ IF r.stage = "rest"
     THEN /\ Become(r, IF left.waiting = {} THEN {} ELSE {left})
          /\ jobs' = IF IsNothing(a) THEN jobs ELSE Append(jobs, Replacement("hook", r, p, a))
     ELSE /\ jobs' = jobs
          /\ IF IsNothing(a)
             THEN Become(r, IF left.waiting = {} /\ r.got = NoAnswers THEN {} ELSE {left})
             ELSE Become(r, {[left EXCEPT !.stage = "gather",
                                          !.got = [q \in DOMAIN @ \cup {p} |->
                                                     IF q = p THEN a ELSE @[q]]]})
  /\ UNCHANGED <<editorVars, keys, ui, events, handlerVars, refreshes, panicked>>

\* 100 ms after the first answer, or when all are there.  The poll that goes on to
\* dispatch the menu looked at the handle when it began.
Deadline(r) ==
  /\ r.stage = "gather"
  /\ Become(r, {[r EXCEPT !.stage = "sending"]})
  /\ UNCHANGED <<editorVars, keys, ui, events, handlerVars, jobs, refreshes, panicked>>

DispatchShow(r) ==
  /\ r.stage = "sending"
  /\ jobs' = Append(jobs, [kind |-> "show", view |-> r.view, at |-> r.at, got |-> r.got])
  /\ Become(r, IF r.waiting = {} \/ IsCanceled("hook", r.gen) THEN {}
               ELSE {[r EXCEPT !.stage = "rest"]})
  /\ UNCHANGED <<editorVars, keys, ui, events, handlerVars, refreshes, panicked>>

\* replace_completions with is_incomplete: not canceled, and nothing is skipped.
Refreshed(r, p, a) ==
  /\ p \in r.waiting
  /\ refreshes' = (refreshes \ {r}) \cup
                  (IF r.waiting = {p} THEN {} ELSE {[r EXCEPT !.waiting = @ \ {p}]})
  /\ jobs' = Append(jobs, Replacement("menu", r, p, a))
  /\ UNCHANGED <<editorVars, keys, ui, events, handlerVars, requests, panicked>>

-----------------------------------------------------------------------------
(* The closures on the main thread.                                        *)

\* Paths and words are asked for only where they apply.
request_completions(j) ==
  LET t == j.trigger IN
  /\ IF \/ IsOpen(ui) \/ mode # "insert" \/ t.view # focus \/ cursor < t.pos
        \/ IsCanceled("hook", j.gen)
     THEN requests' = requests
     ELSE \E others \in SUBSET Others :
            requests' = IF Servers \cup others = {} THEN requests ELSE
              requests \cup {[gen |-> j.gen, view |-> focus, at |-> keys, stage |-> "first",
                              waiting |-> Servers \cup others, got |-> NoAnswers]}
  /\ UNCHANGED <<ui, events, refreshes, panicked>>

\* Providers with items; words are not shown when the cursor is after white space.
Items(j) == {p \in DOMAIN j.got : ~j.got[p].empty}

\* Mutant: a menu that is open does not keep a second one from being shown.
ShowAlways(j) ==
  /\ \E kept \in {Items(j), Items(j) \ Words}, noMatch \in BOOLEAN :
       ui' = IF mode # "insert" \/ focus # j.view THEN ui
             ELSE IF noMatch \/ kept = {} THEN [ui EXCEPT !.active = j.got]
             ELSE [ui EXCEPT !.active = j.got, !.last = "triggered",
                             !.menu = [opened |-> j.at,
                                       items |-> {[by |-> p, at |-> j.at] : p \in kept}]]
  /\ UNCHANGED <<events, taskVars, panicked>>

show_completion(j) ==
  /\ IF mode # "insert" \/ focus # j.view \/ IsOpen(ui) THEN ui' = ui
     ELSE \E kept \in {Items(j), Items(j) \ Words}, noMatch \in BOOLEAN :
            ui' = IF noMatch \/ kept = {} THEN [ui EXCEPT !.active = j.got]
                  ELSE [ui EXCEPT !.active = j.got, !.last = "triggered",
                                  !.menu = [opened |-> j.at,
                                            items |-> {[by |-> p, at |-> j.at] : p \in kept}]]
  /\ UNCHANGED <<events, taskVars, panicked>>

\* The items of the menu once j has come: a refresh takes its provider's place.
Replaced(j) ==
  (IF j.ctl = "menu" THEN {i \in ui.menu.items : i.by # j.by} ELSE ui.menu.items)
  \cup (IF j.answer.empty THEN {} ELSE {[by |-> j.by, at |-> j.at]})

replace_completions(j) ==
  /\ IF ~IsOpen(ui) \/ IsCanceled(j.ctl, j.gen)
     THEN UNCHANGED <<ui, events, panicked>>
     ELSE \/ \E c \in Chars :        \* nothing matches any more
               /\ restore(ui)
               /\ ui' = clear_completion(ui)
               /\ events' = events \o trigger_auto_completion(c, FALSE, cursor, focus)
          \/ /\ Replaced(j) # {}
             /\ ui' = [ui EXCEPT !.menu.items = Replaced(j),
                                 !.active = [p \in DOMAIN @ \cup {j.by} |->
                                               IF p = j.by THEN j.answer ELSE @[p]]]
             /\ UNCHANGED <<events, panicked>>
  /\ UNCHANGED taskVars

RunJob ==
  /\ jobs # <<>>
  /\ jobs' = Tail(jobs)
  /\ LET j == Head(jobs) IN
       \/ j.kind = "request" /\ request_completions(j)
       \/ j.kind = "show" /\ show_completion(j)
       \/ j.kind = "replace" /\ replace_completions(j)
  /\ UNCHANGED <<editorVars, keys, handlerVars>>

-----------------------------------------------------------------------------
Init ==
  /\ mode = "insert" /\ focus \in Views /\ cursor = 0 /\ keys = 0
  /\ ui = [menu |-> NoMenu, last |-> "none", active |-> NoAnswers, refresh |-> 0]
  /\ events = <<>> /\ trigger = NoTrigger /\ in_flight = NoTrigger /\ generation = 0
  /\ jobs = <<>> /\ requests = {} /\ refreshes = {} /\ panicked = FALSE

User == \/ \E c \in Chars : TypeChar(c) \/ EnterInsert(c)
        \/ DeleteChar \/ DeleteForward \/ OtherCommand \/ ManualTrigger \/ SelectItem
        \/ AcceptItem \/ LeaveInsert
        \/ \E v \in Views : Click(v)
Handler == handle_event \/ FinishDebounce
Tasks == \/ \E r \in requests : \/ Deadline(r) \/ DispatchShow(r)
                                \/ \E p \in r.waiting : \E a \in Answers(p) : Answer(r, p, a)
         \/ \E r \in refreshes : \E p \in r.waiting : \E a \in Answers(p) : Refreshed(r, p, a)

Next == ~panicked /\ (User \/ Handler \/ Tasks \/ RunJob)
Spec == Init /\ [][Next]_vars

-----------------------------------------------------------------------------
Triggers  == [pos : Nat, view : Views \cup {NoView}]
AnswerSet == [incomplete : BOOLEAN, empty : BOOLEAN]
Contexts  == UNION {[D -> AnswerSet] : D \in SUBSET Providers}
Menus     == [opened : Nat, items : SUBSET [by : Providers, at : Nat]]
UIs       == [menu : Menus, last : {"none", "triggered"} \cup Views, active : Contexts,
              refresh : Nat]
Events    == [kind : {"AutoTrigger", "TriggerChar", "ManualTrigger", "Cancel", "DeleteText"},
              pos : Nat, view : Views]
Jobs      == [kind : {"request"}, ctl : {"hook"}, gen : Nat, trigger : Triggers]
             \cup [kind : {"show"}, view : Views, at : Nat, got : Contexts]
             \cup [kind : {"replace"}, ctl : {"hook", "menu"}, gen : Nat, by : Providers,
                   at : Nat, answer : AnswerSet]
Requests  == [gen : Nat, view : Views, at : Nat, waiting : SUBSET Providers,
              stage : {"first", "gather", "sending", "rest"}, got : Contexts]
Refreshes == [gen : Nat, at : Nat, waiting : SUBSET Providers]

TypeOK ==
  /\ mode \in {"insert", "normal"} /\ focus \in Views /\ cursor \in Nat /\ keys \in Nat
  /\ ui \in UIs /\ events \in Seq(Events) /\ jobs \in Seq(Jobs)
  /\ trigger \in Triggers /\ in_flight \in Triggers /\ generation \in Nat
  /\ requests \subseteq Requests /\ refreshes \subseteq Refreshes /\ panicked \in BOOLEAN

(* Accepting or previewing an item looks its provider up in                *)
(* active_completions ("always present here", ui/completion.rs:304), which *)
(* every request, refresh and closing menu writes: a provider that has an  *)
(* item in the menu is never missing there.                                *)
ItemsHaveContext == \A i \in ui.menu.items : i.by \in DOMAIN ui.active

(* Answers come late and out of order ("dropping outdated completion       *)
(* response", completion.rs:64): the menu never takes an item that was     *)
(* asked for before the text for which the menu itself was asked.          *)
NoOutdatedItems == \A i \in ui.menu.items : i.at >= ui.menu.opened

(* "Savepoint must not be used with a different view!" (document.rs:2990): *)
(* the preview of an item is only ever taken back in its own view.         *)
RestoresInItsView == ~panicked
=============================================================================
