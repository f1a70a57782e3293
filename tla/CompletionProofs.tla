-------------------------- MODULE CompletionProofs --------------------------
(***************************************************************************)
(* The completion menu, for every number of views, providers, keys and     *)
(* requests: the items of the menu always have their context, and none of  *)
(* them was asked for before the menu.                                     *)
(***************************************************************************)
EXTENDS Completion, TLAPS

IsLive(r)   == r.gen = generation                       \* a request's task
Asks(j)     == j.kind = "request" /\ j.gen = generation
LateItem(j) == j.kind = "replace" /\ j.ctl = "hook" /\ j.gen = generation
FreshItem(j) == j.kind = "replace" /\ j.ctl = "menu" /\ j.gen = ui.refresh

\* Nothing older can come after an answer that was asked for at this moment.
IsNewest(at) ==
  /\ ui.menu.opened <= at
  /\ \A r \in requests : r.at <= at
  /\ \A i \in DOMAIN jobs : jobs[i].kind = "show" => jobs[i].at <= at

(* last_completion tells the hooks what EditorView's completion is.        *)
Coherent == Triggered(ui) <=> IsOpen(ui)

(* No moment and no generation is ahead of its counter.                    *)
InThePast ==
  /\ ui.menu.opened <= keys
  /\ \A r \in requests : r.at <= keys /\ r.gen <= generation
  /\ \A r \in refreshes : r.gen <= ui.refresh
  /\ \A i \in DOMAIN jobs :
       /\ jobs[i].kind = "show" => jobs[i].at <= keys
       /\ jobs[i].kind = "request" => jobs[i].gen <= generation
       /\ jobs[i].kind = "replace" =>
            jobs[i].gen <= IF jobs[i].ctl = "hook" THEN generation ELSE ui.refresh

(* A generation is asked for once, before anything is answered in it.      *)
AskedOnce ==
  \A i \in DOMAIN jobs : Asks(jobs[i]) =>
    /\ \A k \in DOMAIN jobs : Asks(jobs[k]) => k = i
    /\ \A k \in DOMAIN jobs : ~LateItem(jobs[k])
    /\ \A r \in requests : ~IsLive(r)

(* What the newest request still brings is newer than any menu to come ... *)
LiveIsNewest ==
  /\ \A r \in requests : IsLive(r) => IsNewest(r.at)
  /\ \A i \in DOMAIN jobs : LateItem(jobs[i]) => IsNewest(jobs[i].at)

(* ... and what the newest refresh brings is for the menu that is open.    *)
FreshIsForTheMenu ==
  /\ \A r \in refreshes : r.gen = ui.refresh => IsOpen(ui) /\ ui.menu.opened <= r.at
  /\ \A i \in DOMAIN jobs : FreshItem(jobs[i]) => IsOpen(ui) /\ ui.menu.opened <= jobs[i].at

IInv == /\ Coherent /\ InThePast /\ AskedOnce /\ LiveIsNewest /\ FreshIsForTheMenu
        /\ NoOutdatedItems /\ ItemsHaveContext

-----------------------------------------------------------------------------
(* The types of what the operators return. *)

(* The state of a closed menu.                                             *)
LEMMA NoAnswersType == NoAnswers \in Contexts /\ NoMenu \in Menus
<1>1. NoAnswers \in [{} -> AnswerSet] BY DEF NoAnswers, AnswerSet
<1>2. {} \in SUBSET Providers OBVIOUS
<1> QED BY <1>1, <1>2 DEF Contexts, Menus, NoMenu

(* Closing the menu starts a new generation of refreshes.                  *)
LEMMA ClearType ==
  ASSUME NEW u \in UIs
  PROVE  /\ clear_completion(u) \in UIs
         /\ clear_completion(u).menu = NoMenu /\ clear_completion(u).last = "none"
         /\ clear_completion(u).refresh = u.refresh + 1
BY NoAnswersType DEF clear_completion, UIs

(* Accepting an item closes the menu, or nothing happens.                  *)
LEMMA AcceptedType ==
  ASSUME TypeOK
  PROVE  /\ Accepted(ui) \in UIs
         /\ Accepted(ui) = ui \/ Accepted(ui) = clear_completion(ui)
         /\ ui.last = "none" => Accepted(ui) = ui
BY ClearType, CompletionAssumption DEF Accepted, TypeOK, IsSelected

(* An event is a sequence of one event.                                    *)
LEMMA OneEvent ==
  ASSUME NEW e \in Events PROVE <<e>> \in Seq(Events) /\ <<>> \in Seq(Events)
OBVIOUS

(* Events sent after events are events.                                    *)
LEMMA ConcatType ==
  ASSUME NEW s \in Seq(Events), NEW t \in Seq(Events), NEW u \in Seq(Events)
  PROVE  s \o t \in Seq(Events) /\ s \o t \o u \in Seq(Events)
OBVIOUS

(* What a key sends joins the events on their way.                         *)
LEMMA SentType ==
  ASSUME TypeOK, NEW s \in Seq(Events), NEW t \in Seq(Events)
  PROVE  events \in Seq(Events) /\ events \o s \in Seq(Events) /\ events \o s \o t \in Seq(Events)
<1>1. events \in Seq(Events) BY DEF TypeOK
<1> QED BY <1>1, ConcatType

(* What trigger_auto_completion sends are events.                          *)
LEMMA AutoTriggerType ==
  ASSUME NEW c, NEW b \in BOOLEAN, NEW pos \in Nat, NEW v \in Views
  PROVE  trigger_auto_completion(c, b, pos, v) \in Seq(Events)
<1>1. Event("TriggerChar", pos, v) \in Events /\ Event("AutoTrigger", pos, v) \in Events
  BY DEF Event, Events
<1>2. CASE c = "trigger" BY <1>1, <1>2, OneEvent DEF trigger_auto_completion
<1>3. CASE c # "trigger" /\ c = "word" /\ ~b BY <1>1, <1>3, OneEvent DEF trigger_auto_completion
<1>4. CASE c # "trigger" /\ ~(c = "word" /\ ~b)
  <2>1. trigger_auto_completion(c, b, pos, v) = <<>> BY <1>4 DEF trigger_auto_completion
  <2> QED BY <2>1
<1> QED BY <1>2, <1>3, <1>4

(* What accepting an item may send are events.                             *)
LEMMA AcceptEventsType ==
  ASSUME TypeOK, NEW s \in AcceptEvents
  PROVE  s \in Seq(Events)
<1>1. Event("TriggerChar", cursor, focus) \in Events BY DEF Event, Events, TypeOK
<1>2. s = <<>> \/ s = <<Event("TriggerChar", cursor, focus)>> BY DEF AcceptEvents
<1> QED BY <1>1, <1>2, OneEvent

(* Gathering one answer more. *)
LEMMA ContextType ==
  ASSUME NEW f \in Contexts, NEW p \in Providers, NEW a \in AnswerSet
  PROVE  [q \in DOMAIN f \cup {p} |-> IF q = p THEN a ELSE f[q]] \in Contexts
<1>1. PICK D \in SUBSET Providers : f \in [D -> AnswerSet] BY DEF Contexts
<1>2. DOMAIN f \cup {p} = D \cup {p} BY <1>1
<1>3. [q \in D \cup {p} |-> IF q = p THEN a ELSE f[q]] \in [D \cup {p} -> AnswerSet] BY <1>1
<1>4. D \cup {p} \in SUBSET Providers OBVIOUS
<1> QED BY <1>2, <1>3, <1>4 DEF Contexts

(* A provider's answer says whether it is complete and whether empty.      *)
LEMMA AnswersType ==
  ASSUME NEW p, NEW a \in Answers(p)
  PROVE  a \in AnswerSet
BY DEF Answers, AnswerSet

(* Only providers have a context.                                          *)
LEMMA ContextDomain ==
  ASSUME NEW f \in Contexts PROVE DOMAIN f \subseteq Providers
BY DEF Contexts

(* A refresh asks providers whose context is there.                        *)
LEMMA RefreshType ==
  ASSUME TypeOK, NEW u \in UIs, NEW at \in Nat
  PROVE  request_incomplete_completion_list(u, at) \subseteq Refreshes
<1> DEFINE incomplete == {p \in DOMAIN u.active : u.active[p].incomplete}
<1>1. incomplete \in SUBSET Providers BY ContextDomain DEF UIs
<1>2. [gen |-> u.refresh, at |-> at, waiting |-> incomplete] \in Refreshes
  BY <1>1 DEF Refreshes, UIs
<1> QED BY <1>2 DEF request_incomplete_completion_list, TypeOK

(* A key keeps the types of the menu and its refreshes.                    *)
LEMMA FilterType ==
  ASSUME TypeOK, NEW u \in UIs, NEW sent \in Seq(Events),
         \/ ui' = clear_completion(u) /\ events' = events \o sent /\ refreshes' = refreshes
         \/ /\ ui' = [u EXCEPT !.refresh = @ + 1] /\ events' = events
            /\ refreshes' = request_incomplete_completion_list(ui', keys + 1)
  PROVE  ui' \in UIs /\ events' \in Seq(Events) /\ refreshes' \subseteq Refreshes
<1>1. CASE ui' = clear_completion(u) /\ events' = events \o sent /\ refreshes' = refreshes
  BY <1>1, ClearType DEF TypeOK
<1>2. CASE /\ ui' = [u EXCEPT !.refresh = @ + 1] /\ events' = events
           /\ refreshes' = request_incomplete_completion_list(ui', keys + 1)
  <2>1. ui' \in UIs BY <1>2 DEF UIs
  <2>2. keys + 1 \in Nat BY DEF TypeOK
  <2>3. refreshes' \subseteq Refreshes BY <1>2, <2>1, <2>2, RefreshType
  <2> QED BY <1>2, <2>1, <2>3 DEF TypeOK
<1> QED BY <1>1, <1>2

(* A key or a click leaves the handler and its tasks alone. *)
LEMMA KeyType ==
  ASSUME TypeOK, Press, Quiet, mode' \in {"insert", "normal"}, focus' \in Views,
         cursor' \in Nat, ui' \in UIs, events' \in Seq(Events),
         refreshes' \subseteq Refreshes, panicked' \in BOOLEAN
  PROVE  TypeOK'
BY DEF TypeOK, Press, Quiet, handlerVars

(* The assertion of restore holds or fails.                                *)
LEMMA RestoreType == ASSUME restore(ui) PROVE panicked' \in BOOLEAN
BY DEF restore

(* The events of the hooks are events of the focused view.                 *)
LEMMA EventType ==
  ASSUME TypeOK, NEW pos \in Nat
  PROVE  /\ <<Event("ManualTrigger", pos, focus)>> \in Seq(Events)
         /\ <<Event("DeleteText", pos, focus)>> \in Seq(Events)
         /\ <<Event("Cancel", 0, focus)>> \in Seq(Events)
<1>1. /\ Event("ManualTrigger", pos, focus) \in Events
      /\ Event("DeleteText", pos, focus) \in Events
      /\ Event("Cancel", 0, focus) \in Events
  BY DEF Event, Events, TypeOK
<1> QED BY <1>1, OneEvent

(* Keys and clicks keep the types.                                         *)
LEMMA UserType == ASSUME TypeOK, User PROVE TypeOK'
<1> USE CompletionAssumption
<1>1. ASSUME NEW c \in Chars, TypeChar(c) PROVE TypeOK'
  <2>1. PICK first \in AcceptEvents, noMatch \in BOOLEAN :
          IF Triggered(Accepted(ui))
          THEN update_completion_filter(Accepted(ui), noMatch \/ c # "word",
                 trigger_auto_completion(c, FALSE, cursor', focus))
          ELSE /\ ui' = Accepted(ui)
               /\ events' = events \o first \o trigger_auto_completion(c, FALSE, cursor', focus)
               /\ refreshes' = refreshes
    BY <1>1 DEF TypeChar
  <2>2. cursor' \in Nat BY <1>1 DEF TypeChar, TypeOK
  <2>3. trigger_auto_completion(c, FALSE, cursor', focus) \in Seq(Events)
    BY <2>2, AutoTriggerType DEF TypeOK
  <2>4. Accepted(ui) \in UIs /\ first \in Seq(Events) BY AcceptedType, AcceptEventsType
  <2>5. ui' \in UIs /\ events' \in Seq(Events) /\ refreshes' \subseteq Refreshes
    <3>1. CASE Triggered(Accepted(ui))
      BY <3>1, <2>1, <2>3, <2>4, FilterType DEF update_completion_filter
    <3>2. CASE ~Triggered(Accepted(ui))
      <4>1. /\ ui' = Accepted(ui) /\ refreshes' = refreshes
            /\ events' = events \o first \o trigger_auto_completion(c, FALSE, cursor', focus)
        BY <3>2, <2>1
      <4>2. events \o first \o trigger_auto_completion(c, FALSE, cursor', focus) \in Seq(Events)
        BY <2>3, <2>4, SentType
      <4> QED BY <4>1, <4>2, <2>4 DEF TypeOK
    <3> QED BY <3>1, <3>2
  <2> QED BY <1>1, <2>2, <2>5, KeyType, RestoreType DEF TypeChar, TypeOK
<1>2. ASSUME NEW c \in Chars, EnterInsert(c) PROVE TypeOK'
  <2>1. PICK first \in {<<>>, <<Event("Cancel", 0, focus)>>} :
          events' = events \o first \o trigger_auto_completion(c, FALSE, cursor, focus)
    BY <1>2 DEF EnterInsert
  <2>2. trigger_auto_completion(c, FALSE, cursor, focus) \in Seq(Events)
    BY AutoTriggerType DEF TypeOK
  <2>3. first \in Seq(Events)
    <3>1. <<Event("Cancel", 0, focus)>> \in Seq(Events) BY EventType DEF TypeOK
    <3>2. <<>> \in Seq(Events) OBVIOUS
    <3> QED BY <3>1, <3>2
  <2>4. ui' \in UIs BY <1>2, ClearType DEF EnterInsert, TypeOK
  <2>5. events' \in Seq(Events) BY <2>1, <2>2, <2>3, SentType
  <2> QED BY <1>2, <2>4, <2>5, KeyType, RestoreType DEF EnterInsert, TypeOK
<1>3. CASE DeleteChar
  <2>1. PICK first \in AcceptEvents, closes \in BOOLEAN :
          IF Triggered(Accepted(ui)) THEN update_completion_filter(Accepted(ui), closes, <<>>)
          ELSE /\ ui' = Accepted(ui) /\ refreshes' = refreshes
               /\ events' = events \o first \o <<Event("DeleteText", cursor', focus)>>
    BY <1>3 DEF DeleteChar
  <2>2. cursor' \in Nat BY <1>3 DEF DeleteChar, TypeOK
  <2>3. <<Event("DeleteText", cursor', focus)>> \in Seq(Events) BY <2>2, EventType
  <2>4. Accepted(ui) \in UIs /\ first \in Seq(Events) BY AcceptedType, AcceptEventsType
  <2>5. ui' \in UIs /\ events' \in Seq(Events) /\ refreshes' \subseteq Refreshes
    <3>1. CASE Triggered(Accepted(ui))
      <4>1. <<>> \in Seq(Events) OBVIOUS
      <4> QED BY <4>1, <3>1, <2>1, <2>4, FilterType DEF update_completion_filter
    <3>2. CASE ~Triggered(Accepted(ui))
      <4>1. events \o first \o <<Event("DeleteText", cursor', focus)>> \in Seq(Events)
        BY <2>3, <2>4, SentType
      <4> QED BY <4>1, <3>2, <2>1, <2>4 DEF TypeOK
    <3> QED BY <3>1, <3>2
  <2> QED BY <1>3, <2>2, <2>5, KeyType, RestoreType DEF DeleteChar, TypeOK
<1>4. CASE OtherCommand
  <2>1. PICK first \in AcceptEvents :
          IF Triggered(Accepted(ui))
          THEN ui' = clear_completion(Accepted(ui)) /\ events' = events
          ELSE /\ ui' = Accepted(ui)
               /\ events' = events \o first \o <<Event("Cancel", 0, focus)>>
    BY <1>4 DEF OtherCommand
  <2>2. <<Event("Cancel", 0, focus)>> \in Seq(Events) BY EventType DEF TypeOK
  <2>3. Accepted(ui) \in UIs /\ first \in Seq(Events) BY AcceptedType, AcceptEventsType
  <2>4. clear_completion(Accepted(ui)) \in UIs BY <2>3, ClearType
  <2>5. ui' \in UIs /\ events' \in Seq(Events)
    <3>1. events \o first \o <<Event("Cancel", 0, focus)>> \in Seq(Events)
      BY <2>2, <2>3, SentType
    <3> QED BY <3>1, <2>1, <2>3, <2>4 DEF TypeOK
  <2>6. cursor' \in Nat BY <1>4 DEF OtherCommand
  <2> QED BY <1>4, <2>5, <2>6, KeyType, RestoreType DEF OtherCommand, TypeOK
<1>5. CASE ManualTrigger
  <2>1. PICK first \in AcceptEvents :
          events' = events \o first \o <<Event("ManualTrigger", cursor, focus)>>
    BY <1>5 DEF ManualTrigger
  <2>2. <<Event("ManualTrigger", cursor, focus)>> \in Seq(Events) BY EventType DEF TypeOK
  <2>3. Accepted(ui) \in UIs /\ first \in Seq(Events) BY AcceptedType, AcceptEventsType
  <2>4. events' \in Seq(Events) BY <2>1, <2>2, <2>3 DEF TypeOK
  <2> QED BY <1>5, <2>3, <2>4, KeyType, RestoreType DEF ManualTrigger, TypeOK, editorVars
<1>6. CASE SelectItem
  <2>1. ui' \in UIs BY <1>6 DEF SelectItem, TypeOK, UIs
  <2> QED BY <1>6, <2>1, KeyType DEF SelectItem, TypeOK, editorVars
<1>7. CASE AcceptItem
  <2>1. PICK first \in AcceptEvents : events' = events \o first BY <1>7 DEF AcceptItem
  <2>2. Accepted(ui) \in UIs /\ first \in Seq(Events) BY AcceptedType, AcceptEventsType
  <2>3. events' \in Seq(Events) BY <2>1, <2>2 DEF TypeOK
  <2> QED BY <1>7, <2>2, <2>3, KeyType, RestoreType DEF AcceptItem, TypeOK, editorVars
<1>8. CASE LeaveInsert
  <2>1. PICK first \in AcceptEvents :
          events' = events \o first \o <<Event("Cancel", 0, focus)>>
    BY <1>8 DEF LeaveInsert
  <2>2. <<Event("Cancel", 0, focus)>> \in Seq(Events) BY EventType DEF TypeOK
  <2>3. Accepted(ui) \in UIs /\ first \in Seq(Events) BY AcceptedType, AcceptEventsType
  <2>4. events' \in Seq(Events) BY <2>1, <2>2, <2>3 DEF TypeOK
  <2>5. clear_completion(Accepted(ui)) \in UIs BY <2>3, ClearType
  <2> QED BY <1>8, <2>4, <2>5, KeyType, RestoreType DEF LeaveInsert, TypeOK
<1>9. ASSUME NEW v \in Views, Click(v) PROVE TypeOK'
  BY <1>9, KeyType DEF Click, TypeOK
<1>10. CASE DeleteForward
  <2>1. PICK first \in AcceptEvents :
          \/ events' = events
          \/ events' = events \o first \o <<Event("DeleteText", cursor, focus)>>
    BY <1>10 DEF DeleteForward
  <2>2. <<Event("DeleteText", cursor, focus)>> \in Seq(Events) BY EventType DEF TypeOK
  <2>3. Accepted(ui) \in UIs /\ first \in Seq(Events) BY AcceptedType, AcceptEventsType
  <2>4. /\ events \in Seq(Events)
        /\ events \o first \o <<Event("DeleteText", cursor, focus)>> \in Seq(Events)
    BY <2>2, <2>3, SentType
  <2>5. events' \in Seq(Events) BY <2>1, <2>4
  <2> QED BY <1>10, <2>3, <2>5, KeyType, RestoreType DEF DeleteForward, TypeOK, editorVars
<1> QED BY <1>1, <1>2, <1>3, <1>4, <1>5, <1>6, <1>7, <1>8, <1>9, <1>10 DEF User

(* A closure more on its way to the main thread.                           *)
LEMMA AppendType ==
  ASSUME TypeOK, NEW x \in Jobs PROVE Append(jobs, x) \in Seq(Jobs)
BY DEF TypeOK

(* The closures that are left, and the one that runs.                      *)
LEMMA TailType ==
  ASSUME TypeOK, jobs # <<>> PROVE Tail(jobs) \in Seq(Jobs) /\ Head(jobs) \in Jobs
BY DEF TypeOK

(* A new request keeps the types.                                          *)
LEMMA DispatchType ==
  ASSUME TypeOK, NEW t \in Triggers, Dispatch(t)
  PROVE  /\ trigger' \in Triggers /\ in_flight' \in Triggers /\ generation' \in Nat
         /\ requests' \subseteq Requests /\ jobs' \in Seq(Jobs)
<1>1. [kind |-> "request", ctl |-> "hook", gen |-> generation', trigger |-> t] \in Jobs
  BY DEF Dispatch, Jobs, TypeOK
<1>2. jobs' \in Seq(Jobs) BY <1>1, AppendType DEF Dispatch
<1> QED BY <1>2 DEF Dispatch, TypeOK, Triggers, NoTrigger, Survivors

(* Events and the debounce keep the types.                                 *)
LEMMA HandlerType == ASSUME TypeOK, Handler PROVE TypeOK'
<1>1. CASE FinishDebounce
  <2>1. Dispatch(trigger) /\ trigger \in Triggers BY <1>1 DEF FinishDebounce, TypeOK
  <2> QED BY <1>1, <2>1, DispatchType DEF FinishDebounce, TypeOK, editorVars
<1>2. CASE handle_event
  <2>1. Head(events) \in Events /\ events' \in Seq(Events) BY <1>2 DEF handle_event, TypeOK
  <2>2. NewTrigger(Head(events)) \in Triggers BY <2>1 DEF NewTrigger, Triggers, Events
  <2>3. NoTrigger \in Triggers BY DEF NoTrigger, Triggers
  <2>4. /\ trigger' \in Triggers /\ in_flight' \in Triggers /\ generation' \in Nat
        /\ requests' \subseteq Requests /\ jobs' \in Seq(Jobs)
    <3>1. CASE Head(events).kind = "ManualTrigger"
      <4>1. Dispatch(NewTrigger(Head(events))) BY <1>2, <3>1 DEF handle_event
      <4> QED BY <4>1, <2>2, DispatchType
    <3>2. CASE Head(events).kind # "ManualTrigger"
      BY <1>2, <2>2, <2>3, <3>2 DEF handle_event, TypeOK, Cancel, Survivors
    <3> QED BY <3>1, <3>2
  <2> QED BY <1>2, <2>1, <2>4 DEF handle_event, TypeOK, editorVars
<1> QED BY <1>1, <1>2 DEF Handler

(* Answers and deadlines keep the types.                                   *)
LEMMA TasksType == ASSUME TypeOK, Tasks PROVE TypeOK'
<1>1. ASSUME NEW r \in requests, Deadline(r) PROVE TypeOK'
  <2>1. [r EXCEPT !.stage = "sending"] \in Requests BY DEF Requests, TypeOK
  <2> QED BY <1>1, <2>1 DEF Deadline, Become, TypeOK, editorVars, handlerVars
<1>2. ASSUME NEW r \in requests, DispatchShow(r) PROVE TypeOK'
  <2>1. [r EXCEPT !.stage = "rest"] \in Requests BY DEF Requests, TypeOK
  <2>2. [kind |-> "show", view |-> r.view, at |-> r.at, got |-> r.got] \in Jobs
    BY DEF Requests, Jobs, TypeOK
  <2>3. jobs' \in Seq(Jobs) BY <1>2, <2>2, AppendType DEF DispatchShow
  <2>4. requests' \subseteq Requests BY <1>2, <2>1 DEF DispatchShow, Become, TypeOK
  <2> QED BY <1>2, <2>3, <2>4 DEF DispatchShow, TypeOK, editorVars, handlerVars
<1>3. ASSUME NEW r \in requests, NEW p \in r.waiting, NEW a \in Answers(p), Answer(r, p, a)
      PROVE  TypeOK'
  <2> DEFINE left == [r EXCEPT !.waiting = @ \ {p}]
             more == [q \in DOMAIN left.got \cup {p} |-> IF q = p THEN a ELSE left.got[q]]
             next == [left EXCEPT !.stage = "gather", !.got = more]
  <2>1. r \in Requests /\ p \in Providers BY DEF TypeOK, Requests
  <2>2. left \in Requests /\ left.got = r.got BY <2>1 DEF Requests
  <2>3. a \in AnswerSet BY AnswersType
  <2>4. r.got \in Contexts BY <2>1 DEF Requests
  <2>5. more \in Contexts BY <2>1, <2>2, <2>3, <2>4, ContextType
  <2>6. next \in Requests
    <3> HIDE DEF left, more
    <3> QED BY <2>2, <2>5 DEF Requests
  <2>7. Replacement("hook", r, p, a) \in Jobs
    BY <2>1, <2>3 DEF Replacement, Jobs, Requests
  <2>8. /\ \/ requests' = (requests \ {r}) \cup {} \/ requests' = (requests \ {r}) \cup {left}
           \/ requests' = (requests \ {r}) \cup {next}
        /\ jobs' = jobs \/ jobs' = Append(jobs, Replacement("hook", r, p, a))
    BY <1>3 DEF Answer, Become
  <2>9. jobs' \in Seq(Jobs) BY <2>7, <2>8, AppendType DEF TypeOK
  <2>10. requests' \subseteq Requests
    <3> HIDE DEF left, next
    <3> QED BY <2>2, <2>6, <2>8 DEF TypeOK
  <2> QED BY <1>3, <2>9, <2>10 DEF Answer, TypeOK, editorVars, handlerVars
<1>4. ASSUME NEW r \in refreshes, NEW p \in r.waiting, NEW a \in Answers(p), Refreshed(r, p, a)
      PROVE  TypeOK'
  <2>1. r \in Refreshes /\ p \in Providers BY DEF TypeOK, Refreshes
  <2>2. [r EXCEPT !.waiting = @ \ {p}] \in Refreshes BY <2>1 DEF Refreshes
  <2>3. a \in AnswerSet BY AnswersType
  <2>4. Replacement("menu", r, p, a) \in Jobs
    BY <2>1, <2>3 DEF Replacement, Jobs, Refreshes
  <2>5. jobs' \in Seq(Jobs) BY <1>4, <2>4, AppendType DEF Refreshed
  <2>6. refreshes' \subseteq Refreshes BY <1>4, <2>2 DEF Refreshed, TypeOK
  <2> QED BY <1>4, <2>5, <2>6 DEF Refreshed, TypeOK, editorVars, handlerVars
<1> QED BY <1>1, <1>2, <1>3, <1>4 DEF Tasks

(* Showing the menu keeps its type.                                        *)
LEMMA ShowType ==
  ASSUME TypeOK, NEW j \in Jobs, j.kind = "show", show_completion(j)
  PROVE  ui' \in UIs
<1>1. j.at \in Nat /\ j.got \in Contexts BY DEF Jobs
<1>2. Items(j) \subseteq Providers BY <1>1, ContextDomain DEF Items
<1>3. ASSUME NEW kept \in {Items(j), Items(j) \ Words}
      PROVE  [opened |-> j.at, items |-> {[by |-> p, at |-> j.at] : p \in kept}] \in Menus
  <2>1. kept \subseteq Providers BY <1>2
  <2> QED BY <2>1, <1>1 DEF Menus
<1>4. PICK kept \in {Items(j), Items(j) \ Words} :
        \/ ui' = ui \/ ui' = [ui EXCEPT !.active = j.got]
        \/ ui' = [ui EXCEPT !.active = j.got, !.last = "triggered",
                     !.menu = [opened |-> j.at,
                               items |-> {[by |-> p, at |-> j.at] : p \in kept}]]
  BY DEF show_completion
<1> QED BY <1>1, <1>3, <1>4 DEF TypeOK, UIs

(* A later answer or a refresh keeps the types.                            *)
LEMMA ReplaceType ==
  ASSUME TypeOK, NEW j \in Jobs, j.kind = "replace", replace_completions(j)
  PROVE  ui' \in UIs /\ events' \in Seq(Events) /\ panicked' \in BOOLEAN
<1> DEFINE active == [p \in DOMAIN ui.active \cup {j.by} |->
                        IF p = j.by THEN j.answer ELSE ui.active[p]]
<1>1. j.by \in Providers /\ j.at \in Nat /\ j.answer \in AnswerSet BY DEF Jobs
<1>2. Replaced(j) \in SUBSET [by : Providers, at : Nat]
  <2>1. ui.menu.items \in SUBSET [by : Providers, at : Nat] BY DEF TypeOK, UIs, Menus
  <2>2. [by |-> j.by, at |-> j.at] \in [by : Providers, at : Nat] BY <1>1
  <2>3. \/ Replaced(j) \subseteq ui.menu.items
        \/ Replaced(j) \subseteq ui.menu.items \cup {[by |-> j.by, at |-> j.at]}
    BY DEF Replaced
  <2> QED BY <2>1, <2>2, <2>3
<1>3. active \in Contexts BY <1>1, ContextType DEF TypeOK, UIs
<1>4. CASE UNCHANGED <<ui, events, panicked>> BY <1>4 DEF TypeOK
<1>5. ASSUME NEW c \in Chars, restore(ui), ui' = clear_completion(ui),
             events' = events \o trigger_auto_completion(c, FALSE, cursor, focus)
      PROVE  ui' \in UIs /\ events' \in Seq(Events) /\ panicked' \in BOOLEAN
  <2>1. trigger_auto_completion(c, FALSE, cursor, focus) \in Seq(Events)
    BY AutoTriggerType DEF TypeOK
  <2>2. ui' \in UIs BY <1>5, ClearType DEF TypeOK
  <2>3. events' \in Seq(Events) BY <1>5, <2>1, SentType
  <2>4. panicked' \in BOOLEAN BY <1>5, RestoreType
  <2> QED BY <2>2, <2>3, <2>4
<1>6. CASE /\ ui' = [ui EXCEPT !.menu.items = Replaced(j), !.active = active]
           /\ UNCHANGED <<events, panicked>>
  <2>1. ui' \in UIs
    <3> HIDE DEF active
    <3> QED BY <1>2, <1>3, <1>6 DEF TypeOK, UIs, Menus
  <2> QED BY <1>6, <2>1 DEF TypeOK
<1> QED BY <1>4, <1>5, <1>6 DEF replace_completions

(* Sending the requests keeps their type.                                  *)
LEMMA AskType ==
  ASSUME TypeOK, NEW j \in Jobs, j.kind = "request", request_completions(j)
  PROVE  requests' \subseteq Requests
<1>1. j.gen \in Nat BY DEF Jobs
<1>2. ASSUME NEW others \in SUBSET Others
      PROVE  [gen |-> j.gen, view |-> focus, at |-> keys, stage |-> "first",
              waiting |-> Servers \cup others, got |-> NoAnswers] \in Requests
  <2>1. Servers \cup others \in SUBSET Providers BY DEF Providers
  <2> QED BY <1>1, <2>1, NoAnswersType DEF Requests, TypeOK
<1>3. CASE requests' = requests BY <1>3 DEF TypeOK
<1>4. CASE requests' # requests
  <2>1. PICK others \in SUBSET Others :
          requests' = requests \cup {[gen |-> j.gen, view |-> focus, at |-> keys, stage |-> "first",
                                     waiting |-> Servers \cup others, got |-> NoAnswers]}
    BY <1>4, ZenonT(30) DEF request_completions
  <2> QED BY <1>2, <2>1 DEF TypeOK
<1> QED BY <1>3, <1>4

(* The closures keep the types.                                            *)
LEMMA RunJobType == ASSUME TypeOK, RunJob PROVE TypeOK'
<1> DEFINE j == Head(jobs)
<1>1. j \in Jobs /\ jobs' \in Seq(Jobs) BY TailType DEF RunJob
<1>2. UNCHANGED <<mode, focus, cursor, keys, trigger, in_flight, generation>>
  BY DEF RunJob, editorVars, handlerVars
<1>3. CASE j.kind = "request" /\ request_completions(j)
  <2>1. requests' \subseteq Requests BY <1>1, <1>3, AskType
  <2> QED BY <1>1, <1>2, <1>3, <2>1 DEF request_completions, TypeOK
<1>4. CASE j.kind = "show" /\ show_completion(j)
  <2>1. ui' \in UIs BY <1>1, <1>4, ShowType
  <2> QED BY <1>1, <1>2, <1>4, <2>1 DEF show_completion, taskVars, TypeOK
<1>5. CASE j.kind = "replace" /\ replace_completions(j)
  <2>1. ui' \in UIs /\ events' \in Seq(Events) /\ panicked' \in BOOLEAN
    BY <1>1, <1>5, ReplaceType
  <2>2. UNCHANGED taskVars BY <1>5 DEF replace_completions
  <2> QED BY <1>1, <1>2, <2>1, <2>2 DEF taskVars, TypeOK
<1> QED BY <1>3, <1>4, <1>5 DEF RunJob

(* The parameters of the closures, the records of the tasks and the state  *)
(* of the editor keep their types through every key, answer and closure.   *)
THEOREM TypeCorrect == Spec => []TypeOK
<1>1. ASSUME Init PROVE TypeOK
  <2>1. ui \in UIs
    <3>1. NoMenu \in Menus /\ NoAnswers \in Contexts BY NoAnswersType
    <3> QED BY <1>1, <3>1 DEF Init, UIs
  <2>2. NoTrigger \in Triggers BY DEF NoTrigger, Triggers
  <2>3. events \in Seq(Events) /\ jobs \in Seq(Jobs) BY <1>1 DEF Init
  <2> QED BY <1>1, <2>1, <2>2, <2>3 DEF Init, TypeOK
<1>2. TypeOK /\ [Next]_vars => TypeOK'
  <2>1. ASSUME TypeOK, UNCHANGED vars PROVE TypeOK'
    BY <2>1 DEF vars, editorVars, handlerVars, taskVars, TypeOK
  <2> QED BY <2>1, UserType, HandlerType, TasksType, RunJobType DEF Next
<1> QED BY <1>1, <1>2, PTL DEF Spec
-----------------------------------------------------------------------------
(* What each kind of step does to the invariant.                           *)

\* jobs' is jobs without its first d closures.
Shifted(d) == /\ DOMAIN jobs' \subseteq Nat \ {0}
              /\ \A i \in DOMAIN jobs' : i + d \in DOMAIN jobs /\ jobs'[i] = jobs[i + d]

\* The moments and generations are numbers.
Numbers ==
  /\ keys \in Nat /\ generation \in Nat /\ ui.refresh \in Nat /\ ui.menu.opened \in Nat
  /\ \A r \in requests : r.at \in Nat /\ r.gen \in Nat
  /\ \A r \in refreshes : r.at \in Nat /\ r.gen \in Nat
  /\ DOMAIN jobs \subseteq Nat
  /\ \A i \in DOMAIN jobs :
       /\ jobs[i].kind \in {"show", "replace"} => jobs[i].at \in Nat
       /\ jobs[i].kind \in {"request", "replace"} => jobs[i].gen \in Nat

(* The parts of the state that the invariant counts with are numbers.      *)
LEMMA TypedNumbers == ASSUME TypeOK PROVE Numbers
<1>1. ASSUME NEW i \in DOMAIN jobs
      PROVE  /\ jobs[i].kind \in {"show", "replace"} => jobs[i].at \in Nat
             /\ jobs[i].kind \in {"request", "replace"} => jobs[i].gen \in Nat
  <2>1. jobs[i] \in Jobs BY DEF TypeOK
  <2> QED BY <2>1 DEF Jobs
<1>2. DOMAIN jobs \subseteq Nat BY DEF TypeOK
<1>3. ui.refresh \in Nat /\ ui.menu.opened \in Nat BY DEF TypeOK, UIs, Menus
<1> QED BY <1>1, <1>2, <1>3 DEF TypeOK, Numbers, Requests, Refreshes

(* A closure that has run leaves the rest of the queue, shifted by one.    *)
LEMMA QueueSteps ==
  ASSUME TypeOK
  PROVE  /\ jobs' = jobs => Shifted(0)
         /\ jobs # <<>> /\ jobs' = Tail(jobs) => Shifted(1)
         /\ \A x : jobs' = Append(jobs, x) =>
              /\ DOMAIN jobs' = DOMAIN jobs \cup {Len(jobs) + 1}
              /\ Len(jobs) + 1 \notin DOMAIN jobs
              /\ jobs'[Len(jobs) + 1] = x
              /\ \A i \in DOMAIN jobs : jobs'[i] = jobs[i]
<1>1. jobs \in Seq(Jobs) BY DEF TypeOK
<1>2. jobs' = jobs => Shifted(0) BY <1>1 DEF Shifted
<1>3. jobs # <<>> /\ jobs' = Tail(jobs) => Shifted(1) BY <1>1 DEF Shifted
<1>4. ASSUME NEW x, jobs' = Append(jobs, x)
      PROVE  /\ DOMAIN jobs' = DOMAIN jobs \cup {Len(jobs) + 1}
             /\ Len(jobs) + 1 \notin DOMAIN jobs
             /\ jobs'[Len(jobs) + 1] = x
             /\ \A i \in DOMAIN jobs : jobs'[i] = jobs[i]
  BY <1>1, <1>4
<1> QED BY <1>2, <1>3, <1>4

(* A step that closes the menu cancels what was asked for it.              *)
LEMMA ClosingKeepsIInv ==
  ASSUME Numbers, IInv, NEW d \in {0, 1}, Shifted(d),
         ui'.menu = NoMenu, ui'.last = "none", ui'.refresh > ui.refresh, ui'.refresh \in Nat,
         UNCHANGED <<generation, requests, refreshes>>, keys' \in Nat, keys' >= keys
  PROVE  IInv'
<1> USE DEF Numbers, Shifted, NoMenu
<1>1. Coherent' BY DEF Coherent, Triggered, IsOpen
<1>2. InThePast' BY DEF IInv, InThePast
<1>3. AskedOnce' BY DEF IInv, AskedOnce, Asks, LateItem, IsLive
<1>4. LiveIsNewest' BY DEF IInv, LiveIsNewest, IsNewest, LateItem, IsLive
<1>5. FreshIsForTheMenu' BY DEF IInv, InThePast, FreshIsForTheMenu, FreshItem
<1>6. NoOutdatedItems' /\ ItemsHaveContext' BY DEF NoOutdatedItems, ItemsHaveContext
<1> QED BY <1>1, <1>2, <1>3, <1>4, <1>5, <1>6 DEF IInv

(* A step that leaves the menu and the tasks as they are.                  *)
LEMMA QuietKeepsIInv ==
  ASSUME Numbers, IInv, NEW d \in {0, 1}, Shifted(d),
         ui'.menu = ui.menu, ui'.refresh = ui.refresh, Coherent', ItemsHaveContext',
         UNCHANGED <<generation, requests, refreshes>>, keys' \in Nat, keys' >= keys
  PROVE  IInv'
<1> USE DEF Numbers, Shifted
<1>2. InThePast' BY DEF IInv, InThePast
<1>3. AskedOnce' BY DEF IInv, AskedOnce, Asks, LateItem, IsLive
<1>4. LiveIsNewest' BY DEF IInv, LiveIsNewest, IsNewest, LateItem, IsLive
<1>5. FreshIsForTheMenu' BY DEF IInv, FreshIsForTheMenu, FreshItem, IsOpen
<1>6. NoOutdatedItems' BY DEF IInv, NoOutdatedItems
<1> QED BY <1>2, <1>3, <1>4, <1>5, <1>6 DEF IInv

(* A new generation: nothing of it is on its way but a new request.        *)
LEMMA NewGenerationKeepsIInv ==
  ASSUME TypeOK, IInv, generation' = generation + 1, requests' \subseteq requests,
         UNCHANGED <<ui, keys, refreshes>>, NEW x, x.kind = "request", x.gen = generation + 1,
         jobs' = jobs \/ jobs' = Append(jobs, x)
  PROVE  IInv'
<1>1. Numbers BY TypedNumbers
<1>2. \A i \in DOMAIN jobs' :
        (i \in DOMAIN jobs /\ jobs'[i] = jobs[i]) \/ (i = Len(jobs) + 1 /\ jobs'[i] = x)
  <2>1. CASE jobs' = jobs BY <2>1
  <2>2. CASE jobs' = Append(jobs, x)
    <3>1. /\ DOMAIN jobs' = DOMAIN jobs \cup {Len(jobs) + 1}
          /\ jobs'[Len(jobs) + 1] = x
          /\ \A i \in DOMAIN jobs : jobs'[i] = jobs[i]
      BY <2>2, QueueSteps
    <3> QED BY <3>1
  <2> QED BY <2>1, <2>2
<1> USE <1>1, <1>2 DEF Numbers
<1>3. Coherent' /\ NoOutdatedItems' /\ ItemsHaveContext'
  BY DEF IInv, Coherent, Triggered, IsOpen, NoOutdatedItems, ItemsHaveContext
<1>4. InThePast' BY DEF IInv, InThePast
<1>5. /\ \A i \in DOMAIN jobs' : ~LateItem(jobs[i])'
      /\ \A r \in requests' : ~IsLive(r)'
  <2>1. ASSUME NEW i \in DOMAIN jobs', LateItem(jobs[i])' PROVE FALSE
    <3>1. jobs'[i].kind = "replace" /\ jobs'[i].ctl = "hook" /\ jobs'[i].gen = generation + 1
      BY <2>1 DEF LateItem
    <3>2. i \in DOMAIN jobs /\ jobs'[i] = jobs[i] BY <3>1
    <3>3. jobs[i].gen <= generation BY <3>1, <3>2 DEF IInv, InThePast
    <3> QED BY <3>1, <3>2, <3>3
  <2>2. ASSUME NEW r \in requests', IsLive(r)' PROVE FALSE
    BY <2>2 DEF IInv, InThePast, IsLive
  <2> QED BY <2>1, <2>2
<1>6. AskedOnce'
  <2>1. ASSUME NEW i \in DOMAIN jobs', Asks(jobs[i])' PROVE i = Len(jobs) + 1
    <3>1. jobs'[i].kind = "request" /\ jobs'[i].gen = generation + 1 BY <2>1 DEF Asks
    <3>2. CASE i \in DOMAIN jobs /\ jobs'[i] = jobs[i]
      <4>1. jobs[i].gen <= generation BY <3>1, <3>2 DEF IInv, InThePast
      <4> QED BY <4>1, <3>1, <3>2
    <3> QED BY <3>2
  <2> QED BY <2>1, <1>5 DEF AskedOnce
<1>7. LiveIsNewest' BY <1>5 DEF LiveIsNewest, LateItem, IsLive
<1>8. FreshIsForTheMenu' BY DEF IInv, FreshIsForTheMenu, FreshItem, IsOpen
<1> QED BY <1>3, <1>4, <1>6, <1>7, <1>8 DEF IInv

(* A request's task goes on and may send the menu or a later answer: both  *)
(* were asked for when the task was.                                       *)
LEMMA TaskKeepsIInv ==
  ASSUME TypeOK, IInv, NEW r \in requests, NEW next,
         next.at = r.at, next.gen = r.gen, requests' \subseteq requests \cup {next},
         UNCHANGED <<ui, keys, generation, refreshes>>, NEW x, x.at = r.at,
         x.kind = "show" \/ (x.kind = "replace" /\ x.ctl = "hook" /\ x.gen = r.gen),
         jobs' = jobs \/ jobs' = Append(jobs, x)
  PROVE  IInv'
<1>1. Numbers BY TypedNumbers
<1>2. \A i \in DOMAIN jobs' :
        (i \in DOMAIN jobs /\ jobs'[i] = jobs[i]) \/ (i = Len(jobs) + 1 /\ jobs'[i] = x)
  <2>1. CASE jobs' = jobs BY <2>1
  <2>2. CASE jobs' = Append(jobs, x)
    <3>1. /\ DOMAIN jobs' = DOMAIN jobs \cup {Len(jobs) + 1}
          /\ jobs'[Len(jobs) + 1] = x
          /\ \A i \in DOMAIN jobs : jobs'[i] = jobs[i]
      BY <2>2, QueueSteps
    <3> QED BY <3>1
  <2> QED BY <2>1, <2>2
<1> USE <1>1, <1>2 DEF Numbers
<1>3. Coherent' /\ NoOutdatedItems' /\ ItemsHaveContext'
  BY DEF IInv, Coherent, Triggered, IsOpen, NoOutdatedItems, ItemsHaveContext
<1>4. InThePast' BY DEF IInv, InThePast
<1>5. AskedOnce'
  <2>1. \A q \in requests' : IsLive(q)' => \E o \in requests : IsLive(o) BY DEF IsLive
  <2>2. \A i \in DOMAIN jobs' : Asks(jobs[i])' => i \in DOMAIN jobs /\ Asks(jobs[i])
    BY DEF Asks
  <2>3. \A i \in DOMAIN jobs' : LateItem(jobs[i])' =>
          IsLive(r) \/ (i \in DOMAIN jobs /\ LateItem(jobs[i]))
    BY DEF LateItem, IsLive
  <2> QED BY <2>1, <2>2, <2>3 DEF IInv, AskedOnce
<1>6. \A at \in Nat : IsNewest(at) => IsNewest(at)'
  <2> SUFFICES ASSUME NEW at \in Nat, IsNewest(at) PROVE IsNewest(at)' OBVIOUS
  <2>1. r.at <= at BY DEF IsNewest
  <2> QED BY <2>1 DEF IsNewest
<1>7. LiveIsNewest'
  <2>1. ASSUME NEW q \in requests', IsLive(q)' PROVE IsNewest(q.at)'
    <3>1. PICK o \in requests : IsLive(o) /\ o.at = q.at BY <2>1 DEF IsLive
    <3>2. IsNewest(o.at) /\ o.at \in Nat BY <3>1 DEF IInv, LiveIsNewest
    <3>3. PICK at \in Nat : at = o.at BY <3>2
    <3>4. IsNewest(at)' BY <3>2, <3>3, <1>6
    <3> QED BY <3>1, <3>3, <3>4 DEF IsNewest
  <2>2. ASSUME NEW i \in DOMAIN jobs', LateItem(jobs[i])' PROVE IsNewest(jobs[i].at)'
    <3>1. CASE i \in DOMAIN jobs /\ jobs'[i] = jobs[i]
      <4>1. LateItem(jobs[i]) BY <2>2, <3>1 DEF LateItem
      <4>2. IsNewest(jobs[i].at) /\ jobs[i].at \in Nat
        BY <4>1, <3>1 DEF IInv, LiveIsNewest, LateItem
      <4>3. PICK at \in Nat : at = jobs[i].at BY <4>2
      <4>4. IsNewest(at)' BY <4>2, <4>3, <1>6
      <4> QED BY <3>1, <4>3, <4>4 DEF IsNewest
    <3>2. CASE jobs'[i] = x
      <4>1. IsLive(r) BY <2>2, <3>2 DEF LateItem, IsLive
      <4>2. IsNewest(r.at) /\ r.at \in Nat BY <4>1 DEF IInv, LiveIsNewest
      <4>3. PICK at \in Nat : at = r.at BY <4>2
      <4>4. IsNewest(at)' BY <4>2, <4>3, <1>6
      <4> QED BY <4>3, <4>4, <3>2 DEF IsNewest
    <3> QED BY <3>1, <3>2
  <2> QED BY <2>1, <2>2 DEF LiveIsNewest
<1>8. FreshIsForTheMenu' BY DEF IInv, FreshIsForTheMenu, FreshItem, IsOpen
<1> QED BY <1>3, <1>4, <1>5, <1>7, <1>8 DEF IInv

(* A refresh brings what was asked for when the refresh was.               *)
LEMMA RefreshedKeepsIInv ==
  ASSUME TypeOK, IInv, NEW r \in refreshes, NEW next, NEW x,
         next.at = r.at, next.gen = r.gen, refreshes' \subseteq refreshes \cup {next},
         x.kind = "replace", x.ctl = "menu", x.gen = r.gen, x.at = r.at,
         jobs' = Append(jobs, x), UNCHANGED <<ui, keys, generation, requests>>
  PROVE  IInv'
<1>1. Numbers BY TypedNumbers
<1>2. \A i \in DOMAIN jobs' :
        (i \in DOMAIN jobs /\ jobs'[i] = jobs[i]) \/ (i = Len(jobs) + 1 /\ jobs'[i] = x)
  <2>1. /\ DOMAIN jobs' = DOMAIN jobs \cup {Len(jobs) + 1}
        /\ jobs'[Len(jobs) + 1] = x
        /\ \A i \in DOMAIN jobs : jobs'[i] = jobs[i]
    BY QueueSteps
  <2> QED BY <2>1
<1> USE <1>1, <1>2 DEF Numbers
<1>3. Coherent' /\ NoOutdatedItems' /\ ItemsHaveContext'
  BY DEF IInv, Coherent, Triggered, IsOpen, NoOutdatedItems, ItemsHaveContext
<1>4. InThePast' BY DEF IInv, InThePast
<1>5. AskedOnce' BY DEF IInv, AskedOnce, Asks, LateItem, IsLive
<1>6. LiveIsNewest' BY DEF IInv, LiveIsNewest, IsNewest, LateItem, IsLive
<1>7. FreshIsForTheMenu' BY DEF IInv, FreshIsForTheMenu, FreshItem, IsOpen
<1> QED BY <1>3, <1>4, <1>5, <1>6, <1>7 DEF IInv

(* A key that keeps the menu open cancels the refresh before and asks for  *)
(* the menu that is open.                                                  *)
LEMMA FilterKeepsIInv ==
  ASSUME Numbers, IInv, IsOpen(ui), ui'.menu = ui.menu, ui'.last = ui.last,
         ui'.active = ui.active, ui'.refresh = ui.refresh + 1,
         NEW waiting, keys' = keys + 1, UNCHANGED <<generation, requests, jobs>>,
         refreshes' \subseteq refreshes \cup
           {[gen |-> ui.refresh + 1, at |-> keys + 1, waiting |-> waiting]}
  PROVE  IInv'
<1> USE DEF Numbers
<1>1. Coherent' /\ NoOutdatedItems' /\ ItemsHaveContext'
  BY DEF IInv, Coherent, Triggered, IsOpen, NoOutdatedItems, ItemsHaveContext
<1>2. InThePast' BY DEF IInv, InThePast
<1>3. AskedOnce' BY DEF IInv, AskedOnce, Asks, LateItem, IsLive
<1>4. LiveIsNewest' BY DEF IInv, LiveIsNewest, IsNewest, LateItem, IsLive
<1>5. FreshIsForTheMenu' BY DEF IInv, InThePast, FreshIsForTheMenu, FreshItem, IsOpen
<1> QED BY <1>1, <1>2, <1>3, <1>4, <1>5 DEF IInv

(* A request is sent at the last moment so far, the first of its           *)
(* generation.                                                             *)
LEMMA AskKeepsIInv ==
  ASSUME Numbers, IInv, 1 \in DOMAIN jobs, Asks(jobs[1]), Shifted(1), NEW new,
         new.at = keys, new.gen = generation, requests' = requests \cup {new},
         UNCHANGED <<ui, keys, generation, refreshes>>
  PROVE  IInv'
<1> USE DEF Numbers, Shifted
<1>1. Coherent' /\ NoOutdatedItems' /\ ItemsHaveContext'
  BY DEF IInv, Coherent, Triggered, IsOpen, NoOutdatedItems, ItemsHaveContext
<1>2. InThePast' BY DEF IInv, InThePast
<1>3. ASSUME NEW i \in DOMAIN jobs'
      PROVE  ~Asks(jobs[i])' /\ ~LateItem(jobs[i])'
  <2>1. i + 1 \in DOMAIN jobs /\ jobs'[i] = jobs[i + 1] /\ i + 1 # 1 OBVIOUS
  <2> QED BY <2>1 DEF IInv, AskedOnce, Asks, LateItem
<1>4. AskedOnce' BY <1>3 DEF AskedOnce
<1>5. \A r \in requests : ~IsLive(r) BY DEF IInv, AskedOnce
<1>6. IsNewest(keys)' BY DEF IInv, InThePast, IsNewest
<1>7. LiveIsNewest'
  <2>1. ASSUME NEW r \in requests', IsLive(r)' PROVE IsNewest(r.at)'
    <3>1. r.at = keys BY <2>1, <1>5 DEF IsLive
    <3> QED BY <3>1, <1>6 DEF IsNewest
  <2> QED BY <2>1, <1>3 DEF LiveIsNewest
<1>8. FreshIsForTheMenu' BY DEF IInv, FreshIsForTheMenu, FreshItem, IsOpen
<1> QED BY <1>1, <1>2, <1>4, <1>7, <1>8 DEF IInv

(* A menu is shown: nothing on its way is older than it.                   *)
LEMMA ShowKeepsIInv ==
  ASSUME Numbers, IInv, 1 \in DOMAIN jobs, jobs[1].kind = "show", Shifted(1), ~IsOpen(ui),
         ui'.menu.opened = jobs[1].at, ui'.menu.items # {}, ui'.last = "triggered",
         ui'.refresh = ui.refresh,
         \A i \in ui'.menu.items : i.at = jobs[1].at /\ i.by \in DOMAIN ui'.active,
         UNCHANGED <<keys, generation, requests, refreshes>>
  PROVE  IInv'
<1> USE DEF Numbers, Shifted
<1>1. Coherent' /\ NoOutdatedItems' /\ ItemsHaveContext'
  BY DEF Coherent, Triggered, IsOpen, NoOutdatedItems, ItemsHaveContext
<1>2. InThePast' BY DEF IInv, InThePast
<1>3. AskedOnce' BY DEF IInv, AskedOnce, Asks, LateItem, IsLive
<1>4. LiveIsNewest' BY DEF IInv, LiveIsNewest, IsNewest, LateItem, IsLive
<1>5. FreshIsForTheMenu' BY DEF IInv, FreshIsForTheMenu, FreshItem, IsOpen
<1> QED BY <1>1, <1>2, <1>3, <1>4, <1>5 DEF IInv

(* A later answer, or a refresh, that is not canceled is for the menu that *)
(* is open, and newer than it.                                             *)
LEMMA ReplaceKeepsIInv ==
  ASSUME TypeOK, IInv, 1 \in DOMAIN jobs, Shifted(1), NEW j, j = jobs[1], j.kind = "replace",
         j.ctl \in {"hook", "menu"}, IsOpen(ui), ~IsCanceled(j.ctl, j.gen), Replaced(j) # {},
         NEW active, DOMAIN active = DOMAIN ui.active \cup {j.by},
         ui' = [ui EXCEPT !.menu.items = Replaced(j), !.active = active],
         UNCHANGED <<keys, generation, requests, refreshes>>
  PROVE  IInv'
<1>1. Numbers BY TypedNumbers
<1> USE <1>1 DEF Numbers, Shifted
<1>2. /\ ui'.menu.opened = ui.menu.opened /\ ui'.menu.items = Replaced(j)
      /\ ui'.last = ui.last /\ ui'.refresh = ui.refresh /\ ui'.active = active
  BY DEF TypeOK, UIs, Menus
<1>3. j.at >= ui.menu.opened
  <2>1. CASE j.ctl = "hook"
    <3>1. LateItem(jobs[1]) BY <2>1 DEF IsCanceled, Generation, LateItem
    <3> QED BY <3>1 DEF IInv, LiveIsNewest, IsNewest
  <2>2. CASE j.ctl = "menu"
    <3>1. FreshItem(jobs[1]) BY <2>2 DEF IsCanceled, Generation, FreshItem
    <3> QED BY <3>1 DEF IInv, FreshIsForTheMenu
  <2> QED BY <2>1, <2>2
<1>4. \A i \in Replaced(j) : i \in ui.menu.items \/ (i.at = j.at /\ i.by = j.by)
  BY DEF Replaced
<1>5. NoOutdatedItems' BY <1>2, <1>3, <1>4 DEF IInv, NoOutdatedItems
<1>6. ItemsHaveContext' BY <1>2, <1>4 DEF IInv, ItemsHaveContext
<1>7. Coherent' BY <1>2 DEF IInv, Coherent, Triggered, IsOpen
<1>8. InThePast' BY <1>2 DEF IInv, InThePast
<1>9. AskedOnce' BY DEF IInv, AskedOnce, Asks, LateItem, IsLive
<1>10. LiveIsNewest' BY <1>2 DEF IInv, LiveIsNewest, IsNewest, LateItem, IsLive
<1>11. FreshIsForTheMenu' BY <1>2 DEF IInv, FreshIsForTheMenu, FreshItem, IsOpen
<1> QED BY <1>5, <1>6, <1>7, <1>8, <1>9, <1>10, <1>11 DEF IInv

(* A key or a click selects, filters, closes or leaves the menu.           *)
LEMMA UserKeepsIInv == ASSUME TypeOK, IInv, User PROVE IInv'
<1>1. Numbers /\ Shifted(0) /\ keys' = keys + 1
      /\ UNCHANGED <<generation, requests, jobs>>
  <2>1. /\ keys' = keys + 1 /\ UNCHANGED <<generation, requests, jobs>>
    BY DEF User, TypeChar, EnterInsert, DeleteChar, DeleteForward, OtherCommand, ManualTrigger,
           SelectItem, AcceptItem, LeaveInsert, Click, Press, Quiet, handlerVars
  <2>2. Shifted(0) BY <2>1, QueueSteps
  <2> QED BY <2>1, <2>2, TypedNumbers
<1>2. keys' \in Nat /\ keys' >= keys BY <1>1 DEF Numbers
<1>3. ASSUME ui' = ui, refreshes' = refreshes PROVE IInv'
  <2>1. Coherent' /\ ItemsHaveContext'
    BY <1>3 DEF IInv, Coherent, Triggered, IsOpen, ItemsHaveContext
  <2> QED BY <1>1, <1>2, <1>3, <2>1, QuietKeepsIInv
<1>4. ASSUME NEW u \in UIs, u = ui \/ u = clear_completion(ui), ui' = clear_completion(u),
             refreshes' = refreshes
      PROVE  IInv'
  <2>1. /\ ui'.menu = NoMenu /\ ui'.last = "none" /\ ui'.refresh = u.refresh + 1
        /\ u.refresh \in Nat
    BY <1>4, ClearType DEF UIs
  <2>3. u.refresh = ui.refresh \/ u.refresh = ui.refresh + 1
    BY <1>4, ClearType DEF TypeOK
  <2>2. ui'.refresh > ui.refresh /\ ui'.refresh \in Nat BY <1>1, <2>1, <2>3 DEF Numbers
  <2> QED BY <1>1, <1>2, <1>4, <2>1, <2>2, ClosingKeepsIInv
<1>5. ASSUME NEW u \in UIs, u = ui \/ u = clear_completion(ui), ui' = u, refreshes' = refreshes
      PROVE  IInv'
  <2>1. CASE u = ui BY <1>3, <1>5, <2>1
  <2>2. CASE u = clear_completion(ui)
    <3>1. ui \in UIs BY DEF TypeOK
    <3> QED BY <1>4, <1>5, <2>2, <3>1
  <2> QED BY <1>5, <2>1, <2>2
<1>6. /\ Accepted(ui) \in UIs
      /\ Accepted(ui) = ui \/ Accepted(ui) = clear_completion(ui)
  BY AcceptedType
<1>7. ASSUME NEW closes \in BOOLEAN, NEW sent, Triggered(Accepted(ui)),
             update_completion_filter(Accepted(ui), closes, sent)
      PROVE  IInv'
  <2>1. CASE ui' = clear_completion(Accepted(ui)) /\ refreshes' = refreshes
    BY <1>4, <1>6, <2>1
  <2>2. CASE /\ ui' = [Accepted(ui) EXCEPT !.refresh = @ + 1]
             /\ refreshes' = request_incomplete_completion_list(ui', keys + 1)
    <3>1. Accepted(ui) = ui BY <1>6, <1>7, ClearType DEF Triggered, TypeOK
    <3>2. IsOpen(ui) BY <3>1, <1>7 DEF IInv, Coherent
    <3>3. /\ ui'.menu = ui.menu /\ ui'.last = ui.last /\ ui'.active = ui.active
          /\ ui'.refresh = ui.refresh + 1
      BY <3>1, <2>2 DEF TypeOK, UIs
    <3> DEFINE waiting == {p \in DOMAIN ui'.active : ui'.active[p].incomplete}
    <3>4. refreshes' \subseteq refreshes \cup
            {[gen |-> ui.refresh + 1, at |-> keys + 1, waiting |-> waiting]}
      BY <2>2, <3>3 DEF request_incomplete_completion_list
    <3> HIDE DEF waiting
    <3> QED BY <1>1, <3>2, <3>3, <3>4, FilterKeepsIInv
  <2> QED BY <1>7, <2>1, <2>2 DEF update_completion_filter
<1>8. ASSUME NEW c \in Chars, TypeChar(c) PROVE IInv'
  <2>1. CASE Triggered(Accepted(ui)) BY <1>7, <1>8, <2>1 DEF TypeChar
  <2>2. CASE ~Triggered(Accepted(ui)) BY <1>5, <1>6, <1>8, <2>2 DEF TypeChar
  <2> QED BY <2>1, <2>2
<1>9. CASE DeleteChar
  <2>1. CASE Triggered(Accepted(ui)) BY <1>7, <1>9, <2>1 DEF DeleteChar
  <2>2. CASE ~Triggered(Accepted(ui)) BY <1>5, <1>6, <1>9, <2>2 DEF DeleteChar
  <2> QED BY <2>1, <2>2
<1>10. CASE OtherCommand BY <1>4, <1>5, <1>6, <1>10 DEF OtherCommand
<1>11. CASE ManualTrigger BY <1>5, <1>6, <1>11 DEF ManualTrigger
<1>12. CASE AcceptItem BY <1>5, <1>6, <1>12 DEF AcceptItem
<1>13. CASE LeaveInsert BY <1>4, <1>6, <1>13 DEF LeaveInsert
<1>14. ASSUME NEW c \in Chars, EnterInsert(c) PROVE IInv'
  BY <1>3, <1>4, <1>14 DEF EnterInsert, TypeOK
<1>15. ASSUME NEW v \in Views, Click(v) PROVE IInv' BY <1>3, <1>15 DEF Click
<1>16. CASE SelectItem
  <2>1. /\ ui'.menu = ui.menu /\ ui'.refresh = ui.refresh /\ ui'.active = ui.active
        /\ ui'.last # "none" /\ refreshes' = refreshes
    <3>1. ui.last # "none" BY <1>16 DEF SelectItem, IInv, Coherent, Triggered
    <3>2. focus # "none" BY CompletionAssumption DEF TypeOK
    <3> QED BY <1>16, <3>1, <3>2 DEF SelectItem, TypeOK, UIs
  <2>2. Coherent' /\ ItemsHaveContext'
    BY <1>16, <2>1 DEF IInv, SelectItem, Coherent, Triggered, IsOpen, ItemsHaveContext
  <2> QED BY <1>1, <1>2, <2>1, <2>2, QuietKeepsIInv
<1>17. CASE DeleteForward BY <1>5, <1>6, <1>17 DEF DeleteForward
<1> QED BY <1>8, <1>9, <1>10, <1>11, <1>12, <1>13, <1>14, <1>15, <1>16, <1>17 DEF User

(* The handler starts a new generation, or leaves the tasks alone.         *)
LEMMA HandlerKeepsIInv == ASSUME TypeOK, IInv, Handler PROVE IInv'
<1>1. UNCHANGED <<ui, keys, refreshes>> BY DEF Handler, handle_event, FinishDebounce
<1>2. Survivors \subseteq requests BY DEF Survivors
<1>3. ASSUME NEW t, Dispatch(t) PROVE IInv'
  <2> DEFINE x == [kind |-> "request", ctl |-> "hook", gen |-> generation', trigger |-> t]
  <2>1. x.kind = "request" /\ x.gen = generation' OBVIOUS
  <2>2. /\ generation' = generation + 1 /\ requests' \subseteq requests
        /\ jobs' = Append(jobs, x)
    BY <1>2, <1>3 DEF Dispatch
  <2> HIDE DEF x
  <2> QED BY <1>1, <2>1, <2>2, NewGenerationKeepsIInv
<1>4. ASSUME UNCHANGED <<generation, requests, jobs>> PROVE IInv'
  <2>1. Coherent' /\ ItemsHaveContext'
    BY <1>1 DEF IInv, Coherent, Triggered, IsOpen, ItemsHaveContext
  <2>2. Numbers /\ Shifted(0) BY <1>4, TypedNumbers, QueueSteps
  <2>3. keys' \in Nat /\ keys' >= keys BY <1>1, <2>2 DEF Numbers
  <2> QED BY <1>1, <1>4, <2>1, <2>2, <2>3, QuietKeepsIInv
<1>5. ASSUME Cancel, jobs' = jobs PROVE IInv'
  <2>1. CASE IsRunning
    <3> DEFINE x == [kind |-> "request", gen |-> generation + 1]
    <3>1. x.kind = "request" /\ x.gen = generation + 1 OBVIOUS
    <3>2. generation' = generation + 1 /\ requests' \subseteq requests
      BY <1>2, <1>5, <2>1 DEF Cancel
    <3> HIDE DEF x
    <3> QED BY <1>1, <1>5, <3>1, <3>2, NewGenerationKeepsIInv
  <2>2. CASE ~IsRunning BY <1>4, <1>5, <2>2 DEF Cancel
  <2> QED BY <2>1, <2>2
<1>6. CASE FinishDebounce BY <1>3, <1>6 DEF FinishDebounce
<1>7. CASE handle_event BY <1>3, <1>4, <1>5, <1>7 DEF handle_event
<1> QED BY <1>6, <1>7 DEF Handler

(* The tasks pass on what was asked for when they started.                 *)
LEMMA TasksKeepIInv == ASSUME TypeOK, IInv, Tasks PROVE IInv'
<1>1. ASSUME NEW r \in requests, NEW next, NEW x, next.at = r.at, next.gen = r.gen,
             requests' \subseteq requests \cup {next}, x.at = r.at,
             x.kind = "show" \/ (x.kind = "replace" /\ x.ctl = "hook" /\ x.gen = r.gen),
             jobs' = jobs \/ jobs' = Append(jobs, x),
             UNCHANGED <<ui, keys, generation, refreshes>>
      PROVE  IInv'
  BY <1>1, TaskKeepsIInv
<1>2. ASSUME NEW r \in requests, Deadline(r) PROVE IInv'
  <2> DEFINE next == [r EXCEPT !.stage = "sending"]
             x == [kind |-> "show", at |-> r.at]
  <2>1. /\ next.at = r.at /\ next.gen = r.gen /\ x.at = r.at /\ x.kind = "show"
        /\ requests' \subseteq requests \cup {next} /\ jobs' = jobs
        /\ UNCHANGED <<ui, keys, generation, refreshes>>
    BY <1>2 DEF Deadline, Become, TypeOK, Requests, handlerVars
  <2> HIDE DEF next, x
  <2> QED BY <1>1, <2>1
<1>3. ASSUME NEW r \in requests, DispatchShow(r) PROVE IInv'
  <2> DEFINE next == [r EXCEPT !.stage = "rest"]
             x == [kind |-> "show", view |-> r.view, at |-> r.at, got |-> r.got]
  <2>1. /\ next.at = r.at /\ next.gen = r.gen /\ x.at = r.at /\ x.kind = "show"
        /\ requests' \subseteq requests \cup {next} /\ jobs' = Append(jobs, x)
        /\ UNCHANGED <<ui, keys, generation, refreshes>>
    BY <1>3 DEF DispatchShow, Become, TypeOK, Requests, handlerVars
  <2> HIDE DEF next, x
  <2> QED BY <1>1, <2>1
<1>4. ASSUME NEW r \in requests, NEW p \in r.waiting, NEW a \in Answers(p), Answer(r, p, a)
      PROVE  IInv'
  <2> DEFINE left == [r EXCEPT !.waiting = @ \ {p}]
             more == [q \in DOMAIN left.got \cup {p} |-> IF q = p THEN a ELSE left.got[q]]
             gathered == [left EXCEPT !.stage = "gather", !.got = more]
             x == Replacement("hook", r, p, a)
  <2>1. /\ left.at = r.at /\ left.gen = r.gen /\ gathered.at = r.at /\ gathered.gen = r.gen
        /\ x.at = r.at /\ x.kind = "replace" /\ x.ctl = "hook" /\ x.gen = r.gen
    BY DEF TypeOK, Requests, Replacement
  <2>2. /\ \/ requests' \subseteq requests \cup {left}
           \/ requests' \subseteq requests \cup {gathered}
        /\ jobs' = jobs \/ jobs' = Append(jobs, x)
    <3>1. /\ \/ requests' = (requests \ {r}) \cup {} \/ requests' = (requests \ {r}) \cup {left}
             \/ requests' = (requests \ {r}) \cup {gathered}
          /\ jobs' = jobs \/ jobs' = Append(jobs, x)
      BY <1>4 DEF Answer, Become
    <3> HIDE DEF left, gathered, x
    <3> QED BY <3>1
  <2>3. UNCHANGED <<ui, keys, generation, refreshes>> BY <1>4 DEF Answer, handlerVars
  <2> HIDE DEF left, gathered, x
  <2> QED BY <1>1, <2>1, <2>2, <2>3
<1>5. ASSUME NEW r \in refreshes, NEW p \in r.waiting, NEW a \in Answers(p), Refreshed(r, p, a)
      PROVE  IInv'
  <2> DEFINE next == [r EXCEPT !.waiting = @ \ {p}]
             x == Replacement("menu", r, p, a)
  <2>1. /\ next.at = r.at /\ next.gen = r.gen /\ refreshes' \subseteq refreshes \cup {next}
        /\ jobs' = Append(jobs, x) /\ UNCHANGED <<ui, keys, generation, requests>>
    BY <1>5 DEF Refreshed, TypeOK, Refreshes, handlerVars
  <2>2. x.at = r.at /\ x.kind = "replace" /\ x.ctl = "menu" /\ x.gen = r.gen
    BY DEF Replacement
  <2> HIDE DEF next, x
  <2> QED BY <2>1, <2>2, RefreshedKeepsIInv
<1> QED BY <1>2, <1>3, <1>4, <1>5 DEF Tasks

(* A closure asks, shows, replaces, closes, or finds itself outdated.      *)
LEMMA RunJobKeepsIInv == ASSUME TypeOK, IInv, RunJob PROVE IInv'
<1> DEFINE j == Head(jobs)
<1>1. Numbers /\ Shifted(1) BY TypedNumbers, QueueSteps DEF RunJob
<1>2. 1 \in DOMAIN jobs /\ j = jobs[1] /\ j \in Jobs BY DEF RunJob, TypeOK
<1>3. keys' = keys /\ generation' = generation BY DEF RunJob, handlerVars
<1>4. keys' \in Nat /\ keys' >= keys BY <1>1, <1>3 DEF Numbers
<1> HIDE DEF j
<1>5. ASSUME ui'.menu = ui.menu, ui'.refresh = ui.refresh, Coherent', ItemsHaveContext',
             UNCHANGED <<requests, refreshes>>
      PROVE  IInv'
  BY <1>1, <1>3, <1>4, <1>5, QuietKeepsIInv
<1>6. ASSUME ui' = ui PROVE Coherent' /\ ItemsHaveContext'
  BY <1>6 DEF IInv, Coherent, Triggered, IsOpen, ItemsHaveContext
<1>7. CASE j.kind = "request" /\ request_completions(j)
  <2>1. UNCHANGED <<ui, refreshes>> BY <1>7 DEF request_completions
  <2>2. CASE requests' = requests BY <1>5, <1>6, <2>1, <2>2
  <2>3. CASE requests' # requests
    <3>1. PICK others \in SUBSET Others :
            requests' = requests \cup {[gen |-> j.gen, view |-> focus, at |-> keys,
                          stage |-> "first", waiting |-> Servers \cup others, got |-> NoAnswers]}
      BY <1>7, <2>3, ZenonT(30) DEF request_completions
    <3>2. ~IsCanceled("hook", j.gen) BY <1>7, <2>3 DEF request_completions
    <3>3. Asks(jobs[1]) BY <1>2, <1>7, <3>2 DEF IsCanceled, Generation, Asks
    <3> DEFINE new == [gen |-> j.gen, view |-> focus, at |-> keys, stage |-> "first",
                       waiting |-> Servers \cup others, got |-> NoAnswers]
    <3>4. new.at = keys /\ new.gen = generation /\ requests' = requests \cup {new}
      BY <3>1, <3>2 DEF IsCanceled, Generation
    <3> HIDE DEF new
    <3> QED BY <1>1, <1>2, <1>3, <2>1, <3>3, <3>4, AskKeepsIInv
  <2> QED BY <2>2, <2>3
<1>8. CASE j.kind = "show" /\ show_completion(j)
  <2>1. UNCHANGED <<requests, refreshes>> BY <1>8 DEF show_completion, taskVars
  <2>2. CASE ui' = ui BY <1>5, <1>6, <2>1, <2>2
  <2>3. CASE ~IsOpen(ui) /\ ui' = [ui EXCEPT !.active = j.got]
    <3>1. ui'.menu = ui.menu /\ ui'.refresh = ui.refresh /\ ui'.last = ui.last
      BY <2>3 DEF TypeOK, UIs
    <3>2. Coherent' /\ ItemsHaveContext'
      BY <2>3, <3>1 DEF IInv, Coherent, Triggered, IsOpen, ItemsHaveContext
    <3> QED BY <1>5, <2>1, <3>1, <3>2
  <2>4. ASSUME ~IsOpen(ui), NEW kept \in SUBSET Items(j), kept # {},
               ui' = [ui EXCEPT !.active = j.got, !.last = "triggered",
                        !.menu = [opened |-> j.at,
                                  items |-> {[by |-> p, at |-> j.at] : p \in kept}]]
        PROVE  IInv'
    <3>1. /\ ui'.menu.opened = j.at /\ ui'.menu.items = {[by |-> p, at |-> j.at] : p \in kept}
          /\ ui'.last = "triggered" /\ ui'.refresh = ui.refresh /\ ui'.active = j.got
      BY <2>4 DEF TypeOK, UIs
    <3>2. \A i \in ui'.menu.items : i.at = j.at /\ i.by \in DOMAIN ui'.active
      BY <3>1 DEF Items
    <3>3. ui'.menu.items # {} BY <2>4, <3>1
    <3> QED BY <1>1, <1>2, <1>3, <1>8, <2>1, <2>4, <3>1, <3>2, <3>3, ShowKeepsIInv
  <2>5. \/ ui' = ui
        \/ ~IsOpen(ui) /\ ui' = [ui EXCEPT !.active = j.got]
        \/ /\ ~IsOpen(ui)
           /\ \E kept \in SUBSET Items(j) :
                /\ kept # {}
                /\ ui' = [ui EXCEPT !.active = j.got, !.last = "triggered",
                            !.menu = [opened |-> j.at,
                                      items |-> {[by |-> p, at |-> j.at] : p \in kept}]]
    BY <1>8, ZenonT(30) DEF show_completion
  <2> QED BY <2>2, <2>3, <2>4, <2>5
<1>9. CASE j.kind = "replace" /\ replace_completions(j)
  <2>1. UNCHANGED <<requests, refreshes>> BY <1>9 DEF replace_completions, taskVars
  <2>2. CASE ui' = ui BY <1>5, <1>6, <2>1, <2>2
  <2>3. CASE ui' = clear_completion(ui)
    <3>1. /\ ui'.menu = NoMenu /\ ui'.last = "none" /\ ui'.refresh = ui.refresh + 1
      BY <2>3, ClearType DEF TypeOK
    <3>2. ui'.refresh > ui.refresh /\ ui'.refresh \in Nat BY <1>1, <3>1 DEF Numbers
    <3> QED BY <1>1, <1>3, <1>4, <2>1, <3>1, <3>2, ClosingKeepsIInv
  <2> DEFINE active == [p \in DOMAIN ui.active \cup {j.by} |->
                          IF p = j.by THEN j.answer ELSE ui.active[p]]
  <2>4. CASE /\ IsOpen(ui) /\ ~IsCanceled(j.ctl, j.gen) /\ Replaced(j) # {}
             /\ ui' = [ui EXCEPT !.menu.items = Replaced(j), !.active = active]
    <3>1. j.ctl \in {"hook", "menu"} BY <1>2, <1>9 DEF Jobs
    <3>2. DOMAIN active = DOMAIN ui.active \cup {j.by} OBVIOUS
    <3> HIDE DEF active
    <3> QED BY <1>1, <1>2, <1>3, <1>9, <2>1, <2>4, <3>1, <3>2, ReplaceKeepsIInv
  <2> QED BY <1>9, <2>2, <2>3, <2>4 DEF replace_completions
<1> QED BY <1>7, <1>8, <1>9 DEF RunJob, j

(* The invariant holds in every reachable state.                           *)
LEMMA Invariance == Spec => [](TypeOK /\ IInv)
<1>1. Init => IInv
  BY DEF Init, IInv, Coherent, InThePast, AskedOnce, LiveIsNewest, FreshIsForTheMenu,
         NoOutdatedItems, ItemsHaveContext, Triggered, IsOpen, NoMenu
<1>2. TypeOK /\ IInv /\ [Next]_vars => IInv'
  <2>1. ASSUME TypeOK, IInv, UNCHANGED vars PROVE IInv'
    <3>1. UNCHANGED <<ui, keys, jobs, requests, refreshes, generation>>
      BY <2>1 DEF vars, handlerVars, taskVars
    <3>2. Coherent' /\ ItemsHaveContext'
      BY <2>1, <3>1 DEF IInv, Coherent, Triggered, IsOpen, ItemsHaveContext
    <3>3. Numbers /\ Shifted(0) BY <2>1, <3>1, TypedNumbers, QueueSteps
    <3>4. keys' \in Nat /\ keys' >= keys BY <3>1, <3>3 DEF Numbers
    <3> QED BY <2>1, <3>1, <3>2, <3>3, <3>4, QuietKeepsIInv
  <2> QED BY <2>1, UserKeepsIInv, HandlerKeepsIInv, TasksKeepIInv, RunJobKeepsIInv DEF Next
<1> QED BY <1>1, <1>2, TypeCorrect, PTL DEF Spec

(* Accepting or previewing an item looks its provider up in                *)
(* active_completions: a provider with an item in the menu is always there, *)
(* in whatever order answers, refreshes and keys come.                     *)
THEOREM AlwaysItemsHaveContext == Spec => []ItemsHaveContext
<1>1. IInv => ItemsHaveContext BY DEF IInv
<1> QED BY <1>1, Invariance, PTL

(* Late answers and refreshes that were canceled are dropped: no item of   *)
(* the menu was asked for before the text the menu was opened for.         *)
THEOREM AlwaysNoOutdatedItems == Spec => []NoOutdatedItems
<1>1. IInv => NoOutdatedItems BY DEF IInv
<1> QED BY <1>1, Invariance, PTL
=============================================================================
