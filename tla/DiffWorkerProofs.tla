-------------------------- MODULE DiffWorkerProofs --------------------------
(***************************************************************************)
(* Frames wait for the diff of what they draw, for any number of edits and *)
(* of updates of the base: FramesWaitForTheDiff of module DiffWorker.      *)
(*                                                                         *)
(* The newest text is always somewhere between the channel and the         *)
(* published diff (NewestIsUnderWay), and until it is published a guard of *)
(* the render lock travels with it (AccInOrder, DiffIsGuarded), unless the *)
(* timeout of a guard taken since the last frame has expired.              *)
(***************************************************************************)
EXTENDS DiffWorker, TLAPS

IsDoc(i) == channel[i].kind = "doc"

\* Each event of an edit carries its guard; edits come in order.
ChannelInOrder ==
  /\ \A i \in DOMAIN channel : channel[i].kind = "base" => channel[i].lock = NoLock
  /\ \A i \in DOMAIN channel : IsDoc(i) =>
       /\ channel[i].lock = channel[i].text /\ channel[i].text \in locks
       /\ channel[i].text > cache.doc /\ channel[i].text > acc.doc
  /\ \A i, j \in DOMAIN channel :
       IsDoc(i) /\ IsDoc(j) /\ i < j => channel[i].text < channel[j].text

\* The accumulator holds a guard if it holds a text of the document.
AccInOrder ==
  /\ worker # "debouncing" => acc = Nothing
  /\ worker = "debouncing" => acc.base # NoText \/ acc.doc # NoText
  /\ acc.doc = NoText => acc.lock = NoLock
  /\ acc.doc # NoText => acc.lock \in locks /\ acc.lock > cache.doc /\ acc.lock <= acc.doc

\* The guards that tasks hold are distinct, and older than those to come.
TasksInOrder ==
  /\ \A n \in Cycles : n > cycle => task[n].lock = NoLock
  /\ \A n \in Cycles : task[n].lock # NoLock => task[n].lock <= cache.doc
  /\ \A m, n \in Cycles : m # n /\ task[m].lock # NoLock => task[m].lock # task[n].lock
  /\ cache.doc >= 0

\* A diff takes at least an event of its own.
CyclesAreEvents ==
  cycle + Len(channel) + (IF worker = "debouncing" THEN 1 ELSE 0) <= text + base

NewestIsUnderWay ==
  \/ \E i \in DOMAIN channel : IsDoc(i) /\ channel[i].text = text
  \/ acc.doc = text
  \/ acc.doc = NoText /\ cache.doc = text

GuardsAreNew == \A l \in locks : l > drawn.text

PublishedIsCached == worker # "diffing" => shown = cache

Expired == \E l \in drawn.text + 1 .. text : l <= now

\* While the newest text is diffed, the task of the diff holds a guard.
DiffIsGuarded ==
  worker = "diffing" /\ cache.doc = text =>
    \/ text = drawn.text \/ shown.doc = text \/ Expired
    \/ /\ cycle \in Cycles
       /\ task[cycle].at \in {"spawned", "listening"}
       /\ task[cycle].lock \in locks

DInv == /\ TypeOK /\ ChannelInOrder /\ AccInOrder /\ TasksInOrder /\ CyclesAreEvents
        /\ NewestIsUnderWay /\ GuardsAreNew /\ PublishedIsCached /\ DiffIsGuarded

-----------------------------------------------------------------------------
(* What follows from the invariant at once. *)

(* Guards and texts are numbers.                                           *)
LEMMA Typed ==
  ASSUME TypeOK
  PROVE  /\ text \in Nat /\ \A l \in locks : l \in Nat /\ l <= text /\ l # NoLock
         /\ channel \in Seq([kind : {"doc", "base"}, text : Nat, lock : Nat])
         /\ \A i \in DOMAIN channel : /\ i \in Nat
                                       /\ channel[i].text \in Nat /\ channel[i].lock \in Nat
                                       /\ channel[i].kind \in {"doc", "base"}
<1> DEFINE T == [kind : {"doc", "base"}, text : Nat, lock : Nat]
<1>1. text \in Nat /\ locks \subseteq 1..text
  BY DiffAssumption DEF TypeOK
<1>2. channel \in Seq(T)
  BY DEF TypeOK
<1>3. ASSUME NEW i \in DOMAIN channel
      PROVE  i \in Nat /\ channel[i] \in T
  <2> HIDE DEF T
  <2> QED BY <1>2
<1>4. ASSUME NEW i \in DOMAIN channel
      PROVE  /\ channel[i].text \in Nat /\ channel[i].lock \in Nat
             /\ channel[i].kind \in {"doc", "base"}
  BY <1>3
<1> QED BY <1>1, <1>2, <1>3, <1>4 DEF NoLock

(* No text on its way is newer than the document's.                        *)
LEMMA NothingIsNewer ==
  ASSUME DInv
  PROVE  /\ cache.doc <= text /\ acc.doc <= text
         /\ \A i \in DOMAIN channel : IsDoc(i) => channel[i].text <= text
<1>1. \A i \in DOMAIN channel : IsDoc(i) => channel[i].text <= text
  BY Typed DEF DInv, ChannelInOrder
<1>2. CASE \E i \in DOMAIN channel : IsDoc(i) /\ channel[i].text = text
  <2>1. cache.doc < text /\ acc.doc < text
    BY <1>2 DEF DInv, ChannelInOrder
  <2>2. cache.doc \in Int /\ acc.doc \in Int /\ text \in Int
    BY Typed DEF DInv, TypeOK, TextsOf
  <2> QED BY <1>1, <2>1, <2>2
<1>3. CASE acc.doc = text
  BY <1>1, <1>3 DEF DInv, TypeOK, TextsOf, AccInOrder, NoText
<1>4. CASE acc.doc = NoText /\ cache.doc = text
  BY <1>1, <1>4 DEF DInv, TypeOK, TextsOf, NoText
<1> QED BY <1>2, <1>3, <1>4 DEF DInv, NewestIsUnderWay

(* The events of the channel are records, and so are those of its tail.    *)
LEMMA ChannelTail ==
  ASSUME TypeOK, channel # <<>>
  PROVE  /\ 1 \in DOMAIN channel /\ Head(channel) = channel[1]
         /\ Tail(channel) \in Seq([kind : {"doc", "base"}, text : Nat, lock : Nat])
         /\ Head(channel) \in [kind : {"doc", "base"}, text : Nat, lock : Nat]
         /\ Len(Tail(channel)) = Len(channel) - 1
         /\ \A i \in DOMAIN Tail(channel) :
              i \in Nat /\ i + 1 \in DOMAIN channel /\ Tail(channel)[i] = channel[i + 1]
         /\ \A i \in DOMAIN channel : i # 1 =>
              i - 1 \in DOMAIN Tail(channel) /\ channel[i] = Tail(channel)[i - 1]
<1> DEFINE T == [kind : {"doc", "base"}, text : Nat, lock : Nat]
<1>1. channel \in Seq(T) BY DEF TypeOK
<1> HIDE DEF T
<1>2. 1 \in DOMAIN channel /\ Head(channel) = channel[1] /\ Head(channel) \in T
  BY <1>1
<1>3. Tail(channel) \in Seq(T) /\ Len(Tail(channel)) = Len(channel) - 1
  BY <1>1
<1>4. \A i \in DOMAIN Tail(channel) :
        i \in Nat /\ i + 1 \in DOMAIN channel /\ Tail(channel)[i] = channel[i + 1]
  BY <1>1
<1>5. \A i \in DOMAIN channel : i # 1 =>
        i - 1 \in DOMAIN Tail(channel) /\ channel[i] = Tail(channel)[i - 1]
  BY <1>1
<1> QED BY <1>2, <1>3, <1>4, <1>5 DEF T

(* What is sent is the last event of the channel.                          *)
LEMMA ChannelAppend ==
  ASSUME TypeOK, NEW e \in [kind : {"doc", "base"}, text : Nat, lock : Nat],
         channel' = Append(channel, e)
  PROVE  /\ DOMAIN channel' = DOMAIN channel \cup {Len(channel) + 1}
         /\ channel'[Len(channel) + 1] = e
         /\ \A i \in DOMAIN channel : channel'[i] = channel[i] /\ i < Len(channel) + 1
         /\ Len(channel') = Len(channel) + 1 /\ Len(channel) + 1 \notin DOMAIN channel
<1> DEFINE T == [kind : {"doc", "base"}, text : Nat, lock : Nat]
<1>1. channel \in Seq(T) /\ e \in T
  BY DEF TypeOK
<1> HIDE DEF T
<1>2. Len(channel') = Len(channel) + 1 /\ channel'[Len(channel) + 1] = e
  BY <1>1
<1>3. \A i \in DOMAIN channel : channel'[i] = channel[i] /\ i < Len(channel) + 1
  BY <1>1
<1>4. DOMAIN channel' = DOMAIN channel \cup {Len(channel) + 1} /\ Len(channel) + 1 \notin DOMAIN channel
  BY <1>1
<1> QED BY <1>2, <1>3, <1>4

(* The order of the channel does not depend on what the step leaves alone. *)
LEMMA SameOrder ==
  ASSUME DInv, UNCHANGED <<text, channel, acc, cache, worker>>,
         \A l \in locks : l > cache.doc => l \in locks'
  PROVE  ChannelInOrder' /\ AccInOrder' /\ NewestIsUnderWay'
<1>1. ChannelInOrder'
  BY DEF DInv, TypeOK, TextsOf, ChannelInOrder, IsDoc
<1>2. AccInOrder'
  BY DEF DInv, TypeOK, TextsOf, AccInOrder
<1>3. NewestIsUnderWay'
  BY DEF DInv, NewestIsUnderWay, IsDoc
<1> QED BY <1>1, <1>2, <1>3

-----------------------------------------------------------------------------
(* Each step keeps the invariant. *)

LEMMA InitKeeps == Init => DInv
<1> SUFFICES ASSUME Init PROVE DInv OBVIOUS
<1> USE DiffAssumption
<1>1. TypeOK
  <2>1. task \in [Cycles -> [at : {"none", "spawned", "listening", "notified", "done"},
                             lock : Nat]]
    BY DEF Init, NoLock
  <2>2. NoText \in Int /\ 0 \in Int /\ NoLock \in Nat BY DEF NoText, NoLock
  <2>3. /\ shown \in TextsOf(Int, Int) /\ cache \in TextsOf(Int, Int)
        /\ drawn \in [text : 0..text, diff : TextsOf(Int, Int)]
    BY <2>2 DEF Init, Texts, TextsOf
  <2>4. acc \in [base : Int, doc : Int, lock : Nat]
    BY <2>2 DEF Init, Nothing
  <2>5. channel \in Seq([kind : {"doc", "base"}, text : Nat, lock : Nat])
    BY DEF Init
  <2>6. cycle \in 0..(MaxEdits + MaxBases) /\ text \in 0..MaxEdits /\ base \in 0..MaxBases
    BY DEF Init
  <2> QED BY <2>1, <2>3, <2>4, <2>5, <2>6 DEF Init, TypeOK
<1>2. ChannelInOrder BY DEF Init, ChannelInOrder
<1>3. AccInOrder BY DEF Init, AccInOrder, Nothing
<1>4. TasksInOrder BY DEF Init, TasksInOrder, Texts
<1>5. CyclesAreEvents BY DEF Init, CyclesAreEvents
<1>6. NewestIsUnderWay BY DEF Init, NewestIsUnderWay, Nothing, Texts
<1>7. GuardsAreNew /\ PublishedIsCached /\ DiffIsGuarded
  BY DEF Init, GuardsAreNew, PublishedIsCached, DiffIsGuarded
<1> QED BY <1>1, <1>2, <1>3, <1>4, <1>5, <1>6, <1>7 DEF DInv

LEMMA EditKeeps == ASSUME DInv, update_document PROVE DInv'
<1> USE DiffAssumption
<1> DEFINE e == Event("doc", text + 1, text + 1)
<1>0. /\ text' = text + 1 /\ locks' = locks \cup {text + 1} /\ channel' = Append(channel, e)
      /\ UNCHANGED <<base, main, drawn, now, worker, acc, cache, shown, task, cycle>>
  BY DEF update_document, workerVars
<1>1. TypeOK'
  <2>1. e \in [kind : {"doc", "base"}, text : Nat, lock : Nat]
    BY DEF DInv, TypeOK, Event
  <2>2. channel' \in Seq([kind : {"doc", "base"}, text : Nat, lock : Nat])
    BY <1>0, <2>1 DEF DInv, TypeOK
  <2>3. drawn' \in [text : 0..text', diff : TextsOf(Int, Int)]
    BY <1>0 DEF DInv, TypeOK
  <2> QED BY <1>0, <2>2, <2>3 DEF DInv, TypeOK, update_document, redrawVars
<1>2. /\ DOMAIN channel' = DOMAIN channel \cup {Len(channel) + 1}
      /\ channel'[Len(channel) + 1] = e
      /\ \A i \in DOMAIN channel : channel'[i] = channel[i] /\ i < Len(channel) + 1
      /\ Len(channel') = Len(channel) + 1 /\ Len(channel) + 1 \notin DOMAIN channel
  <2>1. e \in [kind : {"doc", "base"}, text : Nat, lock : Nat]
    BY DEF DInv, TypeOK, Event
  <2> HIDE DEF e
  <2> QED BY <1>0, <2>1, ChannelAppend DEF DInv
<1>3. ChannelInOrder'
  <2>1. e.kind = "doc" /\ e.text = text + 1 /\ e.lock = text + 1 BY DEF Event
  <2> HIDE DEF e
  <2>2. \A i \in DOMAIN channel' : channel'[i].kind = "base" => channel'[i].lock = NoLock
    BY <1>2, <2>1 DEF DInv, ChannelInOrder
  <2>3. ASSUME NEW i \in DOMAIN channel', channel'[i].kind = "doc"
        PROVE  /\ channel'[i].lock = channel'[i].text /\ channel'[i].text \in locks'
               /\ channel'[i].text > cache.doc /\ channel'[i].text > acc.doc
    <3>1. CASE i \in DOMAIN channel
      BY <1>0, <1>2, <2>3, <3>1 DEF DInv, ChannelInOrder, IsDoc
    <3>2. CASE i = Len(channel) + 1
      <4>1. text + 1 > cache.doc /\ text + 1 > acc.doc
        BY NothingIsNewer DEF DInv, TypeOK, TextsOf
      <4> QED BY <1>0, <1>2, <2>1, <3>2, <4>1
    <3> QED BY <1>2, <3>1, <3>2
  <2>4. ASSUME NEW i \in DOMAIN channel', NEW j \in DOMAIN channel',
               channel'[i].kind = "doc", channel'[j].kind = "doc", i < j
        PROVE  channel'[i].text < channel'[j].text
    <3>1. i \in DOMAIN channel BY <1>2, <2>4 DEF DInv, TypeOK
    <3>2. CASE j \in DOMAIN channel
      BY <1>2, <2>4, <3>1, <3>2 DEF DInv, ChannelInOrder, IsDoc
    <3>3. CASE j = Len(channel) + 1
      <4>1. channel[i].text \in locks BY <1>2, <2>4, <3>1 DEF DInv, ChannelInOrder, IsDoc
      <4>2. channel[i].text < text + 1 BY <4>1, Typed DEF DInv
      <4> QED BY <1>2, <2>1, <3>1, <3>3, <4>2
    <3> QED BY <1>2, <3>2, <3>3
  <2> QED BY <1>0, <2>2, <2>3, <2>4 DEF ChannelInOrder, IsDoc
<1>4. AccInOrder' BY <1>0 DEF DInv, AccInOrder
<1>5. TasksInOrder' BY <1>0 DEF DInv, TasksInOrder
<1>6. CyclesAreEvents' BY <1>0, <1>2 DEF DInv, TypeOK, CyclesAreEvents
<1>7. NewestIsUnderWay'
  <2>1. e.kind = "doc" /\ e.text = text' BY <1>0 DEF Event
  <2>2. \E i \in DOMAIN channel' : channel'[i].kind = "doc" /\ channel'[i].text = text'
    BY <1>2, <2>1
  <2> QED BY <2>2 DEF NewestIsUnderWay, IsDoc
<1>8. GuardsAreNew' BY <1>0 DEF DInv, TypeOK, GuardsAreNew
<1>9. PublishedIsCached' BY <1>0 DEF DInv, PublishedIsCached
<1>10. DiffIsGuarded'
  <2>1. cache.doc # text' BY <1>0, NothingIsNewer DEF DInv, TypeOK, TextsOf
  <2> QED BY <1>0, <2>1 DEF DiffIsGuarded
<1> QED BY <1>1, <1>3, <1>4, <1>5, <1>6, <1>7, <1>8, <1>9, <1>10 DEF DInv

LEMMA BaseKeeps == ASSUME DInv, update_diff_base PROVE DInv'
<1> USE DiffAssumption
<1> DEFINE e == Event("base", base + 1, NoLock)
<1>0. /\ base' = base + 1 /\ channel' = Append(channel, e)
      /\ UNCHANGED <<text, main, drawn, locks, now, worker, acc, cache, shown, task, cycle>>
  BY DEF update_diff_base, workerVars
<1>1. TypeOK'
  <2>1. e \in [kind : {"doc", "base"}, text : Nat, lock : Nat]
    BY DEF DInv, TypeOK, Event, NoLock
  <2>2. channel' \in Seq([kind : {"doc", "base"}, text : Nat, lock : Nat])
    BY <1>0, <2>1 DEF DInv, TypeOK
  <2> QED BY <1>0, <2>2 DEF DInv, TypeOK, update_diff_base, redrawVars
<1>2. /\ DOMAIN channel' = DOMAIN channel \cup {Len(channel) + 1}
      /\ channel'[Len(channel) + 1] = e
      /\ \A i \in DOMAIN channel : channel'[i] = channel[i] /\ i < Len(channel) + 1
      /\ Len(channel') = Len(channel) + 1 /\ Len(channel) + 1 \notin DOMAIN channel
  <2>1. e \in [kind : {"doc", "base"}, text : Nat, lock : Nat]
    BY DEF DInv, TypeOK, Event, NoLock
  <2> HIDE DEF e
  <2> QED BY <1>0, <2>1, ChannelAppend DEF DInv
<1>3. ChannelInOrder'
  <2>1. e.kind = "base" /\ e.lock = NoLock BY DEF Event
  <2> HIDE DEF e
  <2> QED BY <1>0, <1>2, <2>1 DEF DInv, ChannelInOrder, IsDoc
<1>4. AccInOrder' BY <1>0 DEF DInv, AccInOrder
<1>5. TasksInOrder' BY <1>0 DEF DInv, TasksInOrder
<1>6. CyclesAreEvents' BY <1>0, <1>2 DEF DInv, TypeOK, CyclesAreEvents
<1>7. NewestIsUnderWay' BY <1>0, <1>2 DEF DInv, NewestIsUnderWay, IsDoc
<1>8. GuardsAreNew' BY <1>0 DEF DInv, GuardsAreNew
<1>9. PublishedIsCached' BY <1>0 DEF DInv, PublishedIsCached
<1>10. DiffIsGuarded' BY <1>0 DEF DInv, DiffIsGuarded, Expired
<1> QED BY <1>1, <1>3, <1>4, <1>5, <1>6, <1>7, <1>8, <1>9, <1>10 DEF DInv

(* The steps of the event loop, the clock and a task that begins to listen *)
(* leave what the invariant speaks of alone, but for the frame drawn.      *)
LEMMA FrameKeeps == ASSUME DInv, start_frame PROVE DInv'
<1>0. /\ locks = {} /\ drawn' = [text |-> text, diff |-> shown]
      /\ UNCHANGED <<text, base, channel, locks, now, worker, acc, cache, shown, task, cycle>>
  BY DEF start_frame, editorVars, workerVars
<1>1. TypeOK'
  <2>1. drawn' \in [text : 0..text, diff : TextsOf(Int, Int)]
    BY <1>0 DEF DInv, TypeOK
  <2>2. /\ main' \in {"idle", "waiting"} /\ wantFrame' \in BOOLEAN /\ permit' \in BOOLEAN
        /\ needs_redraw' \in BOOLEAN /\ redraw_timer' \in BOOLEAN
    BY DEF start_frame, DInv, TypeOK
  <2> QED BY <1>0, <2>1, <2>2 DEF DInv, TypeOK
<1>2. ChannelInOrder' /\ AccInOrder' /\ NewestIsUnderWay' BY <1>0, SameOrder
<1>3. TasksInOrder' BY <1>0 DEF DInv, TasksInOrder
<1>4. CyclesAreEvents' BY <1>0 DEF DInv, CyclesAreEvents
<1>5. GuardsAreNew' /\ PublishedIsCached' BY <1>0 DEF DInv, GuardsAreNew, PublishedIsCached
<1>6. DiffIsGuarded' BY <1>0 DEF DiffIsGuarded
<1> QED BY <1>1, <1>2, <1>3, <1>4, <1>5, <1>6 DEF DInv

LEMMA LoopKeeps ==
  ASSUME DInv, BeginFrame \/ redraw_requested \/ RedrawTimer \/ UNCHANGED vars
  PROVE  DInv'
<1>0. UNCHANGED <<text, base, drawn, channel, locks, now, worker, acc, cache, shown, task, cycle>>
  BY DEF BeginFrame, redraw_requested, RedrawTimer, vars, editorVars, frameVars, workerVars
<1>1. TypeOK'
  BY <1>0 DEF DInv, TypeOK, BeginFrame, redraw_requested, RedrawTimer, vars, frameVars, redrawVars
<1>2. ChannelInOrder' /\ AccInOrder' /\ NewestIsUnderWay' BY <1>0, SameOrder
<1>3. TasksInOrder' BY <1>0 DEF DInv, TasksInOrder
<1>4. CyclesAreEvents' BY <1>0 DEF DInv, CyclesAreEvents
<1>5. GuardsAreNew' /\ PublishedIsCached' BY <1>0 DEF DInv, GuardsAreNew, PublishedIsCached
<1>6. DiffIsGuarded' BY <1>0 DEF DInv, DiffIsGuarded, Expired
<1> QED BY <1>1, <1>2, <1>3, <1>4, <1>5, <1>6 DEF DInv

LEMMA TickKeeps == ASSUME DInv, Tick PROVE DInv'
<1>0. /\ now < text /\ now' = now + 1
      /\ UNCHANGED <<text, base, drawn, channel, locks, worker, acc, cache, shown, task, cycle>>
  BY DEF Tick, editorVars, frameVars, workerVars
<1>1. TypeOK' BY <1>0 DEF DInv, TypeOK, Tick, frameVars, redrawVars
<1>2. ChannelInOrder' /\ AccInOrder' /\ NewestIsUnderWay' BY <1>0, SameOrder
<1>3. TasksInOrder' BY <1>0 DEF DInv, TasksInOrder
<1>4. CyclesAreEvents' BY <1>0 DEF DInv, CyclesAreEvents
<1>5. GuardsAreNew' /\ PublishedIsCached' BY <1>0 DEF DInv, GuardsAreNew, PublishedIsCached
<1>6. DiffIsGuarded'
  <2>1. Expired => Expired' BY <1>0 DEF DInv, TypeOK, Expired
  <2> QED BY <1>0, <2>1 DEF DInv, DiffIsGuarded
<1> QED BY <1>1, <1>2, <1>3, <1>4, <1>5, <1>6 DEF DInv

(* A received event takes its guard into the accumulator, or drops it when *)
(* an older guard is there already.                                        *)
LEMMA ReceiveKeeps == ASSUME DInv, Recv \/ Accumulate PROVE DInv'
<1> DEFINE e == channel[1]
<1>t. TypeOK BY DEF DInv
<1>0. /\ channel # <<>> /\ worker \in {"idle", "debouncing"} /\ worker' = "debouncing"
      /\ acc' = handle_event(acc, e) /\ channel' = Tail(channel)
      /\ locks' = IF acc.lock = NoLock THEN locks ELSE locks \ {e.lock}
      /\ UNCHANGED <<text, base, main, wantFrame, drawn, now, cache, shown, task, cycle,
                     permit, needs_redraw, redraw_timer>>
  <2>1. CASE Recv
    <3>1. acc = Nothing /\ acc.lock = NoLock
      BY <2>1 DEF Recv, DInv, AccInOrder, Nothing
    <3> QED BY <2>1, <3>1, <1>t, ChannelTail
            DEF Recv, editorVars, frameVars, redrawVars
  <2>2. CASE Accumulate
    BY <2>2, <1>t, ChannelTail DEF Accumulate, editorVars, frameVars, redrawVars
  <2> QED BY <2>1, <2>2
<1>1. /\ 1 \in DOMAIN channel /\ e.kind \in {"doc", "base"} /\ e.text \in Nat /\ e.lock \in Nat
      /\ text \in Nat /\ acc.base \in Int /\ acc.doc \in Int /\ acc.lock \in Nat
      /\ cache.doc \in Int /\ NoText \notin Nat /\ NoText \in Int
  <2>1. 1 \in DOMAIN channel
    BY <1>0, <1>t, ChannelTail
  <2>2. e.kind \in {"doc", "base"} /\ e.text \in Nat /\ e.lock \in Nat /\ text \in Nat
    BY <1>t, <2>1, Typed
  <2>3. acc.base \in Int /\ acc.doc \in Int /\ acc.lock \in Nat /\ cache.doc \in Int
    BY <1>t DEF TypeOK, TextsOf
  <2> QED BY <2>1, <2>2, <2>3 DEF NoText
<1>2. /\ acc'.base = IF e.kind = "base" THEN e.text ELSE acc.base
      /\ acc'.doc  = IF e.kind = "doc" THEN e.text ELSE acc.doc
      /\ acc'.lock = IF acc.lock = NoLock THEN e.lock ELSE acc.lock
      /\ acc' \in [base : Int, doc : Int, lock : Nat]
  BY <1>0, <1>1 DEF handle_event
<1>3. \A i \in DOMAIN channel' :
        /\ i \in Nat /\ i + 1 \in DOMAIN channel /\ channel'[i] = channel[i + 1] /\ 1 < i + 1
  BY <1>0, <1>t, ChannelTail
<1>4. /\ e.kind = "base" => e.lock = NoLock
      /\ e.kind = "doc" => /\ e.lock = e.text /\ e.text \in locks
                           /\ e.text > cache.doc /\ e.text > acc.doc
  BY <1>1 DEF DInv, ChannelInOrder, IsDoc
<1>5. \A i \in DOMAIN channel : IsDoc(i) /\ e.kind = "doc" /\ 1 < i => channel[i].text > e.text
  BY <1>1, Typed, <1>t DEF DInv, ChannelInOrder, IsDoc
<1>6. \A l \in locks : l # e.lock => l \in locks'
  BY <1>0
<1> HIDE DEF e
<1>7. TypeOK'
  <2>1. channel' \in Seq([kind : {"doc", "base"}, text : Nat, lock : Nat])
    BY <1>0, <1>t, ChannelTail
  <2>2. locks' \subseteq 1..text BY <1>0 DEF DInv, TypeOK
  <2> QED BY <1>0, <1>2, <2>1, <2>2 DEF DInv, TypeOK
<1>8. ChannelInOrder'
  <2>1. \A i \in DOMAIN channel' : channel'[i].kind = "base" => channel'[i].lock = NoLock
    BY <1>3 DEF DInv, ChannelInOrder
  <2>2. ASSUME NEW i \in DOMAIN channel', channel'[i].kind = "doc"
        PROVE  /\ channel'[i].lock = channel'[i].text /\ channel'[i].text \in locks'
               /\ channel'[i].text > cache'.doc /\ channel'[i].text > acc'.doc
    <3>1. /\ i + 1 \in DOMAIN channel /\ IsDoc(i + 1) /\ channel'[i] = channel[i + 1] /\ 1 < i + 1
      BY <1>3, <2>2 DEF IsDoc
    <3>2. /\ channel[i + 1].lock = channel[i + 1].text /\ channel[i + 1].text \in locks
          /\ channel[i + 1].text > cache.doc /\ channel[i + 1].text > acc.doc
      BY <3>1 DEF DInv, ChannelInOrder
    <3>3. channel[i + 1].text \in Nat /\ channel[i + 1].text # NoLock
      BY <3>2, <1>t, Typed
    <3>4. CASE e.kind = "doc"
      <4>1. channel[i + 1].text > e.text BY <3>1, <3>4, <1>5
      <4>2. channel[i + 1].text # e.lock BY <4>1, <3>3, <3>4, <1>1, <1>4
      <4> QED BY <3>1, <3>2, <3>4, <4>1, <4>2, <1>0, <1>2, <1>6
    <3>5. CASE e.kind = "base"
      <4>1. channel[i + 1].text # e.lock BY <3>3, <3>5, <1>4
      <4> QED BY <3>1, <3>2, <3>5, <4>1, <1>0, <1>2, <1>6
    <3> QED BY <3>4, <3>5, <1>1
  <2>3. ASSUME NEW i \in DOMAIN channel', NEW j \in DOMAIN channel',
               channel'[i].kind = "doc", channel'[j].kind = "doc", i < j
        PROVE  channel'[i].text < channel'[j].text
    <3>1. i + 1 < j + 1 BY <1>3, <2>3
    <3> QED BY <1>3, <2>3, <3>1 DEF DInv, ChannelInOrder, IsDoc
  <2> QED BY <2>1, <2>2, <2>3 DEF ChannelInOrder, IsDoc
<1>9. AccInOrder'
  <2>1. acc'.base # NoText \/ acc'.doc # NoText
    BY <1>1, <1>2
  <2>2. acc'.doc = NoText => acc'.lock = NoLock
    BY <1>1, <1>2, <1>4 DEF DInv, AccInOrder
  <2>3. ASSUME acc'.doc # NoText
        PROVE  acc'.lock \in locks' /\ acc'.lock > cache'.doc /\ acc'.lock <= acc'.doc
    <3>1. CASE acc.doc = NoText
      <4>1. acc.lock = NoLock BY <3>1 DEF DInv, AccInOrder
      <4>2. e.kind = "doc" BY <2>3, <3>1, <1>1, <1>2
      <4> QED BY <4>1, <4>2, <1>0, <1>1, <1>2, <1>4
    <3>2. CASE acc.doc # NoText
      <4>1. acc.lock \in locks /\ acc.lock > cache.doc /\ acc.lock <= acc.doc
        BY <3>2 DEF DInv, AccInOrder
      <4>2. acc.lock # NoLock BY <4>1, <1>t, Typed
      <4>3. CASE e.kind = "doc"
        BY <4>1, <4>2, <4>3, <1>0, <1>1, <1>2, <1>4, <1>6
      <4>4. CASE e.kind = "base"
        BY <4>1, <4>2, <4>4, <1>0, <1>1, <1>2, <1>4, <1>6
      <4> QED BY <4>3, <4>4, <1>1
    <3> QED BY <3>1, <3>2
  <2> QED BY <1>0, <2>1, <2>2, <2>3 DEF AccInOrder
<1>10. TasksInOrder' BY <1>0 DEF DInv, TasksInOrder
<1>11. CyclesAreEvents'
  <2>1. Len(channel') = Len(channel) - 1 /\ Len(channel) \in Nat
    BY <1>0, <1>t, ChannelTail, Typed
  <2> QED BY <1>0, <2>1 DEF DInv, TypeOK, CyclesAreEvents
<1>12. NewestIsUnderWay'
  <2>1. CASE e.kind = "doc" /\ e.text = text
    BY <2>1, <1>0, <1>2 DEF NewestIsUnderWay
  <2>2. ASSUME NEW i \in DOMAIN channel, IsDoc(i), channel[i].text = text, i # 1
        PROVE  NewestIsUnderWay'
    <3>1. i - 1 \in DOMAIN channel' /\ channel'[i - 1] = channel[i]
      BY <2>2, <1>0, <1>t, ChannelTail
    <3>2. \E j \in DOMAIN channel' : channel'[j].kind = "doc" /\ channel'[j].text = text'
      BY <2>2, <3>1, <1>0 DEF IsDoc
    <3> QED BY <3>2 DEF NewestIsUnderWay, IsDoc
  <2>3. CASE acc.doc = text
    <3>1. e.kind = "base" BY <2>3, <1>1, <1>4, Typed, <1>t
    <3> QED BY <2>3, <3>1, <1>0, <1>2 DEF NewestIsUnderWay
  <2>4. CASE acc.doc = NoText /\ cache.doc = text
    <3>1. e.kind = "base" BY <2>4, <1>1, <1>4, Typed, <1>t
    <3> QED BY <2>4, <3>1, <1>0, <1>2 DEF NewestIsUnderWay
  <2>5. CASE IsDoc(1) /\ channel[1].text = text
    BY <2>1, <2>5 DEF IsDoc, e
  <2> QED BY <2>2, <2>3, <2>4, <2>5 DEF DInv, NewestIsUnderWay
<1>13. GuardsAreNew' BY <1>0 DEF DInv, GuardsAreNew
<1>14. PublishedIsCached' BY <1>0 DEF DInv, PublishedIsCached
<1>15. DiffIsGuarded' BY <1>0 DEF DiffIsGuarded
<1> QED BY <1>7, <1>8, <1>9, <1>10, <1>11, <1>12, <1>13, <1>14, <1>15 DEF DInv

(* The guard goes on to the task of the diff.                              *)
LEMMA DebouncedKeeps == ASSUME DInv, Debounced PROVE DInv'
<1> USE DiffAssumption
<1> DEFINE t == [at |-> "spawned", lock |-> acc.lock]
<1>t. TypeOK BY DEF DInv
<1>0. /\ worker = "debouncing" /\ channel = <<>> /\ worker' = "diffing"
      /\ cycle' = cycle + 1 /\ task' = [task EXCEPT ![cycle + 1] = t]
      /\ cache' = Cached(acc) /\ acc' = Nothing
      /\ UNCHANGED <<text, base, main, wantFrame, drawn, channel, locks, now, shown,
                     permit, needs_redraw, redraw_timer>>
  BY DEF Debounced, editorVars, frameVars, redrawVars
<1>1. cycle \in Nat /\ cycle + 1 \in Cycles
  <2>1. cycle + 1 <= text + base BY <1>0 DEF DInv, TypeOK, CyclesAreEvents
  <2> QED BY <2>1 DEF DInv, TypeOK, Cycles
<1>2. /\ task'[cycle + 1] = t
      /\ \A n \in Cycles : n # cycle + 1 => task'[n] = task[n]
  BY <1>0, <1>1 DEF DInv, TypeOK
<1>3. /\ cache'.doc = IF acc.doc = NoText THEN cache.doc ELSE acc.doc
      /\ cache' \in TextsOf(Int, Int) /\ cache.doc \in Int /\ acc.doc \in Int /\ acc.lock \in Nat
      /\ cache'.doc \in Int /\ NoText \in Int
  BY <1>0 DEF DInv, TypeOK, TextsOf, Cached, Texts, NoText
<1>4. acc'.doc = NoText /\ acc'.lock = NoLock /\ acc'.base = NoText BY <1>0 DEF Nothing
<1>5. /\ acc.doc # NoText => acc.lock \in locks /\ acc.lock > cache.doc /\ acc.lock <= acc.doc
      /\ acc.doc = NoText => acc.lock = NoLock
  BY DEF DInv, AccInOrder
<1>6. TypeOK'
  <2>1. t \in [at : {"none", "spawned", "listening", "notified", "done"}, lock : Nat]
    BY <1>3
  <2>2. task' \in [Cycles -> [at : {"none", "spawned", "listening", "notified", "done"},
                              lock : Nat]]
    BY <1>0, <2>1 DEF DInv, TypeOK
  <2>3. cycle' \in 0..(MaxEdits + MaxBases) BY <1>0, <1>1 DEF Cycles
  <2>4. acc' \in [base : Int, doc : Int, lock : Nat] BY <1>0, <1>3 DEF Nothing, NoLock
  <2> QED BY <1>0, <1>3, <2>2, <2>3, <2>4 DEF DInv, TypeOK
<1>7. ChannelInOrder' BY <1>0 DEF ChannelInOrder
<1>8. AccInOrder' BY <1>0, <1>4 DEF AccInOrder
<1>9. TasksInOrder'
  <2>0. cache.doc >= 0 /\ cache'.doc >= cache.doc /\ acc.lock <= cache'.doc
    <3>1. cache.doc >= 0 BY DEF DInv, TasksInOrder
    <3>2. CASE acc.doc = NoText BY <3>1, <3>2, <1>3, <1>5 DEF NoLock
    <3>3. CASE acc.doc # NoText BY <3>1, <3>3, <1>3, <1>5
    <3> QED BY <3>1, <3>2, <3>3
  <2>t. \A n \in Cycles : task[n].lock \in Nat /\ n \in Nat /\ t.lock = acc.lock
    BY DEF DInv, TypeOK, Cycles
  <2> HIDE DEF t
  <2>1. \A n \in Cycles : n > cycle' => task'[n].lock = NoLock
    BY <1>0, <1>1, <1>2, <2>t DEF DInv, TasksInOrder
  <2>2. \A n \in Cycles : task'[n].lock # NoLock => task'[n].lock <= cache'.doc
    <3> SUFFICES ASSUME NEW n \in Cycles, task'[n].lock # NoLock
                 PROVE  task'[n].lock <= cache'.doc
      OBVIOUS
    <3>1. CASE n = cycle + 1 BY <3>1, <1>2, <2>0, <2>t
    <3>2. CASE n # cycle + 1
      <4>1. task'[n] = task[n] /\ task[n].lock <= cache.doc
        BY <3>2, <1>2 DEF DInv, TasksInOrder
      <4> QED BY <4>1, <2>0, <2>t, <1>3
    <3> QED BY <3>1, <3>2
  <2>3. ASSUME NEW n \in Cycles, n # cycle + 1, task[n].lock # NoLock
        PROVE  task[n].lock # acc.lock
    <3>1. task[n].lock <= cache.doc BY <2>3 DEF DInv, TasksInOrder
    <3> QED BY <2>3, <3>1, <1>3, <1>5, <2>t
  <2>4. \A m, n \in Cycles : m # n /\ task'[m].lock # NoLock => task'[m].lock # task'[n].lock
    <3> SUFFICES ASSUME NEW m \in Cycles, NEW n \in Cycles, m # n, task'[m].lock # NoLock
                 PROVE  task'[m].lock # task'[n].lock
      OBVIOUS
    <3>1. CASE m = cycle + 1
      BY <3>1, <1>1, <1>2, <2>3, <2>t
    <3>2. CASE n = cycle + 1
      BY <3>2, <1>1, <1>2, <2>3, <2>t
    <3>3. CASE m # cycle + 1 /\ n # cycle + 1
      BY <3>3, <1>2 DEF DInv, TasksInOrder
    <3> QED BY <3>1, <3>2, <3>3
  <2> QED BY <1>3, <2>0, <2>1, <2>2, <2>4 DEF TasksInOrder
<1>10. CyclesAreEvents' BY <1>0, <1>1 DEF DInv, TypeOK, CyclesAreEvents
<1>11. NewestIsUnderWay' BY <1>0, <1>3, <1>4 DEF DInv, NewestIsUnderWay
<1>12. GuardsAreNew' BY <1>0 DEF DInv, GuardsAreNew
<1>13. PublishedIsCached' BY <1>0 DEF PublishedIsCached
<1>14. DiffIsGuarded'
  <2>1. CASE acc.doc = NoText
    <3>1. shown'.doc = cache'.doc BY <2>1, <1>0, <1>3 DEF DInv, PublishedIsCached
    <3> QED BY <3>1, <1>0 DEF DiffIsGuarded
  <2>2. CASE acc.doc # NoText
    <3>1. task'[cycle'].at = "spawned" /\ task'[cycle'].lock \in locks' /\ cycle' \in Cycles
      BY <2>2, <1>0, <1>1, <1>2, <1>5
    <3> QED BY <3>1 DEF DiffIsGuarded
  <2> QED BY <2>1, <2>2
<1> QED BY <1>6, <1>7, <1>8, <1>9, <1>10, <1>11, <1>12, <1>13, <1>14 DEF DInv

(* The published diff is the newest one's, if nothing is on its way.       *)
LEMMA PublishKeeps == ASSUME DInv, apply_hunks PROVE DInv'
<1> DEFINE woken(n) == IF task[n].at = "listening"
                       THEN [task[n] EXCEPT !.at = "notified"] ELSE task[n]
<1>0. /\ worker' = "idle" /\ worker = "diffing" /\ shown' = cache
      /\ task' = [n \in Cycles |-> woken(n)]
      /\ UNCHANGED <<text, base, main, wantFrame, drawn, channel, locks, now, acc, cache, cycle,
                     permit, needs_redraw, redraw_timer>>
  BY DEF apply_hunks, editorVars, frameVars, redrawVars
<1>1. \A n \in Cycles :
        /\ woken(n) \in [at : {"none", "spawned", "listening", "notified", "done"}, lock : Nat]
        /\ woken(n).lock = task[n].lock
  BY DEF DInv, TypeOK
<1> HIDE DEF woken
<1>2. TypeOK' BY <1>0, <1>1 DEF DInv, TypeOK
<1>3. ChannelInOrder' BY <1>0 DEF DInv, ChannelInOrder, IsDoc
<1>4. AccInOrder' BY <1>0 DEF DInv, AccInOrder
<1>5. TasksInOrder' BY <1>0, <1>1 DEF DInv, TasksInOrder
<1>6. CyclesAreEvents' BY <1>0 DEF DInv, CyclesAreEvents
<1>7. NewestIsUnderWay' BY <1>0 DEF DInv, NewestIsUnderWay, IsDoc
<1>8. GuardsAreNew' BY <1>0 DEF DInv, GuardsAreNew
<1>9. PublishedIsCached' /\ DiffIsGuarded' BY <1>0 DEF PublishedIsCached, DiffIsGuarded
<1> QED BY <1>2, <1>3, <1>4, <1>5, <1>6, <1>7, <1>8, <1>9 DEF DInv

LEMMA ListenKeeps == ASSUME DInv, NEW n \in Cycles, Listen(n) PROVE DInv'
<1> DEFINE t == [task[n] EXCEPT !.at = "listening"]
<1>0. /\ task[n].at = "spawned" /\ task' = [task EXCEPT ![n] = t]
      /\ UNCHANGED <<text, base, main, wantFrame, drawn, channel, locks, now, worker, acc, cache,
                     shown, cycle, permit, needs_redraw, redraw_timer>>
  BY DEF Listen, editorVars, frameVars, workerVars, redrawVars
<1>1. /\ t \in [at : {"none", "spawned", "listening", "notified", "done"}, lock : Nat]
      /\ t.lock = task[n].lock /\ t.at = "listening"
  BY DEF DInv, TypeOK
<1> HIDE DEF t
<1>2. TypeOK' BY <1>0, <1>1 DEF DInv, TypeOK
<1>3. /\ task'[n] = t /\ \A m \in Cycles : m # n => task'[m] = task[m]
      /\ \A m \in Cycles : task'[m].lock = task[m].lock
  BY <1>0, <1>1 DEF DInv, TypeOK
<1>4. ChannelInOrder' /\ AccInOrder' /\ NewestIsUnderWay' BY <1>0, SameOrder
<1>5. TasksInOrder' BY <1>0, <1>3 DEF DInv, TasksInOrder
<1>6. CyclesAreEvents' BY <1>0 DEF DInv, CyclesAreEvents
<1>7. GuardsAreNew' /\ PublishedIsCached' BY <1>0 DEF DInv, GuardsAreNew, PublishedIsCached
<1>8. DiffIsGuarded'
  <2>1. cycle \in Cycles /\ task[cycle].at \in {"spawned", "listening"} =>
          task'[cycle].at \in {"spawned", "listening"} /\ task'[cycle].lock = task[cycle].lock
    BY <1>1, <1>3
  <2> QED BY <1>0, <2>1 DEF DInv, DiffIsGuarded, Expired
<1> QED BY <1>2, <1>4, <1>5, <1>6, <1>7, <1>8 DEF DInv

(* A task that drops its guard takes none from the texts still on their    *)
(* way, nor from another task.                                             *)
LEMMA ReleaseKeeps ==
  ASSUME DInv, NEW n \in Cycles, Notified(n) \/ TimesOut(n)
  PROVE  DInv'
<1> DEFINE a == IF task[n].at = "notified" THEN "done" ELSE "spawned"
           t == [at |-> a, lock |-> NoLock]
           l == task[n].lock
<1>t. TypeOK BY DEF DInv
<1>0. /\ task' = [task EXCEPT ![n] = t] /\ locks' = locks \ {l}
      /\ UNCHANGED <<text, base, main, wantFrame, drawn, channel, now, worker, acc, cache,
                     shown, cycle, needs_redraw, redraw_timer>>
      /\ permit' \in BOOLEAN
  <2>1. CASE Notified(n)
    <3>1. permit' \in BOOLEAN BY <2>1 DEF Notified, DInv, TypeOK
    <3> QED BY <2>1, <3>1 DEF Notified, editorVars, frameVars, workerVars
  <2>2. CASE TimesOut(n)
    BY <2>2 DEF TimesOut, editorVars, frameVars, workerVars, redrawVars, DInv, TypeOK
  <2> QED BY <2>1, <2>2
<1>1. /\ t \in [at : {"none", "spawned", "listening", "notified", "done"}, lock : Nat]
      /\ t.lock = NoLock
  BY DEF NoLock
<1>2. /\ \A m \in Cycles : task[m].lock \in Nat
      /\ cache.doc \in Int
      /\ l \in Nat /\ (l # NoLock => l <= cache.doc)
  BY DEF DInv, TypeOK, TextsOf, TasksInOrder
<1> HIDE DEF t, a
<1>3. TypeOK'
  <2>1. locks' \subseteq 1..text BY <1>0 DEF DInv, TypeOK
  <2> QED BY <1>0, <1>1, <2>1 DEF DInv, TypeOK
<1>4. task'[n] = t /\ \A m \in Cycles : m # n => task'[m] = task[m]
  BY <1>0, <1>1 DEF DInv, TypeOK
<1>5. ChannelInOrder' /\ AccInOrder' /\ NewestIsUnderWay'
  <2>1. \A k \in locks : k > cache.doc => k \in locks'
    BY <1>0, <1>2, <1>t, Typed
  <2> QED BY <1>0, <2>1, SameOrder
<1>6. TasksInOrder'
  BY <1>0, <1>1, <1>4 DEF DInv, TasksInOrder
<1>7. CyclesAreEvents' BY <1>0 DEF DInv, CyclesAreEvents
<1>8. GuardsAreNew' /\ PublishedIsCached' BY <1>0 DEF DInv, GuardsAreNew, PublishedIsCached
<1>9. DiffIsGuarded'
  <2>1. (text = drawn.text \/ shown.doc = text \/ Expired)
           => (text = drawn.text \/ shown.doc = text \/ Expired)'
    BY <1>0 DEF Expired
  <2>2. ASSUME cycle \in Cycles, cycle # n, task[cycle].at \in {"spawned", "listening"},
               task[cycle].lock \in locks
        PROVE  task'[cycle].at \in {"spawned", "listening"} /\ task'[cycle].lock \in locks'
    <3>1. task[cycle].lock # NoLock BY <2>2, <1>t, Typed
    <3>2. task[cycle].lock # l BY <2>2, <3>1 DEF DInv, TasksInOrder
    <3> QED BY <2>2, <3>2, <1>0, <1>4
  <2>3. ASSUME cycle = n, task[n].at \in {"spawned", "listening"}, l \in locks
        PROVE  Expired
    <3>1. TimesOut(n) BY <2>3 DEF Notified
    <3>2. l <= now BY <3>1, <1>t, Typed DEF TimesOut, TypeOK
    <3>3. l > drawn.text BY <2>3 DEF DInv, GuardsAreNew
    <3>4. l \in drawn.text + 1 .. text
      BY <2>3, <3>3 DEF DInv, TypeOK
    <3> QED BY <3>2, <3>4 DEF Expired
  <2> QED BY <1>0, <2>1, <2>2, <2>3 DEF DInv, DiffIsGuarded
<1> QED BY <1>3, <1>5, <1>6, <1>7, <1>8, <1>9 DEF DInv

-----------------------------------------------------------------------------
LEMMA NextKeeps == DInv /\ [Next]_vars => DInv'
<1> SUFFICES ASSUME DInv, [Next]_vars PROVE DInv' OBVIOUS
<1>1. CASE update_document BY <1>1, EditKeeps
<1>2. CASE update_diff_base BY <1>2, BaseKeeps
<1>3. CASE start_frame BY <1>3, FrameKeeps
<1>4. CASE BeginFrame \/ redraw_requested \/ RedrawTimer \/ UNCHANGED vars
  BY <1>4, LoopKeeps
<1>5. CASE Tick BY <1>5, TickKeeps
<1>6. CASE Recv \/ Accumulate BY <1>6, ReceiveKeeps
<1>7. CASE Debounced BY <1>7, DebouncedKeeps
<1>8. CASE apply_hunks BY <1>8, PublishKeeps
<1>9. ASSUME NEW n \in Cycles, ReleaseTask(n) PROVE DInv'
  BY <1>9, ListenKeeps, ReleaseKeeps DEF ReleaseTask
<1>10. CASE Done BY <1>10, <1>4 DEF Done
<1> QED BY <1>1, <1>2, <1>3, <1>4, <1>5, <1>6, <1>7, <1>8, <1>9, <1>10
        DEF Next, User, EventLoop, Worker

(* The variables of DiffWorker keep their types; in particular the tasks   *)
(* never outnumber the events sent (worker.rs:42).                         *)
THEOREM DiffTypeCorrect == Spec => []TypeOK
<1>1. DInv => TypeOK BY DEF DInv
<1> QED BY <1>1, InitKeeps, NextKeeps, PTL DEF Spec

(* A frame that follows an edit shows the diff of the text it draws,       *)
(* unless the timeout of a lock taken since the last frame has expired     *)
(* (worker.rs:172).                                                        *)
THEOREM FramesWait == Spec => FramesWaitForTheDiff
<1>1. DInv /\ [Next]_vars =>
        [main = "waiting" /\ main' = "idle" =>
           \/ text = drawn.text \/ shown.doc = text
           \/ \E l \in drawn.text + 1 .. text : l <= now]_vars
  <2> SUFFICES ASSUME DInv, [Next]_vars, main = "waiting", main' = "idle"
               PROVE  text = drawn.text \/ shown.doc = text \/ Expired
    BY DEF Expired
  <2>1. start_frame
    BY DEF Next, User, EventLoop, Worker, ReleaseTask, update_document, update_diff_base,
           BeginFrame, redraw_requested, RedrawTimer, Tick, Recv, Accumulate, Debounced,
           apply_hunks, Listen, Notified, TimesOut, Done, vars, frameVars
  <2>2. locks = {} BY <2>1 DEF start_frame
  <2>3. acc.doc = NoText BY <2>2 DEF DInv, AccInOrder
  <2>4. ~\E i \in DOMAIN channel : IsDoc(i) BY <2>2 DEF DInv, ChannelInOrder
  <2>5. cache.doc = text
    <3>1. text # NoText BY DEF DInv, TypeOK, NoText
    <3> QED BY <2>3, <2>4, <3>1 DEF DInv, NewestIsUnderWay
  <2>6. CASE worker = "diffing" BY <2>2, <2>5, <2>6 DEF DInv, DiffIsGuarded
  <2>7. CASE worker # "diffing" BY <2>5, <2>7 DEF DInv, PublishedIsCached
  <2> QED BY <2>6, <2>7
<1> QED BY <1>1, InitKeeps, NextKeeps, PTL DEF Spec, FramesWaitForTheDiff

-----------------------------------------------------------------------------
(* What is published, and who releases the render lock.  The bases travel  *)
(* as the texts do, without guards.                                        *)

IsBase(i) == channel[i].kind = "base"

\* Bases come in order and are newer than what was taken before them.
BasesInOrder ==
  /\ \A i \in DOMAIN channel : IsBase(i) =>
       /\ channel[i].text > cache.base /\ channel[i].text > acc.base
       /\ channel[i].text <= base
  /\ \A i, j \in DOMAIN channel :
       IsBase(i) /\ IsBase(j) /\ i < j => channel[i].text < channel[j].text
  /\ acc.base # NoText => acc.base > cache.base
  /\ acc.base <= base /\ 0 <= cache.base /\ cache.base <= base

NewestBaseIsUnderWay ==
  \/ \E i \in DOMAIN channel : IsBase(i) /\ channel[i].text = base
  \/ acc.base = base
  \/ acc.base = NoText /\ cache.base = base

PublishedIsOlder == shown.doc <= cache.doc /\ shown.base <= cache.base

\* Whoever has a guard of the render lock is going to drop it: an event to be
\* gathered, the accumulator, or a task that has not ended.
HeldBy(l, n) == task[n].lock = l /\ task[n].at \in {"spawned", "listening", "notified"}

GuardsAreHeld ==
  \A l \in locks : \/ \E i \in DOMAIN channel : channel[i].lock = l
                   \/ worker = "debouncing" /\ acc.lock = l
                   \/ \E n \in Cycles : HeldBy(l, n)

BInv == DInv /\ BasesInOrder /\ NewestBaseIsUnderWay /\ PublishedIsOlder /\ GuardsAreHeld

(* A step that leaves the texts on their way leaves their order.           *)
LEMMA SameBases ==
  ASSUME BInv, UNCHANGED <<base, channel, acc, cache>>
  PROVE  BasesInOrder' /\ NewestBaseIsUnderWay'
<1>1. BasesInOrder' BY DEF BInv, BasesInOrder, IsBase
<1>2. NewestBaseIsUnderWay' BY DEF BInv, NewestBaseIsUnderWay, IsBase
<1> QED BY <1>1, <1>2

(* The numbers the order speaks of.                                        *)
LEMMA TextNumbers ==
  ASSUME TypeOK
  PROVE  /\ base \in Nat /\ text \in Nat
         /\ acc.base \in Int /\ acc.doc \in Int /\ acc.lock \in Nat
         /\ cache.base \in Int /\ cache.doc \in Int /\ shown.base \in Int /\ shown.doc \in Int
         /\ cache = Texts(cache.base, cache.doc)
<1>1. base \in Nat /\ text \in Nat
  BY DiffAssumption DEF TypeOK
<1>2. /\ acc.base \in Int /\ acc.doc \in Int /\ acc.lock \in Nat
      /\ cache.base \in Int /\ cache.doc \in Int /\ shown.base \in Int /\ shown.doc \in Int
  BY DEF TypeOK, TextsOf
<1>3. cache = Texts(cache.base, cache.doc)
  BY DEF TypeOK, TextsOf, Texts
<1> QED BY <1>1, <1>2, <1>3

LEMMA InitPublishes == Init => BInv
<1> SUFFICES ASSUME Init PROVE BInv OBVIOUS
<1>1. DInv BY InitKeeps
<1>2. cache.base = 0 /\ cache.doc = 0 /\ shown.base = NoText /\ shown.doc = NoText
      /\ acc.base = NoText /\ base = 0 /\ channel = <<>> /\ locks = {}
  BY DEF Init, Texts, Nothing
<1>3. BasesInOrder /\ NewestBaseIsUnderWay
  BY <1>2 DEF BasesInOrder, NewestBaseIsUnderWay, NoText
<1>4. PublishedIsOlder /\ GuardsAreHeld
  BY <1>2 DEF PublishedIsOlder, GuardsAreHeld, NoText
<1> QED BY <1>1, <1>3, <1>4 DEF BInv

LEMMA EditPublishes == ASSUME BInv, DInv', update_document PROVE BInv'
<1> DEFINE e == Event("doc", text + 1, text + 1)
<1>0. /\ locks' = locks \cup {text + 1} /\ channel' = Append(channel, e)
      /\ UNCHANGED <<base, worker, acc, cache, shown, task>>
  BY DEF update_document, workerVars
<1>t. TypeOK BY DEF BInv, DInv
<1>1. e \in [kind : {"doc", "base"}, text : Nat, lock : Nat] /\ e.kind = "doc" /\ e.lock = text + 1
  BY <1>t, TextNumbers DEF Event
<1> HIDE DEF e
<1>2. /\ DOMAIN channel' = DOMAIN channel \cup {Len(channel) + 1}
      /\ channel'[Len(channel) + 1] = e
      /\ \A i \in DOMAIN channel : channel'[i] = channel[i]
  BY <1>0, <1>1, <1>t, ChannelAppend
<1>3. BasesInOrder' BY <1>0, <1>1, <1>2 DEF BInv, BasesInOrder, IsBase
<1>4. NewestBaseIsUnderWay' BY <1>0, <1>2 DEF BInv, NewestBaseIsUnderWay, IsBase
<1>5. PublishedIsOlder' BY <1>0 DEF BInv, PublishedIsOlder
<1>6. GuardsAreHeld'
  <2>1. \A n \in Cycles, l \in locks : HeldBy(l, n) => HeldBy(l, n)'
    BY <1>0 DEF HeldBy
  <2> QED BY <1>0, <1>1, <1>2, <2>1 DEF BInv, GuardsAreHeld
<1> QED BY <1>3, <1>4, <1>5, <1>6 DEF BInv

LEMMA BasePublishes == ASSUME BInv, DInv', update_diff_base PROVE BInv'
<1> DEFINE e == Event("base", base + 1, NoLock)
<1>0. /\ base' = base + 1 /\ channel' = Append(channel, e)
      /\ UNCHANGED <<locks, worker, acc, cache, shown, task>>
  BY DEF update_diff_base, workerVars
<1>t. TypeOK BY DEF BInv, DInv
<1>n. /\ base \in Nat /\ acc.base \in Int /\ cache.base \in Int
  BY <1>t, TextNumbers
<1>1. e \in [kind : {"doc", "base"}, text : Nat, lock : Nat] /\ e.kind = "base" /\ e.text = base + 1
  BY <1>n DEF Event, NoLock
<1> HIDE DEF e
<1>2. /\ DOMAIN channel' = DOMAIN channel \cup {Len(channel) + 1}
      /\ channel'[Len(channel) + 1] = e
      /\ \A i \in DOMAIN channel : channel'[i] = channel[i] /\ i < Len(channel) + 1
      /\ Len(channel) + 1 \notin DOMAIN channel
  BY <1>0, <1>1, <1>t, ChannelAppend
<1>3. BasesInOrder'
  <2>1. acc.base <= base /\ cache.base <= base /\ 0 <= cache.base
    BY DEF BInv, BasesInOrder
  <2>2. \A i \in DOMAIN channel : channel[i].kind = "base" =>
          channel[i].text > cache.base /\ channel[i].text > acc.base /\ channel[i].text <= base
    BY DEF BInv, BasesInOrder, IsBase
  <2>3. \A i \in DOMAIN channel : channel[i].text \in Nat /\ i \in Nat
    BY <1>t, Typed
  <2>4. \A i \in DOMAIN channel' : channel'[i].kind = "base" =>
          /\ channel'[i].text > cache.base /\ channel'[i].text > acc.base
          /\ channel'[i].text <= base + 1
    BY <1>1, <1>2, <1>n, <2>1, <2>2, <2>3
  <2>5. ASSUME NEW i \in DOMAIN channel', NEW j \in DOMAIN channel',
               channel'[i].kind = "base", channel'[j].kind = "base", i < j
        PROVE  channel'[i].text < channel'[j].text
    <3>0. Len(channel) \in Nat BY <1>t, Typed
    <3>1. i \in DOMAIN channel
      BY <1>2, <2>3, <2>5, <3>0
    <3>2. CASE j \in DOMAIN channel
      BY <1>2, <2>5, <3>1, <3>2 DEF BInv, BasesInOrder, IsBase
    <3>3. CASE j = Len(channel) + 1
      BY <1>1, <1>2, <1>n, <2>2, <2>3, <2>5, <3>1, <3>3
    <3> QED BY <1>2, <3>2, <3>3
  <2>6. acc.base # NoText => acc.base > cache.base
    BY DEF BInv, BasesInOrder
  <2> QED BY <1>0, <1>n, <2>1, <2>4, <2>5, <2>6 DEF BasesInOrder, IsBase
<1>4. NewestBaseIsUnderWay'
  <2>1. \E i \in DOMAIN channel' : channel'[i].kind = "base" /\ channel'[i].text = base'
    BY <1>0, <1>1, <1>2
  <2> QED BY <2>1 DEF NewestBaseIsUnderWay, IsBase
<1>5. PublishedIsOlder' BY <1>0 DEF BInv, PublishedIsOlder
<1>6. GuardsAreHeld'
  <2>1. \A n \in Cycles, l \in locks : HeldBy(l, n) => HeldBy(l, n)'
    BY <1>0 DEF HeldBy
  <2> QED BY <1>0, <1>2, <2>1 DEF BInv, GuardsAreHeld
<1> QED BY <1>3, <1>4, <1>5, <1>6 DEF BInv

(* The event loop, the clock and a task that goes on to listen leave what  *)
(* this speaks of alone.                                                   *)
LEMMA QuietPublishes ==
  ASSUME BInv, DInv', UNCHANGED <<base, channel, acc, cache, shown, worker, locks>>,
         \A n \in Cycles, l \in locks : HeldBy(l, n) => HeldBy(l, n)'
  PROVE  BInv'
<1>1. BasesInOrder' /\ NewestBaseIsUnderWay' BY SameBases
<1>2. PublishedIsOlder' BY DEF BInv, PublishedIsOlder
<1>3. GuardsAreHeld' BY DEF BInv, GuardsAreHeld
<1> QED BY <1>1, <1>2, <1>3 DEF BInv

(* A received event leaves the channel, with its text and its guard.       *)
LEMMA ReceivePublishes == ASSUME BInv, DInv', Recv \/ Accumulate PROVE BInv'
<1> DEFINE e == channel[1]
<1>t. TypeOK BY DEF BInv, DInv
<1>0. /\ channel # <<>> /\ worker' = "debouncing"
      /\ acc' = handle_event(acc, e) /\ channel' = Tail(channel)
      /\ locks' = IF acc.lock = NoLock THEN locks ELSE locks \ {e.lock}
      /\ UNCHANGED <<base, cache, shown, task>>
  <2>1. CASE Recv
    <3>1. acc = Nothing /\ acc.lock = NoLock
      BY <2>1 DEF Recv, BInv, DInv, AccInOrder, Nothing
    <3> QED BY <2>1, <3>1, <1>t, ChannelTail DEF Recv, editorVars
  <2>2. CASE Accumulate
    BY <2>2, <1>t, ChannelTail DEF Accumulate, editorVars
  <2> QED BY <2>1, <2>2
<1>1. /\ 1 \in DOMAIN channel /\ e.kind \in {"doc", "base"} /\ e.text \in Nat /\ e.lock \in Nat
  <2>1. 1 \in DOMAIN channel
    BY <1>0, <1>t, ChannelTail
  <2> QED BY <1>t, <2>1, Typed
<1>2. /\ acc'.base = IF e.kind = "base" THEN e.text ELSE acc.base
      /\ acc'.lock = IF acc.lock = NoLock THEN e.lock ELSE acc.lock
  BY <1>0 DEF handle_event
<1>3. \A i \in DOMAIN channel' :
        /\ i \in Nat /\ i + 1 \in DOMAIN channel /\ channel'[i] = channel[i + 1]
  BY <1>0, <1>t, ChannelTail
<1>4. \A i \in DOMAIN channel : i # 1 =>
        i \in Nat /\ i - 1 \in DOMAIN channel' /\ channel'[i - 1] = channel[i]
  BY <1>0, <1>t, ChannelTail, Typed
<1>5. e.kind = "base" => e.text > cache.base /\ e.text > acc.base /\ e.text <= base
  BY <1>1 DEF BInv, BasesInOrder, IsBase
<1>6. \A i \in DOMAIN channel : channel[i].kind = "base" =>
        channel[i].text > cache.base /\ channel[i].text > acc.base /\ channel[i].text <= base
  BY DEF BInv, BasesInOrder, IsBase
<1>7. \A i, j \in DOMAIN channel :
        channel[i].kind = "base" /\ channel[j].kind = "base" /\ i < j
           => channel[i].text < channel[j].text
  BY DEF BInv, BasesInOrder, IsBase
<1> HIDE DEF e
<1>8. BasesInOrder'
  <2>1. ASSUME NEW i \in DOMAIN channel', channel'[i].kind = "base"
        PROVE  /\ channel'[i].text > cache'.base /\ channel'[i].text > acc'.base
               /\ channel'[i].text <= base'
    <3>1. i + 1 \in DOMAIN channel /\ channel'[i] = channel[i + 1] /\ 1 < i + 1
      <4>1. i \in DOMAIN Tail(channel) /\ Len(Tail(channel)) \in Nat
        BY <1>0, <1>t, ChannelTail
      <4>2. i \in 1 .. Len(Tail(channel))
        BY <4>1, <1>0, <1>t, ChannelTail
      <4> QED BY <1>3, <4>2
    <3>2. e.kind = "base" => e.text < channel[i + 1].text
      BY <1>1, <1>7, <2>1, <3>1 DEF e
    <3> QED BY <1>0, <1>2, <1>6, <2>1, <3>1, <3>2
  <2>2. ASSUME NEW i \in DOMAIN channel', NEW j \in DOMAIN channel',
               channel'[i].kind = "base", channel'[j].kind = "base", i < j
        PROVE  channel'[i].text < channel'[j].text
    <3>1. i + 1 < j + 1 BY <1>3, <2>2
    <3> QED BY <1>3, <1>7, <2>2, <3>1
  <2>3. /\ acc'.base # NoText => acc'.base > cache'.base
        /\ acc'.base <= base' /\ 0 <= cache'.base /\ cache'.base <= base'
    BY <1>0, <1>2, <1>5 DEF BInv, BasesInOrder
  <2> QED BY <2>1, <2>2, <2>3 DEF BasesInOrder, IsBase
<1>9. NewestBaseIsUnderWay'
  <2>1. CASE e.kind = "base" /\ e.text = base
    BY <2>1, <1>0, <1>2 DEF NewestBaseIsUnderWay
  <2>2. ASSUME NEW i \in DOMAIN channel, IsBase(i), channel[i].text = base, i # 1
        PROVE  NewestBaseIsUnderWay'
    <3>1. \E j \in DOMAIN channel' : channel'[j].kind = "base" /\ channel'[j].text = base'
      BY <2>2, <1>0, <1>4 DEF IsBase
    <3> QED BY <3>1 DEF NewestBaseIsUnderWay, IsBase
  <2>3. CASE acc.base = base
    <3>1. e.kind # "base"
      BY <2>3, <1>1, <1>5, <1>t, TextNumbers
    <3> QED BY <2>3, <3>1, <1>0, <1>2 DEF NewestBaseIsUnderWay
  <2>4. CASE acc.base = NoText /\ cache.base = base
    <3>1. e.kind # "base"
      BY <2>4, <1>1, <1>5, <1>t, TextNumbers
    <3> QED BY <2>4, <3>1, <1>0, <1>2 DEF NewestBaseIsUnderWay
  <2>5. CASE IsBase(1) /\ channel[1].text = base
    BY <2>1, <2>5 DEF IsBase, e
  <2> QED BY <2>2, <2>3, <2>4, <2>5 DEF BInv, NewestBaseIsUnderWay
<1>10. PublishedIsOlder' BY <1>0 DEF BInv, PublishedIsOlder
<1>11. GuardsAreHeld'
  <2> SUFFICES ASSUME NEW l \in locks'
               PROVE  \/ \E i \in DOMAIN channel' : channel'[i].lock = l
                      \/ worker' = "debouncing" /\ acc'.lock = l
                      \/ \E n \in Cycles : HeldBy(l, n)'
    BY DEF GuardsAreHeld
  <2>0. l \in locks /\ l # NoLock /\ (acc.lock # NoLock => l # e.lock)
    <3>1. l \in locks BY <1>0
    <3> QED BY <1>0, <3>1, <1>t, Typed
  <2>1. ASSUME NEW i \in DOMAIN channel, channel[i].lock = l
        PROVE  \/ \E j \in DOMAIN channel' : channel'[j].lock = l
               \/ acc'.lock = l
    <3>1. CASE i = 1 BY <2>0, <2>1, <3>1, <1>2 DEF e
    <3>2. CASE i # 1 BY <2>1, <3>2, <1>4
    <3> QED BY <3>1, <3>2
  <2>2. CASE acc.lock = l BY <2>0, <2>2, <1>0, <1>2
  <2>3. ASSUME NEW n \in Cycles, HeldBy(l, n) PROVE HeldBy(l, n)'
    BY <2>3, <1>0 DEF HeldBy
  <2> QED BY <2>0, <2>1, <2>2, <2>3, <1>0 DEF BInv, GuardsAreHeld
<1> QED BY <1>8, <1>9, <1>10, <1>11 DEF BInv

(* The guard goes on to the task of the diff, and the texts to the cache.  *)
LEMMA DebouncedPublishes == ASSUME BInv, DInv', Debounced PROVE BInv'
<1> DEFINE t == [at |-> "spawned", lock |-> acc.lock]
<1>t. TypeOK BY DEF BInv, DInv
<1>0. /\ channel = <<>> /\ worker = "debouncing"
      /\ task' = [task EXCEPT ![cycle + 1] = t]
      /\ cache' = Cached(acc) /\ acc' = Nothing
      /\ UNCHANGED <<base, channel, locks, shown>>
  BY DEF Debounced, editorVars
<1>1. cycle + 1 \in Cycles /\ task[cycle + 1].lock = NoLock
  <2>1. cycle + 1 <= text + base BY <1>0 DEF BInv, DInv, TypeOK, CyclesAreEvents
  <2>2. cycle + 1 \in Cycles BY <2>1, DiffAssumption DEF BInv, DInv, TypeOK, Cycles
  <2> QED BY <2>2, <1>t DEF BInv, DInv, TasksInOrder, TypeOK
<1>2. /\ task'[cycle + 1] = t /\ t.at = "spawned" /\ t.lock = acc.lock
      /\ \A n \in Cycles : n # cycle + 1 => task'[n] = task[n]
  BY <1>0, <1>1, <1>t DEF TypeOK
<1>3. /\ cache'.base = (IF acc.base = NoText THEN cache.base ELSE acc.base)
      /\ cache'.doc = (IF acc.doc = NoText THEN cache.doc ELSE acc.doc)
      /\ acc'.base = NoText
  BY <1>0 DEF Cached, Texts, Nothing
<1> HIDE DEF t
<1>4. cache'.base >= cache.base /\ cache'.doc >= cache.doc /\ cache'.base <= base /\ 0 <= cache.base
  <2>1. acc.base # NoText => acc.base > cache.base
    BY DEF BInv, BasesInOrder
  <2>2. acc.base <= base /\ cache.base <= base /\ 0 <= cache.base
    BY DEF BInv, BasesInOrder
  <2>3. acc.doc # NoText => acc.lock > cache.doc /\ acc.lock <= acc.doc
    BY DEF BInv, DInv, AccInOrder
  <2> QED BY <1>3, <1>t, TextNumbers, <2>1, <2>2, <2>3
<1>5. BasesInOrder'
  <2>1. NoText <= base BY <1>t, TextNumbers DEF NoText
  <2>2. 0 <= cache'.base
    BY <1>3, <1>4, <1>t, TextNumbers
  <2> QED BY <1>0, <1>3, <1>4, <2>1, <2>2 DEF BasesInOrder
<1>6. NewestBaseIsUnderWay' BY <1>0, <1>3 DEF BInv, NewestBaseIsUnderWay
<1>7. PublishedIsOlder'
  <2>1. shown.doc <= cache.doc /\ shown.base <= cache.base
    BY DEF BInv, PublishedIsOlder
  <2>2. cache'.base \in Int /\ cache'.doc \in Int
    BY <1>3, <1>t, TextNumbers
  <2> QED BY <1>0, <1>4, <2>1, <2>2, <1>t, TextNumbers DEF PublishedIsOlder
<1>8. GuardsAreHeld'
  <2> SUFFICES ASSUME NEW l \in locks PROVE \E n \in Cycles : HeldBy(l, n)'
    BY <1>0 DEF GuardsAreHeld
  <2>1. CASE acc.lock = l
    BY <2>1, <1>1, <1>2 DEF HeldBy
  <2>2. ASSUME NEW n \in Cycles, HeldBy(l, n) PROVE HeldBy(l, n)'
    <3>1. n # cycle + 1
      BY <2>2, <1>1, <1>t, Typed DEF HeldBy
    <3> QED BY <2>2, <3>1, <1>2 DEF HeldBy
  <2> QED BY <1>0, <2>1, <2>2 DEF BInv, GuardsAreHeld
<1> QED BY <1>5, <1>6, <1>7, <1>8 DEF BInv

(* What is published is what was diffed, the newest so far.                *)
LEMMA ApplyPublishes == ASSUME BInv, DInv', apply_hunks PROVE BInv'
<1> DEFINE woken(n) == IF task[n].at = "listening"
                       THEN [task[n] EXCEPT !.at = "notified"] ELSE task[n]
<1>t. TypeOK BY DEF BInv, DInv
<1>0. /\ worker = "diffing" /\ shown' = cache
      /\ task' = [n \in Cycles |-> woken(n)]
      /\ UNCHANGED <<base, channel, locks, acc, cache>>
  BY DEF apply_hunks, editorVars
<1>1. \A n \in Cycles : /\ woken(n).lock = task[n].lock
                        /\ woken(n).at = IF task[n].at = "listening" THEN "notified" ELSE task[n].at
  BY <1>t DEF TypeOK
<1> HIDE DEF woken
<1>2. BasesInOrder' /\ NewestBaseIsUnderWay' BY <1>0, SameBases
<1>3. PublishedIsOlder' BY <1>0, <1>t, TextNumbers DEF PublishedIsOlder
<1>4. GuardsAreHeld'
  <2>1. \A n \in Cycles, l \in locks : HeldBy(l, n) => HeldBy(l, n)'
    BY <1>0, <1>1 DEF HeldBy
  <2> QED BY <1>0, <2>1 DEF BInv, GuardsAreHeld
<1> QED BY <1>2, <1>3, <1>4 DEF BInv

(* A task that lets go of its guard drops it.                              *)
LEMMA ReleasePublishes ==
  ASSUME BInv, DInv', NEW m \in Cycles, ReleaseTask(m)
  PROVE  BInv'
<1>t. TypeOK BY DEF BInv, DInv
<1>0. UNCHANGED <<base, channel, worker, acc, cache, shown>>
  BY DEF ReleaseTask, Listen, Notified, TimesOut, editorVars, workerVars
<1>1. \A n \in Cycles : n # m => task'[n] = task[n]
  BY <1>t DEF ReleaseTask, Listen, Notified, TimesOut, TypeOK
<1>2. CASE Listen(m)
  <2>1. task'[m].at = "listening" /\ task'[m].lock = task[m].lock /\ locks' = locks
    BY <1>2, <1>t DEF Listen, TypeOK
  <2>2. \A n \in Cycles, l \in locks : HeldBy(l, n) => HeldBy(l, n)'
    BY <1>1, <2>1 DEF HeldBy
  <2> QED BY <1>0, <2>1, <2>2, QuietPublishes
<1>3. CASE Notified(m) \/ TimesOut(m)
  <2>1. locks' = locks \ {task[m].lock}
    BY <1>3 DEF Notified, TimesOut
  <2>2. BasesInOrder' /\ NewestBaseIsUnderWay' BY <1>0, SameBases
  <2>3. PublishedIsOlder' BY <1>0 DEF BInv, PublishedIsOlder
  <2>4. GuardsAreHeld'
    <3>1. \A n \in Cycles, l \in locks' : HeldBy(l, n) => HeldBy(l, n)'
      BY <1>1, <2>1 DEF HeldBy
    <3> QED BY <1>0, <2>1, <3>1 DEF BInv, GuardsAreHeld
  <2> QED BY <2>2, <2>3, <2>4 DEF BInv
<1> QED BY <1>2, <1>3 DEF ReleaseTask

LEMMA NextPublishes == BInv /\ [Next]_vars => BInv'
<1> SUFFICES ASSUME BInv, [Next]_vars PROVE BInv' OBVIOUS
<1>0. DInv' BY NextKeeps DEF BInv
<1>1. CASE update_document BY <1>0, <1>1, EditPublishes
<1>2. CASE update_diff_base BY <1>0, <1>2, BasePublishes
<1>3. CASE EventLoop \/ Tick \/ Done \/ UNCHANGED vars
  <2>1. CASE start_frame \/ BeginFrame
    BY <1>0, <2>1, QuietPublishes
    DEF start_frame, BeginFrame, editorVars, workerVars, HeldBy
  <2>2. CASE redraw_requested \/ RedrawTimer
    BY <1>0, <2>2, QuietPublishes
    DEF redraw_requested, RedrawTimer, editorVars, workerVars, HeldBy
  <2>3. CASE Tick
    BY <1>0, <2>3, QuietPublishes DEF Tick, editorVars, workerVars, HeldBy
  <2>4. CASE Done \/ UNCHANGED vars
    <3>1. UNCHANGED vars BY <2>4 DEF Done
    <3> QED BY <1>0, <3>1, QuietPublishes DEF vars, editorVars, workerVars, HeldBy
  <2> QED BY <1>3, <2>1, <2>2, <2>3, <2>4 DEF EventLoop
<1>4. CASE Recv \/ Accumulate BY <1>0, <1>4, ReceivePublishes
<1>5. CASE Debounced BY <1>0, <1>5, DebouncedPublishes
<1>6. CASE apply_hunks BY <1>0, <1>6, ApplyPublishes
<1>7. CASE \E n \in Cycles : ReleaseTask(n) BY <1>0, <1>7, ReleasePublishes
<1> QED BY <1>1, <1>2, <1>3, <1>4, <1>5, <1>6, <1>7 DEF Next, User, Worker

(* However events, debounces and diffs interleave, the diff that is shown  *)
(* never goes back to an older text or an older base (worker.rs:45).       *)
THEOREM DiffsOnlyAdvance ==
  Spec => [][shown.doc <= shown'.doc /\ shown.base <= shown'.base]_vars
<1>1. BInv /\ [Next]_vars =>
        [shown.doc <= shown'.doc /\ shown.base <= shown'.base]_vars
  <2> SUFFICES ASSUME BInv, [Next]_vars
               PROVE  shown.doc <= shown'.doc /\ shown.base <= shown'.base
    OBVIOUS
  <2>1. CASE apply_hunks
    BY <2>1 DEF apply_hunks, BInv, PublishedIsOlder
  <2>2. CASE ~apply_hunks
    <3>1. shown' = shown
      BY <2>2 DEF Next, User, EventLoop, Worker, ReleaseTask, update_document, update_diff_base,
                  BeginFrame, start_frame, redraw_requested, RedrawTimer, Tick, Recv, Accumulate,
                  Debounced, Listen, Notified, TimesOut, Done, vars, workerVars
    <3>2. TypeOK BY DEF BInv, DInv
    <3> QED BY <3>1, <3>2, TextNumbers
  <2> QED BY <2>1, <2>2
<1> QED BY <1>1, InitPublishes, NextPublishes, PTL DEF Spec

(* When the worker has nothing left to do, the diff that is shown is that  *)
(* of the newest text against the newest base: no event is lost in a       *)
(* debounce (worker.rs:45).                                                *)
THEOREM QuietMeansCurrent ==
  Spec => [](worker = "idle" /\ channel = <<>> => shown = Texts(base, text))
<1>1. BInv => (worker = "idle" /\ channel = <<>> => shown = Texts(base, text))
  <2> SUFFICES ASSUME BInv, worker = "idle", channel = <<>> PROVE shown = Texts(base, text)
    OBVIOUS
  <2>t. TypeOK BY DEF BInv, DInv
  <2>1. acc.doc = NoText /\ acc.base = NoText
    BY DEF BInv, DInv, AccInOrder, Nothing
  <2>2. text # NoText /\ base # NoText
    BY <2>t, TextNumbers DEF NoText
  <2>3. cache.doc = text BY <2>1, <2>2 DEF BInv, DInv, NewestIsUnderWay
  <2>4. cache.base = base BY <2>1, <2>2 DEF BInv, NewestBaseIsUnderWay
  <2>5. shown = cache BY DEF BInv, DInv, PublishedIsCached
  <2> QED BY <2>3, <2>4, <2>5, <2>t, TextNumbers
<1> QED BY <1>1, InitPublishes, NextPublishes, PTL DEF Spec

(* Every guard of the render lock is in the hands of an event, of the      *)
(* accumulator or of a task that has not ended, and drops with it: none    *)
(* leaks, whichever of the worker's notifications a task misses            *)
(* (worker.rs:183).                                                        *)
THEOREM NoGuardLeaks == Spec => []GuardsAreHeld
<1>1. BInv => GuardsAreHeld BY DEF BInv
<1> QED BY <1>1, InitPublishes, NextPublishes, PTL DEF Spec
=============================================================================
