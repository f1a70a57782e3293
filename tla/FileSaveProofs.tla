--------------------------- MODULE FileSaveProofs ---------------------------
(***************************************************************************)
(* Proofs about module FileSave: type correctness for every instance, that *)
(* the buffer stays exact across saving, reloading and opening, that an    *)
(* unmodified buffer is on disk, that the guard against foreign edits is   *)
(* exact, and that files are whole between writes.                         *)
(***************************************************************************)
EXTENDS FileSave, DocumentProofs, SequenceTheorems

SaveRequest == [text : Texts, rev : Nat, force : BOOLEAN, mixed : BOOLEAN]
Progress == [at : {"waiting", "checked", "created", "written", "stamped"},
             old : File, backup : BOOLEAN, stamp : Nat]

\* What is kept about the file.
SaveTypeOK ==
    /\ last_saved_revision \in Nat /\ last_saved_time \in Nat /\ requested \in Nat
    /\ disk \in File
    /\ deferred \in [BOOLEAN -> Nat]
    /\ saves \in Seq(SaveRequest)
    /\ saving \in Progress
    /\ open \in BOOLEAN
    /\ undofile.present \in BOOLEAN /\ undofile.of \in Texts
    /\ IsHistory(undofile.history, Texts)

LEMMA FileTypeParts == FileTypeOK <=> TypeOK /\ SaveTypeOK
BY DEF FileTypeOK, SaveTypeOK, SaveRequest, Progress

-----------------------------------------------------------------------------
(* The buffer's side of a step. *)

\* Writing does to the buffer what committing its pending edits does.
LEMMA WriteIsBufferStep ==
    ASSUME TypeOK, NEW force, NEW auto_format, write_impl(force, auto_format)
    PROVE  [Next]_docVars
<1> DEFINE a == Appended(undojoin_pending)
<1>1. /\ history' = a.history /\ views' = [views EXCEPT ![focus] = a.view]
      /\ changed' = FALSE /\ undojoin_pending' = (undojoin_pending /\ ~changed)
      /\ UNCHANGED <<text, old_state, focus, crashed, levelVars, clock>>
  BY DEF write_impl, JoinAfterAppend
<1>2. CASE changed
  BY <1>1, <1>2 DEF append_changes_to_history, Next
<1>3. CASE ~changed
  <2>1. a.history = history /\ a.view = views[focus]
    BY <1>3 DEF Appended
  <2> HIDE DEF a
  <2>2. views' = views
    BY <1>1, <2>1 DEF TypeOK
  <2> QED BY <1>1, <1>3, <2>1, <2>2 DEF docVars, bufferVars, viewVars, TypeOK
<1> QED BY <1>2, <1>3

Reloads == \E v \in Views, w \in ViewType, others \in SUBSET Views : reload(v, w, others)

\* The two ways to reload, through a window that may have to be synced first.
LEMMA BothReload ==
    ASSUME TypeOK, Reload \/ auto_reload_file
    PROVE  open /\ Reloads
<1>1. /\ focus \in Views /\ IsHistory(history, Texts)
      /\ \A v \in Views : views[v] \in ViewType
  BY TypeParts DEF TypeOK
<1>2. CASE Reload
  BY <1>1, <1>2 DEF Reload, Reloads
<1>3. CASE auto_reload_file
  <2>1. PICK v \in Views : reload(v, sync_changes(history, views[v]), Views \ {v})
    BY <1>3 DEF auto_reload_file
  <2>2. sync_changes(history, views[v]) \in ViewType
    BY <1>1, SyncTyped
  <2> QED BY <1>3, <2>1, <2>2 DEF auto_reload_file, Reloads
<1> QED BY <1>2, <1>3

\* To the buffer, every step is one of its own, a reload, or the opening of a
\* file.
LEMMA BufferSide ==
    ASSUME TypeOK, [FileNext]_fileVars
    PROVE  [Next]_docVars \/ Reloads \/ open_document
<1>1. CASE UNCHANGED docVars
  BY <1>1
<1>2. CASE SaveStep
  BY <1>2 DEF SaveStep, SaveCheck, SaveCreate, SaveWrite, SaveFail, SaveStat,
              handle_document_write
<1> QED BY <1>1, <1>2, WriteIsBufferStep, BothReload
        DEF FileNext, fileVars, BufferStep, Followup, save_changed_docs, ExternalWrite,
            set_modified, close_document

\* The history and the window of a reload: what was there goes into the undo
\* history, unless that starts afresh.
ReloadOf(pending, w) ==
    IF "no undoreload" \in Uses
    THEN [history |-> NewHistory(disk.text, clock), view |-> w]
    ELSE IF pending THEN Committed(CommittedText, disk.text, undojoin_pending, w)
                    ELSE [history |-> history, view |-> w]

ReloadBy(pending, v, w, others) ==
    /\ ~pending => disk.text = CommittedText
    /\ history' = ReloadOf(pending, w).history
    /\ views' = [u \in Views |->
                   IF u \in others THEN sync_changes(history', views[u])
                   ELSE IF u = v THEN ReloadOf(pending, w).view ELSE views[u]]
    /\ crashed' \in BOOLEAN
    /\ undojoin_pending' \in BOOLEAN /\ (undojoin_pending' => undojoin_pending)
    /\ last_saved_revision' = history'.current
    /\ text' = disk.text /\ old_state' = disk.text /\ changed' = FALSE
    /\ last_saved_time' = disk.mtime
    /\ disk' = [disk EXCEPT !.unseen = FALSE, !.mixed = @ /\ saving.at # "waiting"]
    /\ "reload in save" \in Uses \/ saving.at = "waiting"
    /\ UNCHANGED <<focus, levelVars, clock, deferred, saves, saving, requested, open,
                   undofile>>

\* A reload leaves no difference between the buffer and the file, and commits
\* it when there was one.
LEMMA ReloadParts ==
    ASSUME TypeOK, NEW v, NEW w, NEW others, reload(v, w, others)
    PROVE  \E pending \in BOOLEAN : ReloadBy(pending, v, w, others)
<1>1. changed \in BOOLEAN
  BY DEF TypeOK
<1> DEFINE was == IF changed THEN old_state ELSE text
           kept == "no undoreload" \notin Uses
           A(pending) == IF ~kept THEN [history |-> NewHistory(disk.text, clock), view |-> w]
                         ELSE IF pending
                              THEN Committed(was, disk.text, undojoin_pending, w)
                              ELSE [history |-> history, view |-> w]
<1>2. PICK pending \in IF disk.text = text THEN {changed}
                       ELSE IF changed /\ disk.text = old_state THEN BOOLEAN
                       ELSE {TRUE} :
        /\ history' = A(pending).history
        /\ views' = [u \in Views |->
                       IF u \in others THEN sync_changes(A(pending).history, views[u])
                       ELSE IF u = v THEN A(pending).view ELSE views[u]]
        /\ crashed' = \E u \in others : SyncPanics(A(pending).history, views[u])
        /\ undojoin_pending' = (undojoin_pending /\ ~(kept /\ pending))
        /\ last_saved_revision' = A(pending).history.current
  BY DEF reload
<1>3. pending \in BOOLEAN /\ (~pending => disk.text = CommittedText)
  BY <1>1, <1>2 DEF CommittedText
<1>4. A(pending) = ReloadOf(pending, w)
  BY DEF ReloadOf, CommittedText
<1>5. crashed' \in BOOLEAN /\ undojoin_pending' \in BOOLEAN
      /\ (undojoin_pending' => undojoin_pending)
  BY <1>2
<1> HIDE DEF A
<1>6. /\ text' = disk.text /\ old_state' = disk.text /\ changed' = FALSE
      /\ last_saved_time' = disk.mtime
      /\ disk' = [disk EXCEPT !.unseen = FALSE, !.mixed = @ /\ saving.at # "waiting"]
      /\ "reload in save" \in Uses \/ saving.at = "waiting"
      /\ UNCHANGED <<focus, levelVars, clock, deferred, saves, saving, requested, open,
                     undofile>>
  BY DEF reload
<1>7. views' = [u \in Views |->
                  IF u \in others THEN sync_changes(history', views[u])
                  ELSE IF u = v THEN ReloadOf(pending, w).view ELSE views[u]]
  BY <1>2, <1>4
<1> QED BY <1>2, <1>3, <1>4, <1>5, <1>6, <1>7 DEF ReloadBy

-----------------------------------------------------------------------------
(* Types. *)

\* A history read back from an undo file is one, with everything but its times.
LEMMA SnapshotTyped ==
    ASSUME NEW T, NEW h, IsHistory(h, T), NEW now \in Nat, NEW g, g = from_snapshot(h, now)
    PROVE  /\ IsHistory(g, T) /\ g.len = h.len /\ g.current = h.current
           /\ \A i \in 0 .. h.len - 1 : /\ g.rev[i].parent = h.rev[i].parent
                                        /\ g.rev[i].pre = h.rev[i].pre
                                        /\ g.rev[i].post = h.rev[i].post
<1>1. /\ h = [len |-> h.len, current |-> h.current, rev |-> h.rev]
      /\ h.len \in Nat \ {0}
      /\ h.rev \in [0 .. h.len - 1 -> Revision(T)]
  BY DEF IsHistory
<1>2. /\ h.current \in 0 .. h.len - 1 /\ h.rev[0].parent = 0
      /\ \A i \in 1 .. h.len - 1 : h.rev[i].parent \in 0 .. i - 1
      /\ \A i \in 0 .. h.len - 1 :
            \/ h.rev[i].last_child = None
            \/ /\ h.rev[i].last_child \in i + 1 .. h.len - 1
               /\ h.rev[h.rev[i].last_child].parent = i
  BY HistoryParts
<1> DEFINE stamped(r) == [r EXCEPT !.timestamp = now]
<1>3. ASSUME NEW r \in Revision(T)
      PROVE  /\ stamped(r) \in Revision(T)
             /\ stamped(r).parent = r.parent /\ stamped(r).last_child = r.last_child
             /\ stamped(r).pre = r.pre /\ stamped(r).post = r.post
  BY DEF Revision
<1>4. g = [h EXCEPT !.rev = [i \in 0 .. h.len - 1 |-> stamped(h.rev[i])]]
  BY <1>1 DEF from_snapshot
<1> HIDE DEF stamped
<1>5. /\ g = [len |-> g.len, current |-> g.current, rev |-> g.rev]
      /\ g.len = h.len /\ g.current = h.current
      /\ g.rev = [i \in 0 .. h.len - 1 |-> stamped(h.rev[i])]
  BY <1>1, <1>4
<1>6. \A i \in 0 .. h.len - 1 : /\ g.rev[i] \in Revision(T)
                                /\ g.rev[i].parent = h.rev[i].parent
                                /\ g.rev[i].last_child = h.rev[i].last_child
                                /\ g.rev[i].pre = h.rev[i].pre
                                /\ g.rev[i].post = h.rev[i].post
  BY <1>1, <1>3, <1>5
<1>7. g.rev \in [0 .. g.len - 1 -> Revision(T)]
  BY <1>5, <1>6
<1>8. /\ g.rev[0].parent = 0
      /\ \A i \in 1 .. g.len - 1 : g.rev[i].parent \in 0 .. i - 1
  <2>1. 0 \in 0 .. h.len - 1 /\ \A i \in 1 .. g.len - 1 : i \in 0 .. h.len - 1
    BY <1>1, <1>5
  <2>2. g.rev[0].parent = 0
    BY <1>2, <1>6, <2>1
  <2>3. ASSUME NEW i \in 1 .. g.len - 1 PROVE g.rev[i].parent \in 0 .. i - 1
    <3>1. g.rev[i].parent = h.rev[i].parent /\ i \in 1 .. h.len - 1
      BY <1>5, <1>6, <2>1, <2>3
    <3> QED BY <1>2, <3>1
  <2> QED BY <2>2, <2>3
<1>9. ASSUME NEW i \in 0 .. g.len - 1 PROVE LinkOK(g, i)
  <2>1. g.rev[i].last_child = h.rev[i].last_child
    BY <1>5, <1>6
  <2>2. CASE h.rev[i].last_child = None
    BY <2>1, <2>2 DEF LinkOK
  <2>3. CASE h.rev[i].last_child # None
    <3> DEFINE c == h.rev[i].last_child
    <3>1. c \in i + 1 .. h.len - 1 /\ h.rev[c].parent = i
      BY <1>2, <1>5, <2>3
    <3> HIDE DEF c
    <3>2. c \in 1 .. h.len - 1 /\ c \in 0 .. h.len - 1
      BY <1>1, <1>5, <3>1
    <3>3. g.rev[c].parent = i
      BY <1>6, <3>1, <3>2
    <3> QED BY <1>5, <2>1, <3>2, <3>3 DEF LinkOK, c
  <2> QED BY <2>2, <2>3
<1>10. IsHistory(g, T)
  BY <1>1, <1>2, <1>5, <1>7, <1>8, <1>9, MakesHistory
<1> QED BY <1>5, <1>6, <1>10

\* A reload keeps the types of the buffer.
LEMMA ReloadTyped ==
    ASSUME TypeOK, SaveTypeOK, Reloads
    PROVE  TypeOK' /\ SaveTypeOK'
<1>1. PICK v \in Views, w \in ViewType, others \in SUBSET Views : reload(v, w, others)
  BY DEF Reloads
<1>0. PICK pending \in BOOLEAN : ReloadBy(pending, v, w, others)
  BY <1>1, ReloadParts
<1>2. /\ history' = ReloadOf(pending, w).history
      /\ views' = [u \in Views |->
                     IF u \in others THEN sync_changes(history', views[u])
                     ELSE IF u = v THEN ReloadOf(pending, w).view ELSE views[u]]
      /\ crashed' \in BOOLEAN /\ undojoin_pending' \in BOOLEAN
      /\ last_saved_revision' = history'.current
      /\ text' = disk.text /\ old_state' = disk.text /\ changed' = FALSE
      /\ last_saved_time' = disk.mtime
      /\ disk' = [disk EXCEPT !.unseen = FALSE, !.mixed = @ /\ saving.at # "waiting"]
      /\ UNCHANGED <<focus, levelVars, clock, deferred, saves, saving, requested, open,
                     undofile>>
  BY <1>0 DEF ReloadBy
<1>3. /\ text \in Texts /\ old_state \in Texts /\ CommittedText \in Texts
      /\ disk.text \in Texts /\ disk.mtime \in Nat
      /\ IsHistory(history, Texts) /\ clock \in Nat
      /\ undojoin_pending \in BOOLEAN /\ \A u \in Views : views[u] \in ViewType
  BY TypeParts DEF TypeOK, SaveTypeOK, File, CommittedText
<1>4. IsHistory(ReloadOf(pending, w).history, Texts) /\ ReloadOf(pending, w).view \in ViewType
  <2>1. IsHistory(NewHistory(disk.text, clock), Texts)
    BY <1>3, NewHistoryTyped
  <2>2. /\ IsHistory(Committed(CommittedText, disk.text, undojoin_pending, w).history, Texts)
        /\ Committed(CommittedText, disk.text, undojoin_pending, w).view \in ViewType
    BY <1>3, CommittedTyped
  <2> QED BY <1>3, <2>1, <2>2 DEF ReloadOf
<1>5. \A u \in Views : sync_changes(history', views[u]) \in ViewType
  BY <1>2, <1>3, <1>4, SyncTyped
<1>6. views' \in [Views -> ViewType]
  BY <1>2, <1>3, <1>4, <1>5
<1>7. TypeOK'
  BY <1>2, <1>3, <1>4, <1>6 DEF TypeOK, ViewType, levelVars
<1>8. history'.current \in Nat /\ disk' \in File
  <2>1. IsHistory(history', Texts)
    BY <1>2, <1>4
  <2>2. disk \in File /\ disk'.unseen = FALSE
    BY <1>2 DEF SaveTypeOK, File
  <2>3. disk' \in File
    BY <1>2, <2>2 DEF File
  <2>4. history'.current \in Nat
    BY <2>1, HistoryParts
  <2> QED BY <2>3, <2>4
<1> QED BY <1>2, <1>3, <1>7, <1>8 DEF SaveTypeOK

\* Opening a file does, with or without an undo file.
LEMMA OpenTyped ==
    ASSUME TypeOK, SaveTypeOK, open_document
    PROVE  TypeOK' /\ SaveTypeOK'
<1>1. /\ disk.text \in Texts /\ disk.mtime \in Nat /\ clock \in Nat
      /\ IsHistory(undofile.history, Texts)
  BY DEF TypeOK, SaveTypeOK, File
<1>2. /\ text' = disk.text /\ old_state' = disk.text
      /\ changed' = FALSE /\ undojoin_pending' = FALSE /\ open' = TRUE
      /\ views' = [v \in Views |-> [rev |-> 0, jumps |-> {}]]
      /\ last_saved_revision' = 0 /\ last_saved_time' = disk.mtime
      /\ disk' = [disk EXCEPT !.unseen = FALSE, !.mixed = FALSE]
      /\ UNCHANGED <<focus, crashed, levelVars, clock, deferred, saves, saving, requested,
                     undofile>>
  BY DEF open_document
<1>3. \/ history' = from_snapshot(undofile.history, clock)
      \/ history' = NewHistory(disk.text, clock)
  BY DEF open_document
<1>4. IsHistory(history', Texts)
  BY <1>1, <1>3, NewHistoryTyped, SnapshotTyped
<1>5. disk' \in File
  BY <1>2 DEF SaveTypeOK, File
<1> QED BY <1>1, <1>2, <1>4, <1>5 DEF TypeOK, SaveTypeOK, levelVars

\* The save queue's side of a step, where the buffer is left alone or does a
\* step of its own.
LEMMA SaveSideTyped ==
    ASSUME TypeOK, TypeOK', SaveTypeOK, [FileNext]_fileVars, ~Reload, ~auto_reload_file,
           ~open_document
    PROVE  SaveTypeOK'
<1>1. /\ text \in Texts /\ IsHistory(history, Texts) /\ history.current \in Nat
      /\ Garbled \in Texts
  BY TypeParts, HistoryParts
<1>2. /\ last_saved_revision \in Nat /\ last_saved_time \in Nat /\ requested \in Nat
      /\ disk \in File /\ saves \in Seq(SaveRequest) /\ saving \in Progress /\ open \in BOOLEAN
      /\ deferred \in [BOOLEAN -> Nat]
      /\ undofile.present \in BOOLEAN /\ undofile.of \in Texts
      /\ IsHistory(undofile.history, Texts)
  BY DEF SaveTypeOK
<1>3. ASSUME NEW rev \in Nat, NEW force \in BOOLEAN, NEW mixed \in BOOLEAN,
             save(rev, force, mixed)
      PROVE  saves' \in Seq(SaveRequest)
  <2>1. [text |-> text, rev |-> rev, force |-> force, mixed |-> mixed] \in SaveRequest
    BY <1>1 DEF SaveRequest
  <2> QED BY <1>2, <1>3, <2>1, AppendProperties DEF save
<1>4. saves # << >> => /\ Tail(saves) \in Seq(SaveRequest) /\ Head(saves) \in SaveRequest
                       /\ Head(saves).text \in Texts /\ Head(saves).rev \in Nat
                       /\ Head(saves).mixed \in BOOLEAN
  <2>1. saves # << >> => Tail(saves) \in Seq(SaveRequest) /\ Head(saves) \in SaveRequest
    BY <1>2, HeadTailProperties
  <2> QED BY <2>1 DEF SaveRequest
<1>5. ASSUME NEW phase \in {"waiting", "checked", "created", "written", "stamped"}
      PROVE  [saving EXCEPT !.at = phase] \in Progress
  BY <1>2 DEF Progress
<1>6. saves # << >> /\ Finish => saves' \in Seq(SaveRequest) /\ saving' \in Progress
  BY <1>4, <1>5 DEF Finish
<1>7. CASE UNCHANGED saveVars
  BY <1>2, <1>7 DEF SaveTypeOK, saveVars
<1>8. ASSUME NEW force \in BOOLEAN, NEW auto_format \in BOOLEAN,
             write_impl(force, auto_format)
      PROVE  SaveTypeOK'
  <2> DEFINE a == Appended(undojoin_pending)
  <2>1. IsHistory(a.history, Texts) /\ a.history.current \in Nat
    BY AppendedTyped, HistoryParts DEF TypeOK
  <2>2. /\ \/ deferred' = [deferred EXCEPT ![force] = @ + 1] /\ saves' = saves
           \/ save(a.history.current, force, FALSE) /\ deferred' = deferred
        /\ undofile' \in {undofile,
                          [present |-> TRUE, of |-> text, history |-> a.history]}
        /\ requested' = requested + 1
        /\ UNCHANGED <<last_saved_revision, last_saved_time, disk, saving, open>>
    BY <1>8 DEF write_impl, Request
  <2> HIDE DEF a
  <2>4. deferred' \in [BOOLEAN -> Nat] /\ saves' \in Seq(SaveRequest)
    <3>1. [deferred EXCEPT ![force] = @ + 1] \in [BOOLEAN -> Nat]
      BY <1>2
    <3>2. save(a.history.current, force, FALSE) => saves' \in Seq(SaveRequest)
      BY <1>3, <2>1
    <3> QED BY <1>2, <2>2, <3>1, <3>2
  <2>3. undofile'.present \in BOOLEAN /\ undofile'.of \in Texts
        /\ IsHistory(undofile'.history, Texts)
    <3>1. CASE undofile' = undofile
      BY <1>2, <3>1
    <3>2. CASE undofile' = [present |-> TRUE, of |-> text, history |-> a.history]
      <4>1. /\ undofile'.present = TRUE /\ undofile'.of = text
            /\ undofile'.history = a.history
        BY <3>2
      <4> QED BY <1>1, <2>1, <4>1
    <3> QED BY <2>2, <3>1, <3>2
  <2> QED BY <1>2, <2>2, <2>3, <2>4 DEF SaveTypeOK
<1>9. CASE save_changed_docs
  <2>1. saves' \in Seq(SaveRequest)
    BY <1>1, <1>3, <1>9 DEF save_changed_docs, TypeOK
  <2> QED BY <1>2, <1>9, <2>1 DEF save_changed_docs, Request, SaveTypeOK
<1>19. ASSUME NEW force \in BOOLEAN, Followup(force) PROVE SaveTypeOK'
  <2>1. saves' \in Seq(SaveRequest)
    BY <1>1, <1>3, <1>19 DEF Followup, TypeOK
  <2>2. deferred' \in [BOOLEAN -> Nat]
    BY <1>2, <1>19 DEF Followup
  <2> QED BY <1>2, <1>19, <2>1, <2>2 DEF Followup, SaveTypeOK
<1>10. CASE SaveCheck
  <2>1. saves' \in Seq(SaveRequest) /\ saving' \in Progress
    <3>1. \/ saves # << >> /\ Finish
          \/ saves' = saves /\ saving' = [saving EXCEPT !.at = "checked"]
      BY <1>10 DEF SaveCheck, At
    <3>2. [saving EXCEPT !.at = "checked"] \in Progress
      BY <1>5
    <3> QED BY <1>2, <1>6, <3>1, <3>2
  <2> QED BY <1>2, <1>10, <2>1 DEF SaveCheck, SaveTypeOK
<1>20. disk \in File /\ disk.mtime + 1 \in Nat
  BY <1>2 DEF File
<1>11. CASE SaveCreate
  <2>1. disk' \in File
    <3>1. /\ Garbled \in Texts
          /\ disk' = [disk EXCEPT !.text = Garbled, !.mtime = @ + 1, !.unseen = FALSE,
                                  !.mixed = FALSE]
      BY <1>1, <1>11 DEF SaveCreate
    <3> QED BY <1>20, <3>1 DEF File
  <2>2. saving' \in Progress
    BY <1>2, <1>11 DEF SaveCreate, Progress
  <2> QED BY <1>2, <1>11, <2>1, <2>2 DEF SaveCreate, SaveTypeOK
<1>12. CASE SaveWrite
  <2>1. disk' \in File
    <3>1. /\ Head(saves).text \in Texts /\ Head(saves).mixed \in BOOLEAN
          /\ disk' = [disk EXCEPT !.text = Head(saves).text, !.mtime = @ + 1,
                                  !.unseen = FALSE, !.mixed = Head(saves).mixed]
      BY <1>4, <1>12 DEF SaveWrite, At
    <3> QED BY <1>20, <3>1 DEF File
  <2>2. saving' \in Progress
    BY <1>5, <1>12 DEF SaveWrite
  <2> QED BY <1>2, <1>12, <2>1, <2>2 DEF SaveWrite, SaveTypeOK
<1>13. CASE SaveFail
  <2>1. disk' \in File
    <3>1. saving.old \in File
      BY <1>2 DEF Progress
    <3>2. disk' \in {saving.old, [saving.old EXCEPT !.mtime = disk.mtime + 1], disk,
                     [disk EXCEPT !.bare = TRUE]}
      BY <1>13 DEF SaveFail, Leftovers
    <3> QED BY <1>20, <3>1, <3>2 DEF File
  <2>2. saves' \in Seq(SaveRequest) /\ saving' \in Progress
    <3>1. saves # << >> /\ Finish
      BY <1>13 DEF SaveFail, At
    <3> QED BY <1>6, <3>1
  <2> QED BY <1>2, <1>13, <2>1, <2>2 DEF SaveFail, SaveTypeOK
<1>14. CASE SaveStat
  <2>1. saving' \in Progress
    BY <1>2, <1>14 DEF SaveStat, Progress, File
  <2> QED BY <1>2, <1>14, <2>1 DEF SaveStat, SaveTypeOK
<1>15. CASE handle_document_write
  <2>1. saves' \in Seq(SaveRequest) /\ saving' \in Progress
    <3>1. saves # << >> /\ Finish
      BY <1>15 DEF handle_document_write, At
    <3> QED BY <1>6, <3>1
  <2>2. last_saved_time' \in Nat /\ last_saved_revision' \in Nat
    <3>1. /\ saves # << >> /\ last_saved_time' = saving.stamp
          /\ last_saved_revision' = Head(saves).rev
      BY <1>15 DEF handle_document_write, At
    <3>2. saving.stamp \in Nat
      BY <1>2 DEF Progress
    <3> QED BY <1>4, <3>1, <3>2
  <2> QED BY <1>2, <1>15, <2>1, <2>2 DEF handle_document_write, SaveTypeOK
<1>16. ASSUME NEW t \in Text, ExternalWrite(t) PROVE SaveTypeOK'
  <2>1. /\ t \in Texts
        /\ disk' = [disk EXCEPT !.text = t, !.mtime = @ + 1, !.unseen = TRUE, !.mixed = FALSE]
    BY <1>16 DEF ExternalWrite, Texts
  <2>2. disk' \in File
    BY <1>20, <2>1 DEF File
  <2> QED BY <1>2, <1>16, <2>2 DEF ExternalWrite, SaveTypeOK
<1>17. ASSUME NEW modified \in BOOLEAN, set_modified(modified) PROVE SaveTypeOK'
  <2>1. last_saved_revision' \in Nat
    <3>1. last_saved_revision' \in {history.current, history.current + 1}
      BY <1>17 DEF set_modified
    <3>2. history.current \in Nat
      BY <1>1
    <3> QED BY <3>1, <3>2
  <2> QED BY <1>2, <1>17, <2>1 DEF set_modified, SaveTypeOK
<1>18. CASE close_document
  BY <1>2, <1>18 DEF close_document, SaveTypeOK
<1> QED BY <1>7, <1>8, <1>9, <1>10, <1>11, <1>12, <1>13, <1>14, <1>15, <1>16, <1>17, <1>18,
        <1>19 DEF FileNext, fileVars, SaveStep, BufferStep

\* Every step keeps the types.
LEMMA FileStepTyped ==
    ASSUME FileTypeOK, [FileNext]_fileVars
    PROVE  FileTypeOK'
<1>1. TypeOK /\ SaveTypeOK
  BY FileTypeParts
<1>2. CASE Reload \/ auto_reload_file
  BY <1>1, <1>2, BothReload, ReloadTyped, FileTypeParts, PTL
<1>3. CASE open_document
  BY <1>1, <1>3, OpenTyped, FileTypeParts, PTL
<1>4. CASE ~Reload /\ ~auto_reload_file /\ ~open_document
  <2>1. TypeOK'
    BY <1>1, BufferSide, StepTyped, ReloadTyped, <1>4
  <2>2. SaveTypeOK'
    BY <1>1, <1>4, <2>1, SaveSideTyped
  <2> QED BY <2>1, <2>2, FileTypeParts, PTL
<1> QED BY <1>2, <1>3, <1>4

\* The types of the buffer and of what is kept about its file hold for every
\* instance, whatever is saved, reloaded, closed and opened with whichever undo
\* file.
THEOREM FileTypeCorrect == FileSpec => []FileTypeOK
<1>1. FileInit => FileTypeOK
  <2> SUFFICES ASSUME FileInit PROVE FileTypeOK
    OBVIOUS
  <2>1. TypeOK
    BY InitTyped DEF FileInit
  <2>2. Garbled \in Texts /\ text \in Texts
    BY TypeParts, <2>1
  <2>3. disk \in File /\ saving \in Progress
    BY <2>2 DEF FileInit, File, Progress
  <2>4. IsHistory(undofile.history, Texts) /\ undofile.of \in Texts
        /\ undofile.present \in BOOLEAN
    BY <2>2, NewHistoryTyped DEF FileInit, NoUndoFile
  <2>5. saves \in Seq(SaveRequest)
    BY DEF FileInit
  <2>6. SaveTypeOK
    BY <2>3, <2>4, <2>5 DEF FileInit, SaveTypeOK
  <2> QED BY <2>1, <2>6, FileTypeParts
<1>2. FileTypeOK /\ [FileNext]_fileVars => FileTypeOK'
  BY FileStepTyped
<1> QED BY <1>1, <1>2, PTL DEF FileSpec

-----------------------------------------------------------------------------
(* The save queue, action by action. *)

Moves(phase) ==
    /\ saves' = saves
    /\ saving'.at = phase /\ saving'.old = saving.old /\ saving'.stamp = saving.stamp

Finished == saves' = Tail(saves) /\ saving'.at = "waiting"

\* What each step of a save does.
LEMMA PhaseParts ==
    ASSUME SaveTypeOK
    PROVE  /\ SaveCheck => /\ At("waiting")
                           /\ \/ Finished
                              \/ /\ Moves("checked")
                                 /\ Head(saves).force \/ ~is_changed_on_disk
                           /\ UNCHANGED <<last_saved_revision, last_saved_time, disk>>
           /\ SaveCreate => /\ At("checked")
                            /\ saves' = saves
                            /\ saving'.at = "created" /\ saving'.old = disk
                            /\ disk'.text = Garbled /\ disk'.mtime = disk.mtime + 1
                            /\ disk'.unseen = FALSE /\ disk'.bare = disk.bare
                            /\ UNCHANGED <<last_saved_revision, last_saved_time>>
           /\ SaveWrite => /\ At("created")
                           /\ Moves("written")
                           /\ disk'.text = Head(saves).text /\ disk'.mtime = disk.mtime + 1
                           /\ disk'.unseen = FALSE /\ disk'.bare = disk.bare
                           /\ disk'.mixed = Head(saves).mixed
                           /\ UNCHANGED <<last_saved_revision, last_saved_time>>
           /\ SaveFail => /\ "failure" \in Uses /\ saves # << >> /\ Finished
                          /\ \/ At("checked") /\ disk' = disk
                             \/ At("created") /\ disk'.bare = TRUE
                             \/ /\ At("created")
                                /\ disk'.text = saving.old.text /\ disk'.bare = saving.old.bare
                          /\ UNCHANGED <<last_saved_revision, last_saved_time>>
           /\ SaveStat => /\ At("written")
                          /\ saves' = saves
                          /\ saving'.at = "stamped" /\ saving'.stamp = disk.mtime
                          /\ UNCHANGED <<last_saved_revision, last_saved_time, disk>>
           /\ handle_document_write => /\ At("stamped")
                                       /\ Finished
                                       /\ last_saved_time' = saving.stamp
                                       /\ last_saved_revision' = Head(saves).rev
                                       /\ disk' = disk
<1>1. saving \in Progress /\ saving.old \in File /\ disk \in File
  BY DEF SaveTypeOK, Progress
<1>2. ASSUME NEW phase, saving' = [saving EXCEPT !.at = phase]
      PROVE  /\ saving'.at = phase
             /\ saving'.old = saving.old /\ saving'.stamp = saving.stamp
  BY <1>1, <1>2 DEF Progress
<1>3. Finish => Finished
  BY <1>2 DEF Finish, Finished
<1>4. SaveCheck => /\ At("waiting")
                   /\ \/ Finished
                      \/ Moves("checked") /\ (Head(saves).force \/ ~is_changed_on_disk)
                   /\ UNCHANGED <<last_saved_revision, last_saved_time, disk>>
  BY <1>2, <1>3 DEF SaveCheck, Moves
<1>5. SaveCreate => /\ At("checked")
                    /\ saves' = saves
                    /\ saving'.at = "created" /\ saving'.old = disk
                    /\ disk'.text = Garbled /\ disk'.mtime = disk.mtime + 1
                    /\ disk'.unseen = FALSE /\ disk'.bare = disk.bare
                    /\ UNCHANGED <<last_saved_revision, last_saved_time>>
  <2> SUFFICES ASSUME SaveCreate
               PROVE  /\ saving'.at = "created" /\ saving'.old = disk
                      /\ disk'.text = Garbled /\ disk'.mtime = disk.mtime + 1
                      /\ disk'.unseen = FALSE /\ disk'.bare = disk.bare
    BY DEF SaveCreate
  <2>1. PICK backup \in BOOLEAN :
           saving' = [saving EXCEPT !.at = "created", !.old = disk, !.backup = backup]
    BY DEF SaveCreate
  <2>2. saving'.at = "created" /\ saving'.old = disk
    BY <1>1, <2>1 DEF Progress
  <2>3. disk' = [disk EXCEPT !.text = Garbled, !.mtime = @ + 1, !.unseen = FALSE,
                            !.mixed = FALSE]
    BY DEF SaveCreate
  <2>4. /\ disk'.text = Garbled /\ disk'.mtime = disk.mtime + 1
        /\ disk'.unseen = FALSE /\ disk'.bare = disk.bare
    BY <1>1, <2>3 DEF File
  <2> QED BY <2>2, <2>4
<1>6. SaveWrite => /\ At("created")
                   /\ Moves("written")
                   /\ disk'.text = Head(saves).text /\ disk'.mtime = disk.mtime + 1
                   /\ disk'.unseen = FALSE /\ disk'.bare = disk.bare
                   /\ disk'.mixed = Head(saves).mixed
                   /\ UNCHANGED <<last_saved_revision, last_saved_time>>
  <2> SUFFICES ASSUME SaveWrite
               PROVE  /\ disk'.text = Head(saves).text /\ disk'.mtime = disk.mtime + 1
                      /\ disk'.unseen = FALSE /\ disk'.bare = disk.bare
                      /\ disk'.mixed = Head(saves).mixed
    BY <1>2 DEF SaveWrite, Moves
  <2>1. disk' = [disk EXCEPT !.text = Head(saves).text, !.mtime = @ + 1, !.unseen = FALSE,
                            !.mixed = Head(saves).mixed]
    BY DEF SaveWrite
  <2> QED BY <1>1, <2>1 DEF File
<1>7. SaveFail => /\ "failure" \in Uses /\ saves # << >> /\ Finished
                  /\ \/ At("checked") /\ disk' = disk
                     \/ At("created") /\ disk'.bare = TRUE
                     \/ /\ At("created")
                        /\ disk'.text = saving.old.text /\ disk'.bare = saving.old.bare
                  /\ UNCHANGED <<last_saved_revision, last_saved_time>>
  <2>1. ASSUME NEW d \in {saving.old, [saving.old EXCEPT !.mtime = disk.mtime + 1]}
        PROVE  d.text = saving.old.text /\ d.bare = saving.old.bare
    BY <1>1 DEF File
  <2>2. [disk EXCEPT !.bare = TRUE].bare = TRUE
    BY <1>1 DEF File
  <2>3. ASSUME NEW d \in Leftovers
        PROVE  d.bare = TRUE \/ (d.text = saving.old.text /\ d.bare = saving.old.bare)
    BY <2>1, <2>2 DEF Leftovers
  <2> QED BY <1>3, <2>3 DEF SaveFail, At
<1>8. SaveStat => /\ At("written")
                  /\ saves' = saves
                  /\ saving'.at = "stamped" /\ saving'.stamp = disk.mtime
                  /\ UNCHANGED <<last_saved_revision, last_saved_time, disk>>
  BY <1>1 DEF SaveStat, Progress
<1>9. handle_document_write => /\ At("stamped")
                               /\ Finished
                               /\ last_saved_time' = saving.stamp
                               /\ last_saved_revision' = Head(saves).rev
                               /\ disk' = disk
  BY <1>3 DEF handle_document_write
<1> QED BY <1>4, <1>5, <1>6, <1>7, <1>8, <1>9

\* The steps of a save leave the buffer, and what else there is, alone.
LEMMA SaveStepKeeps ==
    ASSUME SaveStep
    PROVE  UNCHANGED <<docVars, deferred, requested, open, undofile>>
BY DEF SaveStep, SaveCheck, SaveCreate, SaveWrite, SaveFail, SaveStat, handle_document_write

\* A request goes to the end of the queue.
LEMMA RequestParts ==
    ASSUME SaveTypeOK, NEW rev, NEW force, NEW mixed, save(rev, force, mixed)
    PROVE  /\ saves' # << >> /\ Len(saves') = Len(saves) + 1
           /\ saves # << >> => Head(saves') = Head(saves)
           /\ \A i \in 1 .. Len(saves) : saves'[i] = saves[i]
           /\ saves'[Len(saves) + 1] = [text |-> text, rev |-> rev, force |-> force,
                                        mixed |-> mixed]
<1> DEFINE r == [text |-> text, rev |-> rev, force |-> force, mixed |-> mixed]
           S == SaveRequest \cup {r}
<1>1. saves \in Seq(S) /\ r \in S
  BY DEF SaveTypeOK
<1>2. saves' = Append(saves, r)
  BY DEF save
<1> HIDE DEF r, S
<1>3. /\ Append(saves, r) # << >> /\ Len(Append(saves, r)) = Len(saves) + 1
      /\ \A i \in 1 .. Len(saves) : Append(saves, r)[i] = saves[i]
      /\ Append(saves, r)[Len(saves) + 1] = r
  BY <1>1, AppendProperties
<1>4. saves # << >> => Head(saves) = saves[1] /\ 1 \in 1 .. Len(saves)
  BY <1>1, HeadTailProperties, EmptySeq
<1>5. Head(Append(saves, r)) = Append(saves, r)[1]
  BY <1>1, <1>3
<1> QED BY <1>2, <1>3, <1>4, <1>5 DEF r

-----------------------------------------------------------------------------
(* The guard against foreign edits. *)

\* How the editor is used when no other process writes the file during a save,
\* and no write fails.
Undisturbed == "race" \notin Uses /\ "failure" \notin Uses

\* Only an open buffer has jobs and saves, and only the oldest save is under way.
Queued == (saves = << >> => saving.at = "waiting") /\ (~open => ~Unfinished)

\* The ways to ask for a save: by :write, by the job it left, by autosave.
Asks ==
    \/ \E force, auto_format \in BOOLEAN : write_impl(force, auto_format)
    \/ \E force \in BOOLEAN : Followup(force)
    \/ save_changed_docs

\* Asking leaves what is in the queue, and the file, alone.
LEMMA AskParts ==
    ASSUME SaveTypeOK, Queued, Asks
    PROVE  /\ open /\ (saves' = saves \/ saves' # << >>)
           /\ saves # << >> => Head(saves') = Head(saves)
           /\ UNCHANGED <<last_saved_revision, last_saved_time, disk, saving, open>>
<1>1. ASSUME NEW rev, NEW force, NEW mixed, save(rev, force, mixed)
      PROVE  saves' # << >> /\ (saves # << >> => Head(saves') = Head(saves))
  BY <1>1, RequestParts
<1>2. CASE \E force, auto_format \in BOOLEAN : write_impl(force, auto_format)
  BY <1>1, <1>2 DEF write_impl
<1>3. CASE \E force \in BOOLEAN : Followup(force)
  BY <1>1, <1>3 DEF Followup, Queued, Unfinished
<1>4. CASE save_changed_docs
  BY <1>1, <1>4 DEF save_changed_docs
<1> QED BY <1>2, <1>3, <1>4 DEF Asks

\* The queue stays so.
LEMMA QueueStep ==
    ASSUME SaveTypeOK, TypeOK, Queued, [FileNext]_fileVars
    PROVE  Queued'
<1>1. open \in BOOLEAN
  BY DEF SaveTypeOK
<1>2. ASSUME UNCHANGED <<saves, saving, deferred>>,
             open' = open \/ open' = TRUE \/ ~Unfinished
      PROVE  Queued'
  BY <1>1, <1>2 DEF Queued, Unfinished
<1>3. CASE Asks
  BY <1>3, AskParts DEF Queued
<1>4. ASSUME SaveStep PROVE Queued'
  <2>1. open' = open /\ (saves # << >> => open)
    BY <1>1, <1>4, SaveStepKeeps DEF Queued, Unfinished
  <2>2. saves # << >> /\ (saves' = saves \/ Finished)
    BY <1>4, PhaseParts DEF SaveStep, At, Moves
  <2> QED BY <2>1, <2>2 DEF Queued, Finished
<1>5. ASSUME Reload \/ auto_reload_file PROVE Queued'
  BY <1>2, <1>5 DEF Reload, auto_reload_file, reload
<1>6. CASE \/ BufferStep \/ \E t \in Text : ExternalWrite(t)
           \/ \E modified \in BOOLEAN : set_modified(modified)
           \/ close_document \/ open_document \/ UNCHANGED fileVars
  BY <1>2, <1>6 DEF BufferStep, ExternalWrite, set_modified, close_document, open_document,
                    fileVars, saveVars
<1> QED BY <1>3, <1>4, <1>5, <1>6 DEF FileNext, Asks

\* The inductive invariant.  From its check to its end a save knows that the
\* file is its own to write, or was told not to care, and it ends with the
\* mtime the file then has.
Guarded ==
    /\ Queued
    /\ GuardIsExact
    /\ last_saved_time <= disk.mtime
    /\ saving.at = "checked" => ~disk.unseen \/ Head(saves).force
    /\ saving.at \in {"created", "written", "stamped"} => ~disk.unseen
    /\ saving.at = "stamped" => saving.stamp = disk.mtime

LEMMA GuardStep ==
    ASSUME Undisturbed, FileTypeOK, Guarded, [FileNext]_fileVars
    PROVE  Guarded'
<1>1. /\ TypeOK /\ SaveTypeOK
      /\ disk.mtime \in Nat /\ disk.unseen \in BOOLEAN /\ last_saved_time \in Nat
      /\ saving.at \in {"waiting", "checked", "created", "written", "stamped"}
      /\ open \in BOOLEAN
  BY FileTypeParts DEF SaveTypeOK, File, Progress
<1>13. Queued /\ Queued'
  BY <1>1, QueueStep DEF Guarded
<1>2. ASSUME UNCHANGED <<last_saved_time, disk, saves, saving, open>>
      PROVE  Guarded'
  BY <1>2, <1>13 DEF Guarded, GuardIsExact, is_changed_on_disk
<1>3. CASE Asks
  <2>1. /\ saves # << >> => Head(saves') = Head(saves)
        /\ UNCHANGED <<last_saved_time, disk, saving, open>>
    BY <1>1, <1>3, <1>13, AskParts
  <2>2. saves = << >> => saving.at = "waiting"
    BY <1>13 DEF Queued
  <2> QED BY <1>13, <2>1, <2>2 DEF Guarded, GuardIsExact, is_changed_on_disk
<1>4. ASSUME SaveStep PROVE Guarded'
  <2>1. open' = open /\ (saves # << >> => open)
    BY <1>1, <1>4, <1>13, SaveStepKeeps DEF Queued, Unfinished
  <2>2. CASE SaveCheck
    <3>1. /\ At("waiting") /\ UNCHANGED <<last_saved_time, disk>>
          /\ \/ Finished
             \/ Moves("checked") /\ (Head(saves).force \/ ~is_changed_on_disk)
      BY <1>1, <2>2, PhaseParts
    <3> QED BY <1>13, <2>1, <3>1 DEF Guarded, GuardIsExact, is_changed_on_disk, Finished,
                              Moves, At
  <2>3. CASE SaveCreate
    <3>1. /\ At("checked") /\ saves' = saves /\ saving'.at = "created"
          /\ disk'.mtime = disk.mtime + 1 /\ disk'.unseen = FALSE
          /\ UNCHANGED last_saved_time
      BY <1>1, <2>3, PhaseParts
    <3> QED BY <1>1, <1>13, <2>1, <3>1 DEF Guarded, GuardIsExact, At
  <2>4. CASE SaveWrite
    <3>1. /\ At("created") /\ saves' = saves /\ saving'.at = "written"
          /\ disk'.mtime = disk.mtime + 1 /\ disk'.unseen = FALSE
          /\ UNCHANGED last_saved_time
      BY <1>1, <2>4, PhaseParts DEF Moves
    <3> QED BY <1>1, <1>13, <2>1, <3>1 DEF Guarded, GuardIsExact, At
  <2>5. CASE SaveFail
    BY <1>1, <2>5, PhaseParts DEF Undisturbed
  <2>6. CASE SaveStat
    <3>1. /\ At("written") /\ saves' = saves
          /\ saving'.at = "stamped" /\ saving'.stamp = disk.mtime
          /\ UNCHANGED <<last_saved_time, disk>>
      BY <1>1, <2>6, PhaseParts
    <3> QED BY <1>1, <1>13, <2>1, <3>1 DEF Guarded, GuardIsExact, At
  <2>7. CASE handle_document_write
    <3>1. /\ At("stamped") /\ Finished /\ last_saved_time' = saving.stamp /\ disk' = disk
      BY <1>1, <2>7, PhaseParts
    <3> QED BY <1>1, <1>13, <2>1, <3>1 DEF Guarded, GuardIsExact, is_changed_on_disk,
                                    Finished, At
  <2> QED BY <1>4, <2>2, <2>3, <2>4, <2>5, <2>6, <2>7 DEF SaveStep
<1>5. ASSUME NEW t \in Text, ExternalWrite(t) PROVE Guarded'
  <2>1. /\ saving.at = "waiting"
        /\ disk' = [disk EXCEPT !.text = t, !.mtime = @ + 1, !.unseen = TRUE,
                                !.mixed = FALSE]
        /\ UNCHANGED <<last_saved_time, saves, saving, open>>
    BY <1>5 DEF ExternalWrite, Undisturbed
  <2>2. disk'.mtime = disk.mtime + 1 /\ disk'.unseen = TRUE
    BY <1>1, <2>1 DEF SaveTypeOK, File
  <2> QED BY <1>1, <1>13, <2>1, <2>2 DEF Guarded, GuardIsExact, is_changed_on_disk
<1>6. ASSUME Reload \/ auto_reload_file PROVE Guarded'
  <2>1. PICK v \in Views, w \in ViewType, others \in SUBSET Views : reload(v, w, others)
    BY <1>1, <1>6, BothReload DEF Reloads
  <2>2. PICK pending \in BOOLEAN : ReloadBy(pending, v, w, others)
    BY <1>1, <2>1, ReloadParts
  <2>3. /\ last_saved_time' = disk.mtime
        /\ disk' = [disk EXCEPT !.unseen = FALSE, !.mixed = @ /\ saving.at # "waiting"]
        /\ UNCHANGED <<saves, saving, open>>
    BY <2>2 DEF ReloadBy
  <2>4. disk'.mtime = disk.mtime /\ disk'.unseen = FALSE
    BY <1>1, <2>3 DEF SaveTypeOK, File
  <2> QED BY <1>1, <1>13, <2>3, <2>4 DEF Guarded, GuardIsExact, is_changed_on_disk
<1>7. CASE close_document
  <2>1. saves = << >> /\ open' = FALSE /\ UNCHANGED <<last_saved_time, disk, saves, saving>>
    BY <1>7 DEF close_document, Unfinished
  <2>2. saving.at = "waiting"
    BY <1>13, <2>1 DEF Queued
  <2> QED BY <1>13, <2>1, <2>2 DEF Guarded, GuardIsExact
<1>8. CASE open_document
  <2>1. /\ ~open /\ last_saved_time' = disk.mtime
        /\ disk' = [disk EXCEPT !.unseen = FALSE, !.mixed = FALSE]
        /\ UNCHANGED <<saves, saving>> /\ open' = TRUE
    BY <1>8 DEF open_document
  <2>2. disk'.mtime = disk.mtime /\ disk'.unseen = FALSE
    BY <1>1, <2>1 DEF SaveTypeOK, File
  <2> QED BY <1>1, <1>13, <2>1, <2>2 DEF Guarded, GuardIsExact, is_changed_on_disk
<1>11. ASSUME NEW modified, set_modified(modified) PROVE Guarded'
  BY <1>2, <1>11 DEF set_modified
<1>12. CASE BufferStep \/ UNCHANGED fileVars
  BY <1>2, <1>12 DEF BufferStep, fileVars, saveVars
<1> QED BY <1>3, <1>4, <1>5, <1>6, <1>7, <1>8, <1>11, <1>12 DEF FileNext, Asks

LEMMA AlwaysGuarded ==
    ASSUME Undisturbed
    PROVE  FileSpec => []Guarded
<1>1. FileInit => Guarded
  BY DEF FileInit, Guarded, Queued, Unfinished, GuardIsExact, is_changed_on_disk
<1>2. FileTypeOK /\ Guarded /\ [FileNext]_fileVars => Guarded'
  BY GuardStep
<1> QED BY <1>1, <1>2, FileTypeCorrect, PTL DEF FileSpec

\* Comparing mtimes tells exactly whether another process wrote the file,
\* whatever is saved, reloaded, closed and opened in whatever order, also where
\* a reload comes in the middle of a save: the editor's own writes never look
\* foreign, and a foreign one never looks like its own.
THEOREM GuardTellsExactly ==
    ASSUME Undisturbed
    PROVE  FileSpec => []GuardIsExact
<1>1. Guarded => GuardIsExact
  BY DEF Guarded
<1> QED BY <1>1, AlwaysGuarded, PTL

\* No save without :w! overwrites what another process wrote and the editor has
\* not loaded, however many saves are queued behind one another.
THEOREM ForeignEditsAreKept ==
    ASSUME Undisturbed
    PROVE  FileSpec => NeverOverwritesForeignEdit
<1>1. FileTypeOK /\ Guarded /\ [FileNext]_fileVars =>
        [disk.unseen /\ disk' # disk /\ saves # << >> /\ ~disk'.unseen
            /\ last_saved_time' = last_saved_time => Head(saves).force]_fileVars
  <2> SUFFICES ASSUME FileTypeOK, Guarded, [FileNext]_fileVars, disk.unseen, disk' # disk,
                      saves # << >>, ~disk'.unseen, last_saved_time' = last_saved_time
               PROVE  Head(saves).force
    OBVIOUS
  <2>1. /\ TypeOK /\ SaveTypeOK /\ open
        /\ saving.at \in {"waiting", "checked", "created", "written", "stamped"}
    BY FileTypeParts DEF SaveTypeOK, Progress, Guarded, Queued, Unfinished
  <2>2. saving.at = "checked" => Head(saves).force
    BY DEF Guarded
  <2>3. saving.at \in {"waiting", "checked"}
    BY <2>1 DEF Guarded
  <2>4. CASE SaveStep
    BY <2>1, <2>2, <2>3, <2>4, PhaseParts DEF SaveStep, At
  <2>5. ASSUME Reload \/ auto_reload_file PROVE Head(saves).force
    <3>1. PICK v \in Views, w \in ViewType, others \in SUBSET Views : reload(v, w, others)
      BY <2>1, <2>5, BothReload DEF Reloads
    <3>2. PICK pending \in BOOLEAN : ReloadBy(pending, v, w, others)
      BY <2>1, <3>1, ReloadParts
    <3>3. last_saved_time = disk.mtime
      BY <3>2 DEF ReloadBy
    <3>4. ~is_changed_on_disk
      BY <2>1, <3>3 DEF is_changed_on_disk, SaveTypeOK, File
    <3>5. saving.at # "waiting"
      BY <2>1, <3>4 DEF Guarded, GuardIsExact
    <3> QED BY <2>2, <2>3, <3>5
  <2>6. ASSUME NEW t \in Text, ExternalWrite(t) PROVE FALSE
    BY <2>1, <2>6 DEF ExternalWrite, SaveTypeOK, File
  <2>7. ~open_document
    BY <2>1 DEF open_document
  <2>8. ASSUME disk' = disk PROVE FALSE
    BY <2>8
  <2>9. ~Asks
    BY <2>1, <2>8, AskParts DEF Guarded
  <2> QED BY <2>4, <2>5, <2>6, <2>7, <2>8, <2>9
          DEF FileNext, fileVars, saveVars, BufferStep, Asks, set_modified, close_document
<1> QED BY <1>1, FileTypeCorrect, AlwaysGuarded, PTL DEF FileSpec, NeverOverwritesForeignEdit

-----------------------------------------------------------------------------
(* The buffer stays exact across files. *)

\* A new history ends at its text.
LEMMA NewHistoryEnds ==
    ASSUME NEW T, NEW t \in T, NEW now \in Nat, NEW n, n = NewHistory(t, now)
    PROVE  IsHistory(n, T) /\ Chained(n) /\ n.rev[n.current].post = t
<1>1. n.current = 0 /\ n.rev[0].post = t
  BY DEF NewHistory
<1> QED BY <1>1, NewHistoryTyped

\* A reload keeps the chain of revisions and ends at one with the text of the
\* file.
LEMMA ReloadExact ==
    ASSUME BufferExact, SaveTypeOK, LevelChoices = {},
           NEW pending \in BOOLEAN, NEW v, NEW w, NEW others,
           ReloadBy(pending, v, w, others)
    PROVE  /\ undojoin_pending' = FALSE /\ BufferIsCurrentRevision'
           /\ "no undoreload" \notin Uses => Keeps(history, history')
           /\ history' \in {history, NewHistory(disk.text, clock),
                            Pushed(history, [pre |-> CommittedText, post |-> disk.text],
                                   clock)}
<1> DEFINE x == [pre |-> CommittedText, post |-> disk.text]
           p == Pushed(history, x, clock)
           n == NewHistory(disk.text, clock)
<1>1. /\ IsHistory(history, Texts) /\ clock \in Nat /\ x \in Txn(Texts)
      /\ disk.text \in Texts /\ history.len \in Nat
      /\ x.pre = CommittedText /\ x.post = disk.text
  BY TypeParts DEF BufferExact, SaveTypeOK, File, CommittedText, Txn, IsHistory
<1>2. undojoin_pending = FALSE /\ undo_levels = 0
  BY Unbounded DEF BufferExact
<1>3. /\ ~pending => disk.text = CommittedText
      /\ history' = ReloadOf(pending, w).history
      /\ text' = disk.text /\ changed' = FALSE
      /\ undojoin_pending' = FALSE
  BY <1>2 DEF ReloadBy
<1>4. \/ history' = n /\ "no undoreload" \in Uses
      \/ history' = p
      \/ history' = history /\ disk.text = CommittedText
  BY <1>2, <1>3, UnboundedCommit DEF ReloadOf, Committed
<1>5. Chained(history) /\ CommittedText = history.rev[history.current].post
  BY DEF BufferExact, BufferIsCurrentRevision
<1>6. Chained(n) /\ n.rev[n.current].post = disk.text
  BY <1>1, NewHistoryEnds
<1> HIDE DEF n, x
<1>7. Chained(p) /\ p.rev[p.current].post = disk.text /\ Keeps(history, p)
  <2>1. Chained(p) /\ p.rev[p.current].post = disk.text
    BY <1>1, <1>5, PushedChained
  <2>2. Keeps(history, p)
    BY <1>1, PushedParts DEF Keeps
  <2> QED BY <2>1, <2>2
<1> HIDE DEF p
<1>8. Keeps(history, history)
  BY <1>1 DEF Keeps
<1>9. Chained(history') /\ history'.rev[history'.current].post = disk.text
  BY <1>4, <1>5, <1>6, <1>7
<1>10. BufferIsCurrentRevision'
  BY <1>3, <1>9 DEF BufferIsCurrentRevision, CommittedText
<1>11. "no undoreload" \notin Uses => Keeps(history, history')
  BY <1>4, <1>7, <1>8
<1>12. history' \in {history, n, p}
  BY <1>4
<1> QED BY <1>3, <1>10, <1>11, <1>12 DEF n, p, x

\* The history of the undo file is that of the text it was saved for.
UndoFileIsExact ==
    undofile.present =>
        /\ Chained(undofile.history)
        /\ undofile.history.rev[undofile.history.current].post = undofile.of

\* A history read back from an undo file ends at the text it did when saved.
LEMMA SnapshotChained ==
    ASSUME NEW T, NEW h, IsHistory(h, T), NEW now \in Nat, NEW g, g = from_snapshot(h, now),
           Chained(h)
    PROVE  Chained(g) /\ g.rev[g.current].post = h.rev[h.current].post
<1>1. /\ h.len \in Nat \ {0} /\ h.current \in 0 .. h.len - 1
      /\ h.rev[0].parent = 0
      /\ \A i \in 1 .. h.len - 1 : h.rev[i].parent \in 0 .. i - 1
  BY HistoryParts
<1>2. \A i \in 0 .. h.len - 1 : h.rev[i].parent \in 0 .. h.len - 1
  BY <1>1
<1>3. /\ g.len = h.len /\ g.current = h.current
      /\ \A i \in 0 .. h.len - 1 : /\ g.rev[i].parent = h.rev[i].parent
                                   /\ g.rev[i].pre = h.rev[i].pre
                                   /\ g.rev[i].post = h.rev[i].post
  <2>1. IsHistory(g, T) /\ g.len = h.len /\ g.current = h.current
    BY SnapshotTyped
  <2>2. ASSUME NEW i \in 0 .. h.len - 1
        PROVE  g.rev[i].parent = h.rev[i].parent /\ g.rev[i].pre = h.rev[i].pre
               /\ g.rev[i].post = h.rev[i].post
    BY <2>2, SnapshotTyped
  <2> QED BY <2>1, <2>2
<1> QED BY <1>1, <1>2, <1>3 DEF Chained

\* Opening a file brings back a history that ends at its text.
LEMMA OpenExact ==
    ASSUME TypeOK, SaveTypeOK, UndoFileIsExact, open_document
    PROVE  /\ undojoin_pending' = FALSE /\ BufferIsCurrentRevision'
           /\ \/ undofile.present /\ history' = from_snapshot(undofile.history, clock)
              \/ history' = NewHistory(disk.text, clock)
<1> DEFINE n == NewHistory(disk.text, clock)
           s == from_snapshot(undofile.history, clock)
<1>1. /\ disk.text \in Texts /\ clock \in Nat /\ IsHistory(undofile.history, Texts)
  BY DEF TypeOK, SaveTypeOK, File
<1>2. /\ text' = disk.text /\ changed' = FALSE /\ undojoin_pending' = FALSE
      /\ \/ undofile.present /\ undofile.of = disk.text /\ history' = s
         \/ history' = n
  BY DEF open_document
<1>3. Chained(n) /\ n.rev[n.current].post = disk.text
  BY <1>1, NewHistoryEnds
<1> HIDE DEF n
<1>4. ASSUME undofile.present, undofile.of = disk.text, history' = s
      PROVE  Chained(history') /\ history'.rev[history'.current].post = disk.text
  BY <1>1, <1>4, SnapshotChained DEF UndoFileIsExact
<1> HIDE DEF s
<1>5. Chained(history') /\ history'.rev[history'.current].post = text'
  BY <1>2, <1>3, <1>4
<1>6. BufferIsCurrentRevision'
  BY <1>2, <1>5 DEF BufferIsCurrentRevision, CommittedText
<1> QED BY <1>2, <1>6 DEF n, s

\* What :write asks for is the revision it leaves the buffer at.
LEMMA WriteParts ==
    ASSUME BufferExact, BufferIsCurrentRevision', NEW force, NEW auto_format,
           write_impl(force, auto_format)
    PROVE  /\ open /\ text' = text
           /\ saves' = saves \/ save(history'.current, force, FALSE)
           /\ UNCHANGED <<last_saved_revision, last_saved_time, disk, saving, open>>
           /\ text = history'.rev[history'.current].post
           /\ \/ undofile' = undofile
              \/ /\ "undofile" \in Uses /\ undofile'.present
                 /\ undofile'.of = text /\ undofile'.history = history'
BY DEF write_impl, BufferIsCurrentRevision, CommittedText

\* Only :write saves the undo file.
LEMMA UndoFileStep ==
    ASSUME [FileNext]_fileVars
    PROVE  \/ undofile' = undofile
           \/ \E force, auto_format \in BOOLEAN : write_impl(force, auto_format)
<1>1. CASE SaveStep
  BY <1>1, SaveStepKeeps
<1> QED BY <1>1 DEF FileNext, fileVars, saveVars, BufferStep, Followup, save_changed_docs,
                    ExternalWrite, Reload, auto_reload_file, reload, set_modified, close_document,
                    open_document

\* The inductive invariant: the undo file is as exact as the buffer.
FileExact ==
    /\ undojoin_pending = FALSE
    /\ BufferIsCurrentRevision
    /\ UndoFileIsExact
    /\ Queued

LEMMA FileExactStep ==
    ASSUME LevelChoices = {}, JoinOffered = FALSE, FileTypeOK, FileExact, [FileNext]_fileVars
    PROVE  FileExact'
<1>1. TypeOK /\ SaveTypeOK /\ BufferExact /\ undo_levels = 0
  BY FileTypeParts, Unbounded DEF FileExact, BufferExact
<1>2. undojoin_pending' = FALSE /\ BufferIsCurrentRevision'
  <2>1. CASE [Next]_docVars
    BY <1>1, <2>1, NoneJoined, StaysExact DEF FileExact
  <2>2. CASE Reloads
    <3>1. PICK v \in Views, w \in ViewType, others \in SUBSET Views : reload(v, w, others)
      BY <2>2 DEF Reloads
    <3>2. PICK pending \in BOOLEAN : ReloadBy(pending, v, w, others)
      BY <1>1, <3>1, ReloadParts
    <3> QED BY <1>1, <3>2, ReloadExact
  <2>3. CASE open_document
    BY <1>1, <2>3, OpenExact DEF FileExact
  <2> QED BY <1>1, <2>1, <2>2, <2>3, BufferSide
<1>3. Queued'
  BY <1>1, QueueStep DEF FileExact
<1>4. UndoFileIsExact'
  <2>1. CASE undofile' = undofile
    BY <2>1 DEF FileExact, UndoFileIsExact
  <2>2. ASSUME NEW force \in BOOLEAN, NEW auto_format \in BOOLEAN,
               write_impl(force, auto_format)
        PROVE  UndoFileIsExact'
    <3>1. /\ text = history'.rev[history'.current].post
          /\ \/ undofile' = undofile
             \/ undofile'.of = text /\ undofile'.history = history'
      BY <1>1, <1>2, <2>2, WriteParts
    <3>2. Chained(history')
      BY <1>2 DEF BufferIsCurrentRevision
    <3> QED BY <2>1, <3>1, <3>2 DEF UndoFileIsExact
  <2> QED BY <2>1, <2>2, UndoFileStep
<1> QED BY <1>2, <1>3, <1>4 DEF FileExact

LEMMA AlwaysFileExact ==
    ASSUME LevelChoices = {}, JoinOffered = FALSE
    PROVE  FileSpec => []FileExact
<1>1. FileInit => FileExact
  BY InitExact DEF FileInit, Init, Exact, FileExact, UndoFileIsExact, NoUndoFile, Queued,
                   Unfinished
<1>2. FileTypeOK /\ FileExact /\ [FileNext]_fileVars => FileExact'
  BY FileExactStep
<1> QED BY <1>1, <1>2, FileTypeCorrect, PTL DEF FileSpec

\* Undo, redo and time travel stay exact over files: whatever is saved, raced,
\* reloaded in the middle of a save, closed and opened again with an undo file,
\* the buffer is what the current revision recorded plus the uncommitted edits.
THEOREM FilesKeepUndoExact ==
    ASSUME LevelChoices = {}, JoinOffered = FALSE
    PROVE  FileSpec => []BufferIsCurrentRevision
<1>1. FileExact => BufferIsCurrentRevision
  BY DEF FileExact
<1> QED BY <1>1, AlwaysFileExact, PTL

-----------------------------------------------------------------------------
(* What an unmodified buffer has on disk. *)

\* How the editor is used when no write fails, there is no :set modified, and no
\* history that starts afresh over a queued save or comes from an undo file.
\* Reloads may come in the middle of a save, or else other processes may.
Steady ==
    /\ Uses \cap {"failure", "set modified", "no undoreload", "undofile"} = {}
    /\ "reload in save" \in Uses => Undisturbed

\* Revision r holds text t.
Holds(h, r, t) == r < h.len /\ t = h.rev[r].post

\* Save r names a revision, whose text it is unless it was mixed with edits.
InStep(h, r) == r.rev < h.len /\ (r.mixed \/ Holds(h, r.rev, r.text))

\* The inductive invariant.  Every save under way is of the text of its revision
\* or mixed.  Until a save writes the file, an unmixed file is at
\* last_saved_revision; from then on it is that save's.
OnDisk ==
    /\ ~undofile.present
    /\ \A i \in 1 .. Len(saves) : InStep(history, saves[i])
    /\ open => last_saved_revision < history.len
    /\ open /\ ~disk.unseen /\ ~disk.mixed /\ saving.at \in {"waiting", "checked"} =>
          Holds(history, last_saved_revision, disk.text)
    /\ ~disk.unseen \/ Undisturbed => (saving.at \in {"written", "stamped"} =>
          disk.text = Head(saves).text /\ disk.mixed = Head(saves).mixed)

\* What a revision holds, it holds in every history that keeps it.
LEMMA StillHolds ==
    ASSUME NEW T, NEW h, NEW g, IsHistory(h, T), IsHistory(g, T), Keeps(h, g),
           NEW r \in Nat, NEW t, Holds(h, r, t)
    PROVE  Holds(g, r, t)
<1>1. h.len \in Nat /\ g.len \in Nat
  BY DEF IsHistory
<1>2. r \in 0 .. h.len - 1
  BY <1>1 DEF Holds
<1> QED BY <1>1, <1>2 DEF Holds, Keeps

\* And a save stays in step with every such history.
LEMMA StaysInStep ==
    ASSUME NEW T, NEW h, NEW g, IsHistory(h, T), IsHistory(g, T), Keeps(h, g),
           NEW r \in SaveRequest, InStep(h, r)
    PROVE  InStep(g, r)
<1>1. r.rev \in Nat /\ h.len \in Nat /\ g.len \in Nat /\ h.len <= g.len
  BY DEF SaveRequest, IsHistory, Keeps
<1>2. Holds(h, r.rev, r.text) => Holds(g, r.rev, r.text)
  BY <1>1, StillHolds
<1> QED BY <1>1, <1>2 DEF InStep

\* The requests in the queue, and the one under way.
LEMMA QueueParts ==
    ASSUME SaveTypeOK
    PROVE  /\ \A i \in 1 .. Len(saves) : saves[i] \in SaveRequest /\ saves[i].rev \in Nat
           /\ Len(saves) \in Nat /\ last_saved_revision \in Nat
           /\ saves # << >> => /\ 1 \in 1 .. Len(saves) /\ Head(saves) = saves[1]
                               /\ Len(Tail(saves)) = Len(saves) - 1
                               /\ \A i \in 1 .. Len(saves) - 1 : Tail(saves)[i] = saves[i + 1]
<1>1. saves \in Seq(SaveRequest) /\ last_saved_revision \in Nat
  BY DEF SaveTypeOK
<1>2. \A i \in 1 .. Len(saves) : saves[i] \in SaveRequest
  BY <1>1, ElementOfSeq
<1>3. \A r \in SaveRequest : r.rev \in Nat
  BY DEF SaveRequest
<1>4. saves # << >> => /\ 1 \in 1 .. Len(saves) /\ Head(saves) = saves[1]
                       /\ Len(Tail(saves)) = Len(saves) - 1
                       /\ \A i \in 1 .. Len(saves) - 1 : Tail(saves)[i] = saves[i + 1]
  BY <1>1, HeadTailProperties, EmptySeq
<1> QED BY <1>1, <1>2, <1>3, <1>4

\* The queue stays so while revisions are kept and it only gets shorter.
LEMMA QueueHolds ==
    ASSUME SaveTypeOK, NEW h, IsHistory(h, Texts), IsHistory(history, Texts),
           Keeps(history, h),
           \A i \in 1 .. Len(saves) : InStep(history, saves[i]),
           NEW s, s = saves \/ (saves # << >> /\ s = Tail(saves))
    PROVE  \A i \in 1 .. Len(s) : InStep(h, s[i])
<1>1. \A i \in 1 .. Len(saves) : InStep(h, saves[i])
  <2> TAKE i \in 1 .. Len(saves)
  <2>1. saves[i] \in SaveRequest
    BY QueueParts
  <2> QED BY <2>1, StaysInStep
<1>2. CASE saves # << >> /\ s = Tail(saves)
  <2>1. Len(s) = Len(saves) - 1 /\ \A i \in 1 .. Len(saves) - 1 : s[i] = saves[i + 1]
        /\ Len(saves) \in Nat
    BY <1>2, QueueParts
  <2> TAKE i \in 1 .. Len(s)
  <2>2. i + 1 \in 1 .. Len(saves) /\ s[i] = saves[i + 1]
    BY <2>1
  <2> QED BY <1>1, <2>2
<1> QED BY <1>1, <1>2

\* The steps of a save.
LEMMA SaveStepOnDisk ==
    ASSUME Steady, FileTypeOK, Queued, OnDisk, SaveStep
    PROVE  OnDisk'
<1>1. /\ TypeOK /\ SaveTypeOK /\ IsHistory(history, Texts)
      /\ saving.at \in {"waiting", "checked", "created", "written", "stamped"}
      /\ disk.unseen \in BOOLEAN
  BY FileTypeParts DEF TypeOK, SaveTypeOK, File, Progress
<1>2. /\ UNCHANGED <<history, open, undofile>> /\ saves # << >> /\ open
      /\ saves' = saves \/ Finished
  BY <1>1, SaveStepKeeps, PhaseParts
     DEF SaveStep, At, Moves, Queued, Unfinished, docVars, bufferVars
<1>3. \A i \in 1 .. Len(saves') : InStep(history', saves'[i])
  <2>1. Keeps(history, history)
    BY <1>1 DEF Keeps, IsHistory
  <2> QED BY <1>1, <1>2, <2>1, QueueHolds DEF OnDisk, Finished
<1>4. InStep(history, Head(saves))
  BY <1>1, <1>2, QueueParts DEF OnDisk
<1>5. CASE SaveCheck
  <2>1. /\ At("waiting") /\ saving'.at \in {"waiting", "checked"}
        /\ UNCHANGED <<last_saved_revision, disk>>
    BY <1>1, <1>5, PhaseParts DEF Finished, Moves
  <2> QED BY <1>2, <1>3, <2>1 DEF OnDisk, At
<1>6. CASE SaveCreate
  <2>1. saving'.at = "created" /\ UNCHANGED last_saved_revision
    BY <1>1, <1>6, PhaseParts
  <2> QED BY <1>2, <1>3, <2>1 DEF OnDisk
<1>7. CASE SaveWrite
  <2>1. /\ saves' = saves /\ saving'.at = "written"
        /\ disk'.text = Head(saves).text /\ disk'.mixed = Head(saves).mixed
        /\ UNCHANGED last_saved_revision
    BY <1>1, <1>7, PhaseParts DEF Moves
  <2> QED BY <1>2, <1>3, <2>1 DEF OnDisk
<1>8. ~SaveFail
  BY <1>1, PhaseParts DEF Steady
<1>9. CASE SaveStat
  <2>1. /\ At("written") /\ saves' = saves /\ saving'.at = "stamped"
        /\ UNCHANGED <<last_saved_revision, disk>>
    BY <1>1, <1>9, PhaseParts
  <2> QED BY <1>2, <1>3, <2>1 DEF OnDisk, At
<1>10. CASE handle_document_write
  <2>1. /\ At("stamped") /\ Finished
        /\ last_saved_revision' = Head(saves).rev /\ disk' = disk
    BY <1>1, <1>10, PhaseParts
  <2>2. ~disk.unseen => disk.text = Head(saves).text /\ disk.mixed = Head(saves).mixed
    BY <2>1 DEF OnDisk, At
  <2>3. ~disk.unseen /\ ~disk.mixed => Holds(history, Head(saves).rev, disk.text)
    BY <1>4, <2>2 DEF InStep
  <2> QED BY <1>2, <1>3, <1>4, <2>1, <2>3 DEF OnDisk, Finished, InStep
<1> QED BY <1>5, <1>6, <1>7, <1>8, <1>9, <1>10 DEF SaveStep

\* A step that keeps the revisions and leaves the file and its saves alone.
LEMMA KeptOnDisk ==
    ASSUME FileTypeOK, FileTypeOK', OnDisk, Keeps(history, history'),
           UNCHANGED <<last_saved_revision, disk, saving, open, undofile>>,
           \A i \in 1 .. Len(saves') : InStep(history', saves'[i]),
           saving.at \in {"written", "stamped"} => Head(saves') = Head(saves)
    PROVE  OnDisk'
<1>1. /\ IsHistory(history, Texts) /\ IsHistory(history', Texts)
      /\ last_saved_revision \in Nat
  BY DEF FileTypeOK, TypeOK
<1>2. /\ open => last_saved_revision < history'.len
      /\ \A t : Holds(history, last_saved_revision, t)
                  => Holds(history', last_saved_revision, t)
  <2>1. \A t : Holds(history, last_saved_revision, t)
                 => Holds(history', last_saved_revision, t)
    BY <1>1, StillHolds
  <2>2. history.len <= history'.len /\ history.len \in Nat /\ history'.len \in Nat
    BY <1>1 DEF Keeps, IsHistory
  <2> QED BY <1>1, <2>1, <2>2 DEF OnDisk
<1> QED BY <1>2 DEF OnDisk

\* A request for the revision the buffer is at, unless it has edits besides.
LEMMA RequestOnDisk ==
    ASSUME FileTypeOK, FileTypeOK', Queued, OnDisk, Keeps(history, history'),
           NEW rev, NEW force, NEW mixed, save(rev, force, mixed),
           UNCHANGED <<last_saved_revision, disk, saving, open, undofile>>,
           rev < history'.len, mixed \/ Holds(history', rev, text)
    PROVE  OnDisk'
<1> DEFINE L == Len(saves)
<1>1. /\ SaveTypeOK /\ IsHistory(history, Texts) /\ IsHistory(history', Texts)
  BY FileTypeParts DEF FileTypeOK, TypeOK
<1>2. /\ Len(saves') = L + 1 /\ L \in Nat
      /\ saves # << >> => Head(saves') = Head(saves)
      /\ \A i \in 1 .. L : saves'[i] = saves[i]
      /\ saves'[L + 1] = [text |-> text, rev |-> rev, force |-> force, mixed |-> mixed]
  BY <1>1, RequestParts, QueueParts
<1>3. \A i \in 1 .. L : InStep(history', saves[i])
  BY <1>1, QueueHolds DEF OnDisk
<1> HIDE DEF L
<1>4. \A i \in 1 .. Len(saves') : InStep(history', saves'[i])
  <2> TAKE i \in 1 .. Len(saves')
  <2>1. CASE i = L + 1
    BY <1>2, <2>1 DEF InStep
  <2>2. CASE i \in 1 .. L
    BY <1>2, <1>3, <2>2
  <2> QED BY <1>2, <2>1, <2>2
<1> QED BY <1>2, <1>4, KeptOnDisk DEF Queued

\* Reloading: the file is then at the revision the buffer is.
LEMMA ReloadOnDisk ==
    ASSUME LevelChoices = {}, Steady, FileTypeOK, FileTypeOK', BufferExact, Queued, OnDisk,
           open, Reloads
    PROVE  OnDisk'
<1>1. /\ SaveTypeOK /\ TypeOK /\ IsHistory(history, Texts) /\ IsHistory(history', Texts)
      /\ saving.at \in {"waiting", "checked", "created", "written", "stamped"}
  BY FileTypeParts DEF FileTypeOK, TypeOK, SaveTypeOK, Progress
<1>2. PICK v \in Views, w \in ViewType, others \in SUBSET Views : reload(v, w, others)
  BY DEF Reloads
<1>3. PICK pending \in BOOLEAN : ReloadBy(pending, v, w, others)
  BY <1>1, <1>2, ReloadParts
<1>4. /\ last_saved_revision' = history'.current
      /\ text' = disk.text /\ changed' = FALSE
      /\ disk' = [disk EXCEPT !.unseen = FALSE, !.mixed = @ /\ saving.at # "waiting"]
      /\ Undisturbed \/ saving.at = "waiting"
      /\ UNCHANGED <<saves, saving, open, undofile>>
  BY <1>3 DEF ReloadBy, Steady
<1>5. /\ disk'.text = disk.text /\ disk'.unseen = FALSE
      /\ disk'.mixed = (disk.mixed /\ saving.at # "waiting")
      /\ disk.mixed \in BOOLEAN
  BY <1>1, <1>4 DEF SaveTypeOK, File
<1>6. BufferIsCurrentRevision' /\ Keeps(history, history')
  BY <1>1, <1>3, ReloadExact DEF Steady
<1>7. Holds(history', last_saved_revision', disk'.text)
  <2>1. history'.current \in 0 .. history'.len - 1 /\ history'.len \in Nat
    BY <1>1, HistoryParts
  <2> QED BY <1>4, <1>5, <1>6, <2>1 DEF Holds, BufferIsCurrentRevision, CommittedText
<1>8. \A i \in 1 .. Len(saves) : InStep(history', saves[i])
  BY <1>1, <1>6, QueueHolds DEF OnDisk
<1> QED BY <1>4, <1>5, <1>7, <1>8 DEF OnDisk, Holds, Undisturbed

LEMMA OnDiskStep ==
    ASSUME LevelChoices = {}, JoinOffered = FALSE, Steady,
           FileTypeOK, FileExact, OnDisk, [FileNext]_fileVars
    PROVE  OnDisk'
<1>1. /\ FileTypeOK' /\ FileExact' /\ Queued /\ BufferExact /\ TypeOK /\ SaveTypeOK
      /\ IsHistory(history, Texts) /\ IsHistory(history', Texts)
  BY FileStepTyped, FileExactStep, FileTypeParts
     DEF FileExact, BufferExact, FileTypeOK, TypeOK
<1>2. Keeps(history, history)
  BY <1>1 DEF Keeps, IsHistory
<1>3. ASSUME NEW s, s = saves, Keeps(history, history')
      PROVE  \A i \in 1 .. Len(s) : InStep(history', s[i])
  BY <1>1, <1>3, QueueHolds DEF OnDisk
<1>4. CASE BufferStep \/ UNCHANGED fileVars
  <2>1. /\ [Next]_docVars
        /\ UNCHANGED <<last_saved_revision, disk, saves, saving, open, undofile>>
    BY <1>4 DEF BufferStep, fileVars, saveVars
  <2>2. Keeps(history, history')
    BY <1>1, <2>1, StepKeeps
  <2> QED BY <1>1, <1>3, <2>1, <2>2, KeptOnDisk
<1>5. ASSUME NEW force \in BOOLEAN, NEW auto_format \in BOOLEAN,
             write_impl(force, auto_format)
      PROVE  OnDisk'
  <2>1. /\ saves' = saves \/ save(history'.current, force, FALSE)
        /\ text = history'.rev[history'.current].post
        /\ undofile' = undofile
        /\ UNCHANGED <<last_saved_revision, disk, saving, open>>
    BY <1>1, <1>5, WriteParts DEF FileExact, Steady
  <2>2. Keeps(history, history')
    BY <1>1, <1>5, WriteIsBufferStep, StepKeeps
  <2>3. Holds(history', history'.current, text) /\ history'.current < history'.len
    <3>1. history'.current \in 0 .. history'.len - 1 /\ history'.len \in Nat
      BY <1>1, HistoryParts
    <3> QED BY <2>1, <3>1 DEF Holds
  <2>4. CASE saves' = saves
    BY <1>1, <1>3, <2>1, <2>2, <2>4, KeptOnDisk
  <2>5. CASE save(history'.current, force, FALSE)
    BY <1>1, <2>1, <2>2, <2>3, <2>5, RequestOnDisk
  <2> QED BY <2>1, <2>4, <2>5
<1>12. ASSUME NEW force \in BOOLEAN, save(history.current, force, changed),
              UNCHANGED <<history, last_saved_revision, disk, saving, open, undofile>>
       PROVE  OnDisk'
  <2>1. history.current < history.len
    <3>1. history.current \in 0 .. history.len - 1 /\ history.len \in Nat
      BY <1>1, HistoryParts
    <3> QED BY <3>1
  <2>2. changed \/ Holds(history, history.current, text)
    BY <2>1 DEF FileExact, BufferIsCurrentRevision, CommittedText, Holds
  <2> QED BY <1>1, <1>2, <1>12, <2>1, <2>2, RequestOnDisk
<1>13. CASE save_changed_docs
  BY <1>12, <1>13 DEF save_changed_docs, docVars, bufferVars
<1>14. ASSUME NEW force \in BOOLEAN, Followup(force) PROVE OnDisk'
  BY <1>12, <1>14 DEF Followup, docVars, bufferVars
<1>6. CASE SaveStep
  BY <1>1, <1>6, SaveStepOnDisk
<1>7. ASSUME NEW t \in Text, ExternalWrite(t) PROVE OnDisk'
  <2>1. /\ disk' = [disk EXCEPT !.text = t, !.mtime = @ + 1, !.unseen = TRUE,
                                !.mixed = FALSE]
        /\ Undisturbed => saving.at = "waiting"
        /\ UNCHANGED <<history, last_saved_revision, saves, saving, open, undofile>>
    BY <1>7 DEF ExternalWrite, Undisturbed, docVars, bufferVars
  <2>2. disk'.unseen = TRUE
    BY <1>1, <2>1 DEF SaveTypeOK, File
  <2> QED BY <2>1, <2>2 DEF OnDisk
<1>8. CASE Reload \/ auto_reload_file
  BY <1>1, <1>8, BothReload, ReloadOnDisk
<1>9. CASE close_document
  <2>1. /\ saves = << >> /\ open' = FALSE
        /\ UNCHANGED <<history, last_saved_revision, disk, saves, saving, undofile>>
    BY <1>9 DEF close_document, Unfinished, docVars, bufferVars
  <2> QED BY <2>1 DEF OnDisk
<1>10. CASE open_document
  <2>1. /\ ~open /\ last_saved_revision' = 0
        /\ disk' = [disk EXCEPT !.unseen = FALSE, !.mixed = FALSE]
        /\ history' = NewHistory(disk.text, clock)
        /\ UNCHANGED <<saves, saving, undofile>>
    BY <1>10 DEF open_document, OnDisk
  <2>2. saves = << >> /\ saving.at = "waiting" /\ Len(saves) = 0
    BY <1>1, <2>1 DEF Queued, Unfinished
  <2>3. disk'.text = disk.text
    BY <1>1, <2>1 DEF SaveTypeOK, File
  <2>4. Holds(history', 0, disk.text)
    BY <2>1 DEF Holds, NewHistory
  <2>5. 0 < history'.len
    BY <2>4 DEF Holds
  <2>6. saves' = << >> /\ saving'.at = "waiting" /\ ~undofile'.present
    BY <2>1, <2>2 DEF OnDisk
  <2>7. Holds(history', last_saved_revision', disk'.text)
    BY <2>1, <2>3, <2>4
  <2>8. last_saved_revision' < history'.len
    BY <2>1, <2>5
  <2> QED BY <2>6, <2>7, <2>8 DEF OnDisk
<1>11. \A modified \in BOOLEAN : ~set_modified(modified)
  BY DEF set_modified, Steady
<1> QED BY <1>4, <1>5, <1>6, <1>7, <1>8, <1>9, <1>10, <1>11, <1>13, <1>14 DEF FileNext

\* An unmodified buffer is on disk, unless the file was last saved with edits
\* that were not committed: whatever edits, undos, reloads and deferred, queued
\* or automatic saves led to it, in whatever order, closing it or reloading over
\* it loses nothing.
THEOREM UnmodifiedIsSaved ==
    ASSUME LevelChoices = {}, JoinOffered = FALSE, Steady
    PROVE  FileSpec => []UnmodifiedMeansSavedUnlessMixed
<1>1. FileInit => OnDisk
  <2> SUFFICES ASSUME FileInit PROVE OnDisk
    OBVIOUS
  <2>1. /\ ~undofile.present /\ saves = << >> /\ Len(saves) = 0 /\ saving.at = "waiting"
        /\ last_saved_revision = 0 /\ disk.text = text /\ history = NewHistory(text, 0)
    BY DEF FileInit, Init, NoUndoFile
  <2>2. Holds(history, 0, text)
    BY <2>1 DEF Holds, NewHistory
  <2> QED BY <2>1, <2>2 DEF OnDisk, Holds
<1>2. FileTypeOK /\ FileExact /\ OnDisk /\ [FileNext]_fileVars => OnDisk'
  BY OnDiskStep
<1>3. FileExact /\ OnDisk => UnmodifiedMeansSavedUnlessMixed
  <2> SUFFICES ASSUME FileExact, OnDisk, open, ~is_modified, saves = << >>, ~disk.unseen,
                      ~disk.mixed
               PROVE  text = disk.text
    BY DEF UnmodifiedMeansSavedUnlessMixed, UnmodifiedMeansSaved
  <2>1. ~changed /\ history.current = last_saved_revision /\ saving.at = "waiting"
    BY DEF is_modified, FileExact, Queued
  <2>2. disk.text = history.rev[history.current].post
    BY <2>1 DEF OnDisk, Holds
  <2> QED BY <2>1, <2>2 DEF FileExact, BufferIsCurrentRevision, CommittedText
<1> QED BY <1>1, <1>2, <1>3, FileTypeCorrect, AlwaysFileExact, PTL DEF FileSpec

-----------------------------------------------------------------------------
(* Whole files. *)

\* How the editor is used when it does not reload while a save is under way.
ReloadsWait == "reload in save" \notin Uses

\* The inductive invariant.  Until a failed write leaves a wreck, no half-written
\* text gets into the buffer, its revisions, the undo file or a request, and the
\* backup of the file that a save is writing is whole.
Whole ==
    /\ text \in Text
    /\ changed => old_state \in Text
    /\ IsHistory(history, Text)
    /\ undofile.present => IsHistory(undofile.history, Text)
    /\ \A i \in 1 .. Len(saves) : saves[i].text \in Text
    /\ saving.at # "created" => disk.text \in Text
    /\ saving.at = "created" => saving.old.text \in Text

WholeUnlessBare ==
    /\ saving.at = "created" => saving.old.bare = disk.bare
    /\ ~disk.bare => Whole

\* The texts of a history are those of its revisions, not where it stands.
LEMMA SameRevisionsTyped ==
    ASSUME NEW S, NEW T, NEW h, NEW g, IsHistory(h, S), IsHistory(g, T),
           h.len = g.len, h.rev = g.rev
    PROVE  IsHistory(h, T)
BY DEF IsHistory

\* A step of the buffer keeps its texts whole.
LEMMA WholeBuffer ==
    ASSUME LevelChoices = {}, BufferExact, TypeOK', BufferIsCurrentRevision', [Next]_docVars,
           text \in Text, changed => old_state \in Text, IsHistory(history, Text)
    PROVE  /\ text' \in Text /\ IsHistory(history', Text)
           /\ changed' => old_state' \in Text
<1>1. /\ IsHistory(history', Texts) /\ clock \in Nat /\ TypeOK
      /\ changed \in BOOLEAN /\ changed' \in BOOLEAN
  BY DEF BufferExact, TypeOK
<1>2. IsHistory(history', Text)
  <2>1. CASE RevisionsOf(history)
    BY <1>1, <2>1, SameRevisionsTyped DEF RevisionsOf
  <2>2. CASE changed /\ RevisionsOf(Pushed(history, PendingTxn, clock))
    <3>1. PendingTxn \in Txn(Text)
      BY <2>2 DEF PendingTxn, Txn
    <3>2. IsHistory(Pushed(history, PendingTxn, clock), Text)
      BY <1>1, <3>1, PushedTyped
    <3> QED BY <1>1, <2>2, <3>2, SameRevisionsTyped DEF RevisionsOf
  <2> QED BY <2>1, <2>2, StepKeeps
<1>3. ~changed' => text' \in Text
  <2>1. history'.current \in 0 .. history'.len - 1
        /\ \A i \in 0 .. history'.len - 1 : history'.rev[i] \in Revision(Text)
    BY <1>2, HistoryParts
  <2>2. history'.rev[history'.current].post \in Text
    BY <2>1 DEF Revision
  <2> QED BY <2>2 DEF BufferIsCurrentRevision, CommittedText
<1>4. PICK a : Kind(a)
  BY <1>1, StepKinds
<1>5. \/ ~changed'
      \/ \E t \in Text : Edit(t)
      \/ UNCHANGED <<text, changed, old_state, history>>
  BY <1>4 DEF Kind, Recorded, Moved
<1> QED BY <1>1, <1>2, <1>3, <1>5 DEF Edit

\* A reload takes over the text of a whole file.
LEMMA WholeReload ==
    ASSUME LevelChoices = {}, FileTypeOK, FileExact, Whole, ReloadsWait,
           Reloads
    PROVE  Whole'
<1>1. TypeOK /\ SaveTypeOK /\ BufferExact /\ clock \in Nat
  BY FileTypeParts DEF BufferExact, FileExact, TypeOK
<1>2. PICK v \in Views, w \in ViewType, others \in SUBSET Views : reload(v, w, others)
  BY DEF Reloads
<1>3. PICK pending \in BOOLEAN : ReloadBy(pending, v, w, others)
  BY <1>1, <1>2, ReloadParts
<1>4. /\ text' = disk.text /\ changed' = FALSE
      /\ disk' = [disk EXCEPT !.unseen = FALSE, !.mixed = @ /\ saving.at # "waiting"]
      /\ saving.at = "waiting"
      /\ UNCHANGED <<saves, saving, undofile>>
  BY <1>3 DEF ReloadBy, ReloadsWait
<1>5. disk.text \in Text /\ CommittedText \in Text
  BY <1>4 DEF Whole, CommittedText
<1>6. disk'.text = disk.text
  BY <1>1, <1>4 DEF SaveTypeOK, File
<1>7. IsHistory(history', Text)
  <2> DEFINE x == [pre |-> CommittedText, post |-> disk.text]
  <2>1. x \in Txn(Text)
    BY <1>5 DEF Txn
  <2>2. history' \in {history, NewHistory(disk.text, clock), Pushed(history, x, clock)}
    BY <1>1, <1>3, ReloadExact
  <2> HIDE DEF x
  <2>3. IsHistory(NewHistory(disk.text, clock), Text) /\ IsHistory(Pushed(history, x, clock), Text)
    BY <1>1, <1>5, <2>1, NewHistoryTyped, PushedTyped DEF Whole
  <2> QED BY <2>2, <2>3 DEF Whole
<1> QED BY <1>4, <1>5, <1>6, <1>7 DEF Whole

\* The steps of a save put back or finish what they left half-written.
LEMMA WholeSaveStep ==
    ASSUME FileTypeOK, Whole, SaveStep, ~disk'.bare
    PROVE  Whole'
<1>1. /\ SaveTypeOK
      /\ saving.at \in {"waiting", "checked", "created", "written", "stamped"}
  BY FileTypeParts DEF SaveTypeOK, Progress
<1>2. /\ UNCHANGED <<text, changed, old_state, history, undofile>> /\ saves # << >>
      /\ saves' = saves \/ Finished
  BY <1>1, SaveStepKeeps, PhaseParts DEF SaveStep, At, Moves, docVars, bufferVars
<1>3. /\ \A i \in 1 .. Len(saves') : saves'[i].text \in Text
      /\ Head(saves).text \in Text
  <2>1. CASE saves' = Tail(saves)
    <3>1. /\ Len(saves') = Len(saves) - 1 /\ Len(saves) \in Nat
          /\ \A i \in 1 .. Len(saves) - 1 : saves'[i] = saves[i + 1]
      BY <1>1, <1>2, <2>1, QueueParts
    <3>2. \A i \in 1 .. Len(saves') : i + 1 \in 1 .. Len(saves) /\ saves'[i] = saves[i + 1]
      BY <3>1
    <3> QED BY <1>1, <1>2, <3>2, QueueParts DEF Whole
  <2>2. CASE saves' = saves
    BY <1>1, <1>2, <2>2, QueueParts DEF Whole
  <2> QED BY <1>2, <2>1, <2>2 DEF Finished
<1>4. /\ saving'.at # "created" => disk'.text \in Text
      /\ saving'.at = "created" => saving'.old.text \in Text
  <2>1. CASE SaveCheck
    BY <1>1, <2>1, PhaseParts DEF Whole, At, Finished, Moves
  <2>2. CASE SaveCreate
    BY <1>1, <2>2, PhaseParts DEF Whole, At
  <2>3. CASE SaveWrite
    BY <1>1, <1>3, <2>3, PhaseParts DEF Whole, At, Moves
  <2>4. CASE SaveFail
    BY <1>1, <2>4, PhaseParts DEF Whole, At, Finished
  <2>5. CASE SaveStat
    BY <1>1, <2>5, PhaseParts DEF Whole, At
  <2>6. CASE handle_document_write
    BY <1>1, <2>6, PhaseParts DEF Whole, At, Finished
  <2> QED BY <2>1, <2>2, <2>3, <2>4, <2>5, <2>6 DEF SaveStep
<1> QED BY <1>2, <1>3, <1>4 DEF Whole

\* A request is for the text of the buffer.
LEMMA WholeRequest ==
    ASSUME SaveTypeOK, text \in Text, \A i \in 1 .. Len(saves) : saves[i].text \in Text,
           NEW rev, NEW force, NEW mixed, save(rev, force, mixed)
    PROVE  \A i \in 1 .. Len(saves') : saves'[i].text \in Text
<1> DEFINE L == Len(saves)
           Good(r) == r.text \in Text
<1>1. /\ L \in Nat /\ Len(saves') = L + 1
      /\ \A i \in 1 .. L : saves'[i] = saves[i]
      /\ saves'[L + 1] = [text |-> text, rev |-> rev, force |-> force, mixed |-> mixed]
  BY RequestParts, QueueParts
<1>2. Good(saves'[L + 1]) /\ \A i \in 1 .. L : Good(saves[i])
  BY <1>1
<1> HIDE DEF L, Good
<1>3. \A i \in 1 .. L + 1 : i = L + 1 \/ i \in 1 .. L
  BY <1>1
<1>4. \A i \in 1 .. L + 1 : Good(saves'[i])
  BY <1>1, <1>2, <1>3
<1> QED BY <1>1, <1>4 DEF Good

LEMMA WholeStep ==
    ASSUME LevelChoices = {}, JoinOffered = FALSE, ReloadsWait,
           FileTypeOK, FileExact, Whole, [FileNext]_fileVars, ~disk'.bare
    PROVE  Whole'
<1>1. /\ FileTypeOK' /\ FileExact' /\ TypeOK' /\ Queued /\ BufferExact /\ TypeOK
      /\ SaveTypeOK /\ clock \in Nat /\ disk.text \in Texts
  BY FileStepTyped, FileExactStep, FileTypeParts
     DEF FileExact, BufferExact, FileTypeOK, TypeOK, SaveTypeOK, File
<1>2. ASSUME [Next]_docVars
      PROVE  /\ text' \in Text /\ IsHistory(history', Text)
             /\ changed' => old_state' \in Text
  BY <1>1, <1>2, WholeBuffer DEF Whole, FileExact
<1>3. ASSUME [Next]_docVars, UNCHANGED <<disk, saves, saving, undofile>> PROVE Whole'
  BY <1>2, <1>3 DEF Whole
<1>4. ASSUME [Next]_docVars, UNCHANGED <<disk, saving>>,
             saves' = saves \/ \E rev, force, mixed : save(rev, force, mixed),
             undofile' = undofile \/ undofile'.history = history'
      PROVE  Whole'
  <2>1. \A i \in 1 .. Len(saves') : saves'[i].text \in Text
    BY <1>1, <1>4, WholeRequest DEF Whole
  <2> QED BY <1>2, <1>4, <2>1 DEF Whole
<1>5. CASE BufferStep \/ UNCHANGED fileVars \/ \E modified \in BOOLEAN : set_modified(modified)
           \/ close_document
  BY <1>3, <1>5 DEF BufferStep, fileVars, saveVars, set_modified, close_document
<1>6. ASSUME NEW force \in BOOLEAN, NEW auto_format \in BOOLEAN,
             write_impl(force, auto_format)
      PROVE  Whole'
  BY <1>1, <1>4, <1>6, WriteParts, WriteIsBufferStep DEF FileExact
<1>7. CASE save_changed_docs
  BY <1>4, <1>7 DEF save_changed_docs
<1>12. ASSUME NEW force \in BOOLEAN, Followup(force) PROVE Whole'
  BY <1>4, <1>12 DEF Followup
<1>8. CASE SaveStep
  BY <1>8, WholeSaveStep
<1>9. ASSUME NEW t \in Text, ExternalWrite(t) PROVE Whole'
  <2>1. /\ disk' = [disk EXCEPT !.text = t, !.mtime = @ + 1, !.unseen = TRUE,
                                !.mixed = FALSE]
        /\ UNCHANGED <<text, changed, old_state, history, saves, saving, undofile>>
    BY <1>9 DEF ExternalWrite, docVars, bufferVars
  <2>2. disk'.text \in Text
    BY <1>1, <2>1 DEF SaveTypeOK, File
  <2> QED BY <2>1, <2>2 DEF Whole
<1>10. CASE Reload \/ auto_reload_file
  BY <1>1, <1>10, BothReload, WholeReload
<1>11. CASE open_document
  <2>1. /\ ~open /\ text' = disk.text /\ changed' = FALSE
        /\ disk' = [disk EXCEPT !.unseen = FALSE, !.mixed = FALSE]
        /\ UNCHANGED <<saves, saving, undofile>>
    BY <1>11 DEF open_document
  <2>2. saving.at = "waiting" /\ disk.text \in Text
    BY <1>1, <2>1 DEF Queued, Unfinished, Whole
  <2>3. disk'.text = disk.text
    BY <1>1, <2>1 DEF SaveTypeOK, File
  <2>4. IsHistory(history', Text)
    <3>1. \/ undofile.present /\ history' = from_snapshot(undofile.history, clock)
          \/ history' = NewHistory(disk.text, clock)
      BY <1>1, <1>11, OpenExact DEF FileExact
    <3> QED BY <1>1, <2>2, <3>1, NewHistoryTyped, SnapshotTyped DEF Whole
  <2> QED BY <2>1, <2>2, <2>3, <2>4 DEF Whole
<1> QED BY <1>5, <1>6, <1>7, <1>8, <1>9, <1>10, <1>11, <1>12 DEF FileNext

\* A wreck stays one, and a backup is one where the file was.
LEMMA BareStep ==
    ASSUME FileTypeOK, [FileNext]_fileVars,
           saving.at = "created" => saving.old.bare = disk.bare
    PROVE  /\ saving'.at = "created" => saving'.old.bare = disk'.bare
           /\ disk.bare => disk'.bare
<1>1. /\ TypeOK /\ SaveTypeOK /\ disk \in File
      /\ saving.at \in {"waiting", "checked", "created", "written", "stamped"}
  BY FileTypeParts DEF SaveTypeOK, Progress
<1>2. ASSUME disk'.bare = disk.bare, saving' = saving
      PROVE  (saving'.at = "created" => saving'.old.bare = disk'.bare)
             /\ (disk.bare => disk'.bare)
  BY <1>2
<1>3. CASE SaveStep
  BY <1>1, <1>3, PhaseParts DEF SaveStep, At, Moves, Finished
<1>4. ASSUME NEW t \in Text, ExternalWrite(t) PROVE disk'.bare = disk.bare /\ saving' = saving
  <2>1. disk' = [disk EXCEPT !.text = t, !.mtime = @ + 1, !.unseen = TRUE, !.mixed = FALSE]
        /\ saving' = saving
    BY <1>4 DEF ExternalWrite
  <2> QED BY <1>1, <2>1 DEF File
<1>5. CASE Reload \/ auto_reload_file
  <2>1. PICK v \in Views, w \in ViewType, others \in SUBSET Views : reload(v, w, others)
    BY <1>1, <1>5, BothReload DEF Reloads
  <2>2. disk' = [disk EXCEPT !.unseen = FALSE, !.mixed = @ /\ saving.at # "waiting"]
        /\ saving' = saving
    BY <2>1 DEF reload
  <2>3. disk'.bare = disk.bare
    BY <1>1, <2>2 DEF File
  <2> QED BY <1>2, <2>2, <2>3
<1>6. CASE open_document
  <2>1. disk' = [disk EXCEPT !.unseen = FALSE, !.mixed = FALSE] /\ saving' = saving
    BY <1>6 DEF open_document
  <2>2. disk'.bare = disk.bare
    BY <1>1, <2>1 DEF File
  <2> QED BY <1>2, <2>1, <2>2
<1>7. CASE Asks
  BY <1>2, <1>7 DEF Asks, write_impl, Followup, save_changed_docs
<1> QED BY <1>2, <1>3, <1>4, <1>5, <1>6, <1>7
        DEF FileNext, Asks, BufferStep, fileVars, saveVars, set_modified, close_document

\* The file is whole whenever no save is writing it, until a write fails and no
\* backup is put back: for any number of saves, deferred or not, however many
\* failed half-way, were retried or raced another process's write, autosaves and
\* undo files included.
THEOREM FilesAreWhole ==
    ASSUME LevelChoices = {}, JoinOffered = FALSE, ReloadsWait
    PROVE  FileSpec => []FileIsWholeBetweenWrites
<1>1. FileInit => WholeUnlessBare
  <2> SUFFICES ASSUME FileInit PROVE WholeUnlessBare
    OBVIOUS
  <2>1. /\ ~undofile.present /\ saves = << >> /\ Len(saves) = 0 /\ saving.at = "waiting"
        /\ text \in Text /\ changed = FALSE
        /\ disk.text = text /\ history = NewHistory(text, 0)
    BY DEF FileInit, Init, NoUndoFile
  <2>2. IsHistory(history, Text)
    BY <2>1, NewHistoryTyped
  <2> QED BY <2>1, <2>2 DEF Whole, WholeUnlessBare
<1>2. FileTypeOK /\ FileExact /\ WholeUnlessBare /\ [FileNext]_fileVars => WholeUnlessBare'
  <2> SUFFICES ASSUME FileTypeOK, FileExact, WholeUnlessBare, [FileNext]_fileVars
               PROVE  WholeUnlessBare'
    OBVIOUS
  <2>1. /\ saving'.at = "created" => saving'.old.bare = disk'.bare
        /\ ~disk'.bare => ~disk.bare
    BY BareStep DEF WholeUnlessBare
  <2>2. ~disk'.bare => Whole'
    BY <2>1, WholeStep DEF WholeUnlessBare
  <2> QED BY <2>1, <2>2 DEF WholeUnlessBare
<1>3. WholeUnlessBare => FileIsWholeBetweenWrites
  BY DocumentAssumption DEF WholeUnlessBare, Whole, FileIsWholeBetweenWrites
<1> QED BY <1>1, <1>2, <1>3, FileTypeCorrect, AlwaysFileExact, PTL DEF FileSpec
=============================================================================
