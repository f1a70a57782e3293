------------------------------ MODULE FileSave ------------------------------
(***************************************************************************)
(* Saving a buffer to its file: save_impl and reload of                    *)
(* zmax-view/src/document.rs, the save queue of zmax-view/src/editor.rs,   *)
(* :write and autosave of zmax-term, over the buffer of module Document.   *)
(*                                                                         *)
(* A save captures text and revision when it is queued.  Its future runs   *)
(* later, one at a time per buffer, in steps between which keys, reloads   *)
(* and other processes may come.  With editor.auto-format, :write only     *)
(* leaves a job behind, and the save is queued when that job is run.       *)
(***************************************************************************)
EXTENDS Document

CONSTANTS
    Uses,       \* what the user, the configuration and other processes do
    MaxSaves,   \* bound: saves asked for
    MaxMtime    \* bound: other processes write no file newer than this

Features ==
    {"force",         \* :w!
     "autosave",      \* editor.auto-save
     "auto-format",   \* editor.auto-format, which :write --no-format passes by
     "set modified",  \* :set modified and :set nomodified
     "reload",        \* :reload and auto-reload
     "reload in save",\* the same while a save is under way
     "no undoreload", \* the file is larger than 'undoreload': reload resets undo
     "undofile",      \* :set undofile
     "external",      \* other processes write the file
     "race",          \* the same while a save is under way
     "failure",       \* a write, its backup and putting that back may fail
     "atomic"}        \* editor.atomic-save

ASSUME FileSaveAssumption ==
    Uses \subseteq Features /\ MaxSaves \in Nat /\ MaxMtime \in Nat

VARIABLES
    last_saved_revision,
    last_saved_time,
    disk,        \* the file: its text, its mtime, whether that text is another
                 \* process's that the editor has not loaded; mixed: it was
                 \* saved with edits its revision does not hold; bare: a write
                 \* of it has failed without its backup being put back
    deferred,    \* jobs left by :write (FALSE) and :write! (TRUE), not yet run
    saves,       \* the saves queued and not finished, oldest first
    saving,      \* how far the oldest one is, the file it found, whether it
                 \* made a backup, and the mtime it read after writing
    requested,   \* saves asked for so far
    open,        \* the buffer is open
    undofile     \* the undo file: the text it is for, and the history

saveVars == <<last_saved_revision, last_saved_time, disk, deferred, saves, saving,
              requested, open, undofile>>
fileVars == <<docVars, saveVars>>

NoUndoFile == [present |-> FALSE, of |-> Garbled, history |-> NewHistory(Garbled, 0)]

FileInit ==
    /\ Init
    /\ last_saved_revision = 0
    /\ last_saved_time = 0
    /\ disk = [text |-> text, mtime |-> 0, unseen |-> FALSE, mixed |-> FALSE, bare |-> FALSE]
    /\ deferred = [force \in BOOLEAN |-> 0]
    /\ saves = << >>
    /\ saving = [at |-> "waiting", old |-> disk, backup |-> FALSE, stamp |-> 0]
    /\ requested = 0
    /\ open = TRUE
    /\ undofile = NoUndoFile

is_modified == history.current # last_saved_revision \/ changed

is_changed_on_disk == last_saved_time < disk.mtime

-----------------------------------------------------------------------------
(* Asking for a save. *)

Request == requested < MaxSaves /\ requested' = requested + 1

\* Editor::save: the text and the revision as they are now.
save(rev, force, mixed) ==
    saves' = Append(saves, [text |-> text, rev |-> rev, force |-> force, mixed |-> mixed])

\* :write and :write!.  The pending edits are committed first.  Then the save is
\* queued, or left to a job if the buffer is to be formatted, and :write saves
\* the undo file.
write_impl(force, auto_format) ==
    /\ open
    /\ force => "force" \in Uses
    /\ auto_format => "auto-format" \in Uses
    /\ Request
    /\ LET a == Appended(undojoin_pending)
       IN  /\ history' = a.history
           /\ views' = [views EXCEPT ![focus] = a.view]
           /\ IF auto_format
              THEN /\ deferred' = [deferred EXCEPT ![force] = @ + 1]
                   /\ UNCHANGED saves
              ELSE /\ save(a.history.current, force, FALSE)
                   /\ UNCHANGED deferred
           /\ undofile' = IF "undofile" \in Uses /\ ~force
                          THEN [present |-> TRUE, of |-> text, history |-> a.history]
                          ELSE undofile
    /\ changed' = FALSE
    /\ JoinAfterAppend
    /\ UNCHANGED <<text, old_state, focus, crashed, levelVars, clock,
                   last_saved_revision, last_saved_time, disk, saving, open>>

\* The job left by :write, in the order the loop takes the jobs up, after any
\* keys typed by then: it commits nothing.  A formatter delays the save further
\* and edits and commits before it, which Edit and append_changes_to_history do.
Followup(force) ==
    /\ deferred[force] > 0
    /\ deferred' = [deferred EXCEPT ![force] = @ - 1]
    /\ save(history.current, force, changed)
    /\ UNCHANGED <<docVars, last_saved_revision, last_saved_time, disk, saving,
                   requested, open, undofile>>

\* Autosave leaves the pending edits uncommitted.
save_changed_docs ==
    /\ open
    /\ "autosave" \in Uses
    /\ is_modified
    /\ Request
    /\ save(history.current, FALSE, changed)
    /\ UNCHANGED <<docVars, last_saved_revision, last_saved_time, disk, deferred, saving,
                   open, undofile>>

-----------------------------------------------------------------------------
(* The future of save_impl, from one await to the next. *)

At(phase) == saves # << >> /\ saving.at = phase

Finish == saves' = Tail(saves) /\ saving' = [saving EXCEPT !.at = "waiting"]

\* Mutants: no guard; a refused save is never taken off the queue.
SaveUnchecked ==
    /\ At("waiting")
    /\ saving' = [saving EXCEPT !.at = "checked"]
    /\ UNCHANGED <<docVars, last_saved_revision, last_saved_time, disk, deferred,
                   saves, requested, open, undofile>>

SaveCheckStuck ==
    /\ At("waiting")
    /\ Head(saves).force \/ ~is_changed_on_disk
    /\ saving' = [saving EXCEPT !.at = "checked"]
    /\ UNCHANGED <<docVars, last_saved_revision, last_saved_time, disk, deferred,
                   saves, requested, open, undofile>>

\* The guard against overwriting what another process wrote.
SaveCheck ==
    /\ At("waiting")
    /\ IF ~Head(saves).force /\ is_changed_on_disk
       THEN Finish
       ELSE /\ saving' = [saving EXCEPT !.at = "checked"]
            /\ UNCHANGED saves
    /\ UNCHANGED <<docVars, last_saved_revision, last_saved_time, disk, deferred, requested,
                   open, undofile>>

\* File::create: the file is there, and not yet whole.  Under atomic-save a
\* backup was tried first; without one the file is written all the same.
SaveCreate ==
    /\ At("checked")
    /\ \E backup \in BOOLEAN :
          /\ backup => "atomic" \in Uses
          /\ ~backup => "atomic" \notin Uses \/ "failure" \in Uses
          /\ saving' = [saving EXCEPT !.at = "created", !.old = disk, !.backup = backup]
    /\ disk' = [disk EXCEPT !.text = Garbled, !.mtime = @ + 1, !.unseen = FALSE,
                            !.mixed = FALSE]
    /\ UNCHANGED <<docVars, last_saved_revision, last_saved_time, deferred, saves,
                   requested, open, undofile>>

SaveWrite ==
    /\ At("created")
    /\ saving' = [saving EXCEPT !.at = "written"]
    /\ disk' = [disk EXCEPT !.text = Head(saves).text, !.mtime = @ + 1, !.unseen = FALSE,
                            !.mixed = Head(saves).mixed]
    /\ UNCHANGED <<docVars, last_saved_revision, last_saved_time, deferred, saves,
                   requested, open, undofile>>

\* Mutant: the backup is not put back.
FailUnrestored ==
    /\ "failure" \in Uses
    /\ At("created")
    /\ Finish
    /\ UNCHANGED <<docVars, last_saved_revision, last_saved_time, disk, deferred,
                   requested, open, undofile>>

\* What a failed write leaves: the backup, renamed with its mtime or copied with
\* a new one; and where there is none or it cannot be put back, the wreck.
Leftovers ==
    {[disk EXCEPT !.bare = TRUE]}
      \cup (IF saving.backup THEN {saving.old, [saving.old EXCEPT !.mtime = disk.mtime + 1]}
                             ELSE {})

\* The save fails before it touches the file, or while it writes it.
SaveFail ==
    /\ "failure" \in Uses
    /\ \/ At("checked") /\ UNCHANGED disk
       \/ At("created") /\ disk' \in Leftovers
    /\ Finish
    /\ UNCHANGED <<docVars, last_saved_revision, last_saved_time, deferred, requested, open,
                   undofile>>

SaveStat ==
    /\ At("written")
    /\ saving' = [saving EXCEPT !.at = "stamped", !.stamp = disk.mtime]
    /\ UNCHANGED <<docVars, last_saved_revision, last_saved_time, disk, deferred,
                   saves, requested, open, undofile>>

\* Mutants: the mtime of the editor's own write is not remembered; the buffer
\* as it is when the save ends is taken for saved.
HandleWithoutTime ==
    /\ At("stamped")
    /\ last_saved_revision' = Head(saves).rev
    /\ Finish
    /\ UNCHANGED <<docVars, last_saved_time, disk, deferred, requested, open, undofile>>

HandleAtCurrent ==
    /\ At("stamped")
    /\ last_saved_time' = saving.stamp
    /\ last_saved_revision' = history.current
    /\ Finish
    /\ UNCHANGED <<docVars, disk, deferred, requested, open, undofile>>

\* The future ends, and the event loop handles its DocumentSavedEvent.
handle_document_write ==
    /\ At("stamped")
    /\ last_saved_time' = saving.stamp
    /\ last_saved_revision' = Head(saves).rev
    /\ Finish
    /\ UNCHANGED <<docVars, disk, deferred, requested, open, undofile>>

SaveStep ==
    \/ SaveCheck
    \/ SaveCreate
    \/ SaveWrite
    \/ SaveFail
    \/ SaveStat
    \/ handle_document_write

-----------------------------------------------------------------------------
(* Loading, marking and closing. *)

ExternalWrite(t) ==
    /\ "external" \in Uses
    /\ "race" \in Uses \/ saving.at = "waiting"
    /\ disk.mtime < MaxMtime
    /\ disk' = [disk EXCEPT !.text = t, !.mtime = @ + 1, !.unseen = TRUE, !.mixed = FALSE]
    /\ UNCHANGED <<docVars, last_saved_revision, last_saved_time, deferred, saves,
                   saving, requested, open, undofile>>

\* Document::reload through window v, whose entry is w, and the sync of the
\* windows in others after it.
reload(v, w, others) ==
    /\ "reload" \in Uses
    /\ "reload in save" \in Uses \/ saving.at = "waiting"
    /\ history.len < MaxLen
    /\ \E pending \in IF disk.text = text THEN {changed}
                      ELSE IF changed /\ disk.text = old_state THEN BOOLEAN
                      ELSE {TRUE} :
         LET pre  == IF changed THEN old_state ELSE text
             kept == "no undoreload" \notin Uses
             a    == IF ~kept   THEN [history |-> NewHistory(disk.text, clock), view |-> w]
                     ELSE IF pending THEN Committed(pre, disk.text, undojoin_pending, w)
                     ELSE [history |-> history, view |-> w]
         IN  /\ history' = a.history
             /\ views' = [u \in Views |->
                             IF u \in others THEN sync_changes(a.history, views[u])
                             ELSE IF u = v THEN a.view ELSE views[u]]
             /\ crashed' = \E u \in others : SyncPanics(a.history, views[u])
             /\ undojoin_pending' = (undojoin_pending /\ ~(kept /\ pending))
             /\ last_saved_revision' = a.history.current
    /\ text' = disk.text
    /\ old_state' = disk.text
    /\ changed' = FALSE
    /\ last_saved_time' = disk.mtime
    /\ disk' = [disk EXCEPT !.unseen = FALSE, !.mixed = @ /\ saving.at # "waiting"]
    /\ UNCHANGED <<focus, levelVars, clock, deferred, saves, saving, requested, open, undofile>>

Reload == open /\ reload(focus, views[focus], {})

\* auto_reload_file, called by the file watcher.
auto_reload_file ==
    /\ open
    /\ is_changed_on_disk
    /\ ~is_modified
    /\ \E v \in Views : reload(v, sync_changes(history, views[v]), Views \ {v})

\* :set modified and :set nomodified.
set_modified(modified) ==
    /\ open
    /\ "set modified" \in Uses
    /\ last_saved_revision' = IF modified THEN history.current + 1 ELSE history.current
    /\ UNCHANGED <<docVars, last_saved_time, disk, deferred, saves, saving, requested, open,
                   undofile>>

\* Jobs left by :write, and saves.
Unfinished == saves # << >> \/ \E force \in BOOLEAN : deferred[force] > 0

\* :buffer-close waits for the jobs, then for the saves, and refuses a modified
\* buffer.
close_document ==
    /\ open
    /\ ~Unfinished
    /\ ~is_modified
    /\ open' = FALSE
    /\ UNCHANGED <<docVars, last_saved_revision, last_saved_time, disk, deferred, saves,
                   saving, requested, undofile>>

\* :open.  A matching undo file brings its history back.
open_document ==
    /\ ~open
    /\ open' = TRUE
    /\ text' = disk.text
    /\ old_state' = disk.text
    /\ changed' = FALSE
    /\ undojoin_pending' = FALSE
    /\ history' = IF undofile.present /\ undofile.of = disk.text
                  THEN from_snapshot(undofile.history, clock)
                  ELSE NewHistory(disk.text, clock)
    /\ views' = [v \in Views |-> [rev |-> 0, jumps |-> {}]]
    /\ last_saved_revision' = 0
    /\ last_saved_time' = disk.mtime
    /\ disk' = [disk EXCEPT !.unseen = FALSE, !.mixed = FALSE]
    /\ UNCHANGED <<focus, crashed, levelVars, clock, deferred, saves, saving, requested, undofile>>

BufferStep == open /\ Next /\ UNCHANGED saveVars

FileNext ==
    \/ BufferStep
    \/ \E force, auto_format \in BOOLEAN : write_impl(force, auto_format)
    \/ \E force \in BOOLEAN : Followup(force)
    \/ save_changed_docs
    \/ SaveStep
    \/ \E t \in Text : ExternalWrite(t)
    \/ Reload
    \/ auto_reload_file
    \/ \E modified \in BOOLEAN : set_modified(modified)
    \/ close_document
    \/ open_document

\* The event loop takes keys and callbacks that are ready first, then the jobs,
\* then the save queue: fair as long as keys do not arrive faster than they are
\* handled, and formatters and file operations end.
FileSpec ==
    /\ FileInit /\ [][FileNext]_fileVars
    /\ \A force \in BOOLEAN : WF_fileVars(Followup(force))
    /\ WF_fileVars(SaveStep)

-----------------------------------------------------------------------------
(* Properties. *)

File == [text : Texts, mtime : Nat, unseen : BOOLEAN, mixed : BOOLEAN, bare : BOOLEAN]

\* The types of the buffer and of what is kept about its file, a history read
\* back from an undo file included.
FileTypeOK ==
    /\ TypeOK
    /\ last_saved_revision \in Nat /\ last_saved_time \in Nat /\ requested \in Nat
    /\ disk \in File
    /\ deferred \in [BOOLEAN -> Nat]
    /\ saves \in Seq([text : Texts, rev : Nat, force : BOOLEAN, mixed : BOOLEAN])
    /\ saving \in [at : {"waiting", "checked", "created", "written", "stamped"},
                   old : File, backup : BOOLEAN, stamp : Nat]
    /\ open \in BOOLEAN
    /\ undofile.present \in BOOLEAN /\ undofile.of \in Texts
    /\ IsHistory(undofile.history, Texts)

\* A buffer that does not show as modified, with no save under way, is what
\* the editor last wrote or read: closing it or reloading over it loses
\* nothing (is_modified: "If there are unsaved modifications").
UnmodifiedMeansSaved ==
    open /\ ~is_modified /\ saves = << >> /\ ~disk.unseen => text = disk.text

\* That is so whatever was typed, undone, jumped to or reloaded while saves were
\* deferred, queued or under way, unless the file was last saved with edits
\* that were not committed.
UnmodifiedMeansSavedUnlessMixed == disk.mixed \/ UnmodifiedMeansSaved

\* The guard's comparison of mtimes tells exactly whether another process
\* wrote the file: the editor's own writes never look foreign to a later save,
\* and a foreign one never looks like its own.
GuardIsExact ==
    open /\ saving.at = "waiting" => (is_changed_on_disk <=> disk.unseen)

\* A save without :w! never overwrites what another process wrote and the
\* editor has not loaded.
NeverOverwritesForeignEdit ==
    [][disk.unseen /\ disk' # disk /\ saves # << >> /\ ~disk'.unseen
          /\ last_saved_time' = last_saved_time => Head(saves).force]_fileVars

\* An auto-reload never takes the editor's own save for an edit by another
\* process (auto_reload_file: "ignore our own (auto)saves").
AutoReloadsOnlyForeignEdits == [][auto_reload_file => disk.unseen]_fileVars

\* The file is whole whenever no save is writing it, however many saves failed
\* half-way, were retried or raced another process's write, until one fails
\* without a backup being put back, as atomic-save is there to do.
FileIsWholeBetweenWrites ==
    ~disk.bare /\ saving.at # "created" => disk.text # Garbled

\* Every save asked for ends, written, refused or failed, and every job before it.
SavesSettle == Unfinished ~> ~Unfinished
=============================================================================
