# A verification development of zmax

zmax is a terminal editor: a fork of Helix that adds Vim and Emacs behaviour.
This directory holds TLA+ models of parts of it, TLC configurations that check
them on small instances, and TLAPS proofs for instances of any size. Paths are
relative to the repository root. `PROJECT.json` maps every modelling definition
to the lines it stands for.

To check a run: `tlc -config <run>.cfg <module>`. To check a proof module:
`tlapm <module>.tla`.

## 1. Inventory

| Component | State | Operations | Talks to | What is hard | What makes it correct |
|---|---|---|---|---|---|
| **Undo history** `zmax-core/src/history.rs` | vector of revisions (parent, last child, transaction, inversion, timestamp), current index | commit, trim (`undolevels`), merge (`:undojoin`), undo, redo, jumps, `changes_since`, snapshot | called by Document | branched trees, index arithmetic, binary search on time | every move yields the recorded text; indices stay valid |
| **Document and windows** `zmax-view/src/{document,view,editor}.rs` | text, pending change set, `old_state`, `undojoin_pending`, history; per window its revision and jump list | apply, append, undo/redo, earlier/later, focus, push_jump, sync | history; views pull changes when synced | windows lag behind commits made through other windows; undo over pending edits | buffer = current revision + pending edits; jumps are positions in the right text |
| **Saving and reloading** `document.rs`, `editor.rs`, `zmax-term` | last saved revision and time, the save queue, the file | `:w`, `:w!`, autosave, the save future, reload, auto-reload, close, open, undo file | event loop, file system, file watcher, other processes | everything between two awaits of a save; failures half-way; stale revision numbers | an unmodified buffer is on disk; no foreign edit is overwritten; saves end |
| **Task cancellation** `zmax-event/src/cancel.rs` | one atomic word (generation, running), a `Notify` | cancel, restart, clone, drop, canceled | used by completion, pickers, document colours, ... | relaxed atomics, compare-and-swap loops, lost wake-ups | exact count, cancellation reaches every handle |
| **Debounced hooks, autosave** `zmax-event/src/debounce.rs`, `zmax-term/src/handlers/auto_save.rs` | a bounded channel and a deadline per hook | `send_blocking`, the loop of `AsyncHook`, the autosave hooks | main thread sends events; the hook sends jobs back | dropped events, two full channels facing each other | no unsaved change is forgotten; the editor never freezes |
| **Event registry, redraw, runtime** `zmax-event/src/` | hook tables, a `Notify`, a render lock | dispatch, request_redraw, lock_frame, start_frame | everything | a redraw request lost between frames | every request is followed by a frame |
| **Transactions, selections** `zmax-core/src/{transaction,selection}.rs` | none (values) | compose, invert, map_pos, merge | history, views | boundary positions, lengths | algebraic laws |
| **Language server client** `zmax-lsp/src/{transport,client,lib}.rs` | three channels, pending requests, the queue before initialisation, a `Notify`, document versions at the server | requests, notifications, initialisation, the send and recv tasks, exit, shutdown | editor, server process | five parties; messages before initialisation; a server that dies at any point; answers that race timeouts | the server has the editor's text; requests keep their order; no caller is forgotten |
| **Debug adapter transport** `zmax-dap/src/` | as above | as above | as above | as above | as above |
| **Diff worker** `zmax-vcs/src/diff/` | base and buffer ropes, hunks, a render lock, a task per diff | update_document, update_diff_base, worker loop, apply_hunks | event loop, renderer | lock held for a notification nobody waits for; merged events | the renderer is always released; the last diff is the newest |
| **Window tree** `zmax-view/src/tree.rs` | tree of containers and views, focus | split, remove, swap, transpose | Editor | pruning, focus after removal | focus is a leaf, links are consistent |
| **Jump list** `zmax-view/src/view.rs` | ring of jumps, cursor | push, forward, backward | Document | capacity, duplicates | cursor in range |
| **Jobs** `zmax-term/src/job.rs` | futures and the ones waited for at exit | spawn, callback, finish | event loop | order of callbacks | waited jobs end before exit |
| **Completion** `zmax-term/src/handlers/completion*`, `ui/{completion,editor}.rs` | menu, previewed item with its savepoint, contexts of the providers, the handler's trigger, two task controllers | keys, clicks, triggers, requests, answers, refreshes | main thread, hook task, a task per request, language servers | answers of canceled requests; a menu asked for before another was opened; savepoints of another view | every item has its context, nothing outdated is shown, a preview is taken back where it was made |
| **Other LSP-driven handlers** `zmax-term/src/handlers/` | request handles, document versions | signature help, diagnostics | transport, TaskController | stale responses | a response for an older version is not applied |
| **File watcher, swap, session files** `zmax-term/src/` | files | watch, recover, write | FileSave | crash between writes | recovery offers the newest text |
| **Event loop, UI, commands, syntax, types** | layers, key maps, ... | several hundred commands | all of the above | breadth rather than depth | not modelled |

The crates interact through one event loop (`Application::event_loop`), which
owns the `Editor`. Futures run on a tokio pool and come back as events, so the
editor's own state has no data races; what goes wrong is that a future carries
values (a revision number, an mtime, a generation) that are old when it returns.

## 2. Modules

| Module | Models | Notes |
|---|---|---|
| `UndoTree` | `history.rs` | operators on a history value, no variables |
| `Timeline` | - | abstract specification: what undo promises without a tree |
| `Document` | `document.rs`, `view.rs`, `Editor::focus` | EXTENDS `UndoTree`; implements `Timeline` |
| `FileSave` | `save_impl`, the save queue, `reload`, autosave, undo file | EXTENDS `Document`: every buffer action interleaves with every step of a save |
| `Cancellation` | - | abstract specification: what a task controller promises without generations, counts and notifications |
| `TaskController` | `cancel.rs` | one action per atomic operation; implements `Cancellation` |
| `LspClient` | `zmax-lsp`, `zmax-view/src/handlers/lsp.rs`, the start and end of a server in `editor.rs` | editor, initialisation, send task, recv task and server as five parties |
| `DiffWorker` | `zmax-vcs/src/diff*`, `redraw.rs`, the redraw part of `wait_event` | main thread, worker and a task per diff |
| `AutoSave` | `debounce.rs`, `auto_save.rs`, the queue of `job.rs` | composes the three through their two bounded channels |
| `Completion` | `handlers/completion.rs`, `completion/request.rs`, the menu in `ui/completion.rs` and `ui/editor.rs`, the click of `ui/editor.rs` | main thread, hook task, a task per request; takes `TaskController` at its word |
| `MC*` | - | model values and symmetry sets for TLC |
| `UndoTreeProofs`, `DocumentProofs`, `FileSaveProofs`, `TaskControllerProofs`, `LspClientProofs`, `DiffWorkerProofs`, `AutoSaveProofs`, `CompletionProofs` | - | theorems |

### UndoTree and Document

Texts are atoms. A transaction is the pair (text it was made for, text it gives);
inverting against the original turns the pair round, composing `S0->S1` with
`S1->S2` gives `S0->S2`. A transaction applied to a text it was not made for is
refused (`ChangeSet::apply` returns false when the lengths differ) or edits the
wrong places (`Garbled`); the model allows both. `ChangeSet::compose` asserts that
the lengths agree, so where the model garbles a composition the program may panic
instead. So it is in `merge_last_revision`, which composes blindly: `Joined` is
exact where the new change starts from the text the revision leaves, and `Garbled`
elsewhere. A revision stores one pair for its transaction and its inversion.
Revision 0 is the code's dummy root; its pair is a ghost naming the text the
history starts from.

`lowest_common_ancestor`, `path_up`, `jump_to`, `changes_since`, `undo`, `redo`,
`jump_backward`, `jump_forward`, `jump_instant`, `commit_revision`,
`merge_last_revision`, `trim_to_undo_levels` and `from_snapshot` carry the
code's names. The loops are recursive functions (`Climb`, `Replay`), because
RECURSIVE operators cannot be proved about. `slice::binary_search_by` promises
nothing on an unsorted slice; there `jump_instant` may return any revision.

`Document` keeps `changed` (the pending change set is not empty), `old_state`
(the text before it), the history, and for every window the revision of its
`doc_revisions` entry together with the set of texts its jumps are positions in.
That set is what makes a wrong or missing `JumpList::apply` visible. `crashed`
records that `changes_since` was called with an index outside the history, a
panic in the code. `lowered` is a ghost: `undolevels` has been set below the
number of revisions held, so that one commit drops several.

| Action | Code |
|---|---|
| `Edit` | `Document::apply_inner` |
| `append_changes_to_history` | same name; commit or merge, map the window's jumps, store its revision |
| `Undo`, `Redo` | `undo_redo_impl`: undo commits first, redo refuses over pending edits; the window is synced if the transaction was accepted |
| `Earlier`, `Later`, `EarlierPeriod`, `LaterPeriod` | `earlier_later_impl` |
| `jump_to_revision` | same name |
| `Undojoin`, `set_undo_levels` | the ex commands |
| `push_jump` | `View::push_jump` |
| `Focus` | `Editor::focus`: commit through the old window, sync every window |
| `Tick` | time passes |

### FileSave

The buffer of `Document` plus one file. Of the fields of `disk` three are ghosts:
`unseen` (the text is another process's and the editor has not loaded it),
`mixed` (the editor saved it with edits that its revision does not hold) and
`bare` (a write failed and no backup was put back).

| Action | Code |
|---|---|
| `write_impl` | `:write`, `:write!`: commit, then queue the save, or leave it to a job if the buffer is to be formatted (`typed.rs` 7378-7431); the undo file is written at once |
| `Followup` | the callback of that job, or of the formatter it starts (`make_format_callback`): queues the save of the text as it is by then, under the current revision, and commits nothing |
| `save_changed_docs` | autosave: the same without a commit |
| `SaveCheck` | the mtime guard of the save's future |
| `SaveCreate` | backup under `atomic-save`, truncation. Every failure to make the backup becomes `None` (`document.rs` 1924-1944) and the file is truncated all the same |
| `SaveWrite`, `SaveStat` | the write; the mtime read after it |
| `SaveFail` | an error before or during the write. A backup is put back by renaming or copying, or, if there is none or that fails too, the half-written file stays (`Leftovers`, `document.rs` 1996-2014) |
| `handle_document_write` | the event loop applies the result |
| `Reload`, `auto_reload_file` | `reload`, by a command or by the file watcher |
| `set_modified`, `close_document`, `open_document`, `ExternalWrite` | `:set modified`, closing, opening with an undo file, another process |

A save captures text and revision when it is queued; the oldest save in the queue
runs. Between any two of the steps the user may type, undo, request more saves,
close; the watcher may reload; another process may write. `Uses` says which of
these a run includes. What a formatter does before it queues the save, a
transaction and a commit, is an `Edit` and an `append_changes_to_history` before
the `Followup`. Every write raises the mtime; two writes within the clock's
granularity are not modelled.

### TaskController

`state` is the atomic word. The controller's `inc_generation` is a load, a store
and `notify_waiters`, three steps; a handle's clone and drop are a load followed
by compare-and-swap rounds that may fail spuriously. A slot is a handle that is
free, promised to a running `restart`, stored but not returned ("born"), being
cloned, live, or being dropped. `clone` remembers which handle it borrows, so
that one cannot be dropped meanwhile, as the borrow checker enforces.
All operations are on one atomic word, so relaxed ordering still gives a single
modification order, and the model's interleavings cover it. The wait of
`canceled` follows tokio's contract: `notify_waiters` reaches every `Notified`
created before the call.

`Cancellation` has three variables: the handles of the task that runs, those that
know they were canceled, and what `is_running` answers. A task ends for all its
handles in one step, a handle joins only a task that still runs, and only handles
that do not run are told. The mapping (`Promise`) takes the counted handles for
the first, the live ones that were notified or have looked for the second, and a
nonzero count for the third, so the abstract moment of a cancellation is the
store of the word: before it nothing has happened, and after it, though nobody
has been notified yet, the task is over.

### LspClient

One server connection. `clientRx`, `injectRx` and `incoming` are the transport's
three unbounded channels; `pendingMessages` is what the send task delays until
initialisation, `outgoing` the payload it is writing, `stdout` what the server
wrote and the recv task has not read. A document's text is the number of edits
made to it, so an incremental change is the pair (text before, text after), and
a server that gets one for another text has a garbled document. The ghost edit of
a completion preview is not counted and not sent; a text with one is no text the
server could know, so it counts as garbled where it does reach the server.
`misled` is a ghost: the documents the server was told of with such a text.

| Action | Code |
|---|---|
| `OpenDoc`, `EditDoc`, `CloseDoc` | `launch_language_servers`; the `DocumentDidChange` and `DocumentDidClose` hooks, which leave out a server that is not initialised |
| `GhostEdit` | a ghost transaction, which the hook skips (`handlers/lsp.rs` 414): a preview, or its savepoint restored |
| `EditOverGhost` | a change that comes while a preview is shown and is sent as a change of the text with it |
| `CallServer`, `Timeout` | `call_with_timeout`: queued in the call, timed out in the future |
| `HandleIncoming` | `handle_language_server_message`: the initialized hook opens every document anew, a request is answered, exit removes the client |
| `AddRoot`, `RootListens`, `RootWakes` | `try_add_doc` and the task it spawns |
| `Quit`, `QuitFlushed`, `QuitCapped` | `close_language_servers`: shutdown and exit queued, wait for the flush, at most one second |
| `Initialize` ... `WakeOne` | the task of `start_client`, one action per await or channel operation |
| `SendListens` ... `SendFlushes` | `Transport::send`: each branch of the biased `select!`, taking a payload and flushing it as two steps |
| `RecvAnswer`, `RecvCall`, `RecvEnds` | `Transport::recv` |
| `Server*` | the server, which may answer in any order, fail, ask, write nonsense or die |

`initialize_notify` is modelled as tokio documents `Notify`: waiters in the order
of their first poll, one permit. The biased `select!` is kept: a branch is taken
only if those before it are not ready. A server is assumed to sync incrementally,
which is the demanding case: with full sync nothing can be garbled.

### DiffWorker

Texts and diff bases are version numbers. A read guard of `RENDER_LOCK` is named
by the text it was taken for. Time is an order: `now` is the newest guard that
has timed out, and guards time out in the order they were taken. Each diff has
its task, which is spawned, then listens (its first poll), is notified or times
out. `notify_waiters` reaches listening tasks only. `start_frame` waits for all
guards, forgets the redraws asked for and draws the published diff.

### AutoSave

`channel` (128 in the code) carries events from the main thread to the hook's
task, `jobs` (1024) brings `save_changed_docs` back. `SendEvent` tries, and
blocks when the channel is full; then either `EventSent` or, after 10 ms,
`EventDropped`. `FinishDebounce`, `JobSent` and `JobDropped` are the same in the
other direction. The job saves the documents shown as modified (`auto_save.rs`
71), so each document has its revisions in small: the `last`, the `current` and
the `saved` one, whether it has uncommitted changes, and the revisions of the
saves whose event is still to come (`Saved`). `unsaved` are the documents with
changes no save has been given; `forsaken` those that autosave gave up: their
save failed, or the job that was to save them was dropped with nothing else under
way; `passed` those that a job passed over because they were shown as unmodified.
That is excused only for documents in `astray`: since the last fresh edit undo,
redo or a jump (`TimeTravel`) or `:set modified` moved the document, so that it may
stand at the revision last saved without having its text. An edit takes the
document out of `astray`, unless the saved mark is ahead of the history (`:set
modified`). Other tasks fill the job queue (`Dispatch`). What the save itself does
is `FileSave`; ghost transactions send no event and are left out.

### Completion

`keys` counts keys and clicks and serves as the clock: a request, an item and the
menu carry the moment (`at`, `opened`) they were asked for, and a savepoint is
the moment and view it was taken in. `ui` is what the main thread keeps of the
menu: its items by provider, `last` (`editor.last_completion`, with the view of
the savepoint when an item is selected), `active` (`active_completions`) and
`refresh` (the generation of `request_controller`). `generation` is that of the
handler's own controller.

| Action | Code |
|---|---|
| `TypeChar`, `DeleteChar`, `DeleteForward`, `OtherCommand`, `ManualTrigger` | the `PostInsertChar` and `PostCommand` hooks with the callbacks they push; a key the menu does not take first accepts a selected item (`ui/editor.rs` 6340-6379) |
| `SelectItem`, `AcceptItem` | the menu's `Update` and `Validate` (`ui/completion.rs` 253-377) |
| `EnterInsert`, `LeaveInsert` | the `OnModeSwitch` hook |
| `Click` | left button of `handle_mouse_event`, with `Editor::focus` |
| `handle_event`, `FinishDebounce` | the debounced handler |
| `Answer`, `Deadline`, `DispatchShow` | the task of `request_completions`: first answer, 100 ms, menu, later answers |
| `Refreshed` | `replace_completions` for an incomplete list |
| `RunJob` | the closures on the main thread: `request_completions`, `show_completion`, `replace_completions` |

`cancelable_future` drops a canceled task at its next poll; a poll that had
already passed the check still dispatches the menu (`Survivors`). Which items
match is left open, so filtering may close the menu at any key. Options have
their defaults (`preview-completion-insert` on, `completion-preview-mode` off);
a trigger takes one word character. Keys that only move in the menu or resolve an
item, the lookup commands and clicks with a count are left out.

## 3. Runs

| Run | Asks | Bounds |
|---|---|---|
| `Document_tree` | exact undo, redo, time travel and jump lists through two windows; `Timeline` refinement | 3 texts, 2 windows, 4 revisions, 4 instants |
| `Document_levels` | `:set undolevels` and `:undojoin` with two windows, one of which lags under trims and joins | 2 texts, 2 windows, levels 1 and 2, 4 revisions |
| `FileSave_guard` | the modified flag and the mtime guard, with deferred and forced writes, foreign writes between saves, reloads also during a save, close and open | 2 texts, 2 saves, 3 revisions |
| `FileSave_settle` | failures also of backups, races, deferred saves, autosave, `:set modified`, undo files: saves end, files stay whole | 2 texts, 2 saves, 2 revisions |
| `TaskController_cancel` | all interleavings of a controller and three handles; `Cancellation` refinement | 3 handles, 3 calls |
| `LspClient_sync` | the server's documents, told of edits and never of previews; the order of requests, callers that wait, requests of the server during shutdown | 1 document, 1 edit and previews, 1 request besides initialize and shutdown, 1 server request, 1 new root; `RootsOrEdits` |
| `DiffWorker_frames` | frames and diffs, the render lock, the newest diff | 2 edits, 2 diff bases |
| `AutoSave_pending` | no unsaved change forgotten, no freeze | 2 documents, channels of 1, 3 edits and other keys, 2 foreign jobs |
| `Completion_menu` | contexts and age of the menu's items, in every order of keys, clicks, answers and cancellations | 2 views, 1 server, 1 list of words, 3 keys, 2 waiting events, 3 generations, 1 character |
| `Document_trim_branches` | violation: trimming a branched history | |
| `FileSave_autosave` | violation: autosave and the modified flag | |
| `Completion_click` | violation: a click into another view keeps the menu | 4 keys, 1 request |

Why the bounds are enough. Four revisions are the smallest history with two
branches of unequal depth below a common ancestor that is not the root, the case
that tells right and wrong ancestor searches apart; three texts let every revision
of a branch differ. Two windows: one that commits and one that lags.
`Document_levels` has two texts, levels 1 and 2 and four revisions: a window can
lag by two commits while each drops one revision under it, a join can be armed on
a revision that was left by undo or a jump, and one that has children. Its
properties say nothing of the windows' jumps, and neither do those of
`FileSave_guard`; no guard or other variable depends on them, so these runs tell
states apart without them (`VIEW WithoutJumps`). Two saves: one running, one
queued behind it. Three handles: one of an old generation, one current, one being
cloned or dropped; three calls let a canceled handle see two later generations.
One document with one edit can be opened, previewed, edited and closed before,
while and after the server initialises, and one request can be delayed,
registered, answered, timed out or cut off; more documents touch separate entries
of the same maps. `RootsOrEdits` is a state constraint: a new root is not combined
with an edit or preview, as the only thing they share is the order of messages in
one channel. Two edits and two bases make every merge of two events into one diff,
and a diff running while events queue behind it. Two edits fill a channel of one
and block the sender, the third comes after the drop, or is the undo that leads to
the revision last saved; two foreign jobs fill the job queue and come back once.
Three keys are one to ask, one to filter (which asks again for an incomplete list)
and one to close or open anew, the shortest history in which a refresh is
outdated; `MaxRequests` ends the loop in which an answer without matches closes
the menu and triggers again. Every property was broken by a plausible bug at these
bounds (`mutants` in `PROJECT.json`). The safety results are also proved without
bounds (section 4).

`CHECK_DEADLOCK FALSE` in `TaskController_cancel`: once the controller is
dropped and the handles are gone nothing more happens; and in
`AutoSave_pending` and `Completion_menu`: the user may stop.

### Fairness

* `WF(Followup)`, `WF(SaveStep)`. The event loop's `select!` (`application.rs`
  749-791) is biased: signals, keys and callbacks that are ready come before the
  jobs, and those before `Editor::wait_event`, in which the save queue comes first
  (`editor.rs` 5073-5079). So the assumption is that keys and callbacks do not
  arrive for ever faster than they are handled, that a formatter answers or times
  out, and that the file operations a save awaits end, with success or an error.
  Closing and quitting need less: they poll the save queue directly
  (`Editor::flush_writes`).
* `WF(ControllerStep)`: `inc_generation` has no loop and no await.
  `WF(Await(h))`, `WF(Wake(h))`: a woken task is polled by tokio. No fairness is
  assumed for the user, other processes, or compare-and-swap rounds.
* `LspClient`: a woken task is polled (`InitTask`, `RootTask`, the send task's
  own wait). Nothing is assumed of the server, of the pipe to it, or of the user.
* `DiffWorker`: the event loop, the worker and each spawned task run when they
  can, timers fire, a diff ends. The user need not edit.
* `AutoSave`: the main thread and the hook's task run and timers fire; other
  tasks need not send jobs.

### Disagreements found

Each is a violation run with its quotation in `PROJECT.json` `findings`.

1. `Document_trim_branches`: `trim_to_undo_levels` hangs every revision whose
   parent was dropped below the root. With branches those start from different
   texts; undoing one and moving to another applies a transaction to a text it
   was not made for.
2. `FileSave_autosave`: autosave writes text that includes the pending edits and
   records the revision before them. Commit, then undo: buffer and file differ,
   `is_modified` says no. The next autosave then passes the document over
   (`passed` in `AutoSave`). `:write` with `auto-format`, the default, does the
   same if keys are typed before its job is run: `Followup` commits nothing.
3. `Completion_click`: the click handler focuses the clicked view and only then
   reads the "previous" one (`ui/editor.rs` 5305-5307), so it never closes the
   menu. The preview's savepoint is later restored in the wrong view, and
   `Document::restore` panics.

With other constants, or checking the definition named, TLC shows further
behaviour worth knowing; these have no run of their own:

* `NewRootsAreAdded` in `LspClient`: the task that initialises a client wakes one
  waiter (`notify_one`, `lib.rs` 965), but the send task and the task of every
  root added meanwhile (`client.rs` 126) wait on the same `Notify`. The send task
  is usually first and the root is never added ("deal with this new root later",
  `client.rs` 117); were the root first, the send task would stay pending and
  delay every request for ever.
* `DiffsAreDrawn` in `DiffWorker`: a diff without a render lock that ends before
  its task is first polled notifies nobody (`worker.rs` 79 and 168), so the redraw
  it was to request is lost although a comment promises to "request a redraw after
  the diff is done" (165).
* `Completion`: a menu that was asked for before insert mode was left and entered
  again is still shown, as `show_completion` compares mode and view only, although
  "In all of thoise cases the completion should be discarded" (`completion.rs` 97).
* A letter typed after its menu was closed does not ask again while the request of
  that menu still runs: `AutoTrigger` yields to `in_flight` (`request.rs` 88).
* `c-c` with a selected item accepts it, as the menu ignores the key and the
  editor then sends Enter (`ui/editor.rs` 6356); "explicitly abort the completion
  with c-c" says a comment (`ui/completion.rs` 259).
* `completion_select_next` and its kind close the menu they move in: the hook's
  last branch is for every command (`completion.rs` 370).
* When an older request's menu is shown just before a newer one's, later answers
  of the newer request join it with contexts of another savepoint.
* `GhostsStayUnseen` in `LspClient`: "It's extremely important this savepoint is
  restored [...] *before any further transaction is applied*. Otherwise incremental
  sync breaks" (`ui/completion.rs` 264). But a server that becomes ready during a
  preview is sent a `didOpen` with the preview's text, and a change that does not
  come through the menu (a server's `applyEdit`, a reload) is applied over the
  preview and sent; the server keeps a wrong text until the document is opened
  anew.
* `UnmodifiedMeansSaved` with "undofile": a restored history is at its newest
  revision, `last_saved_revision` stays 0 (`document.rs` 3918). The buffer opens
  as modified; after undoing everything it shows as saved and is not.
* `AutoReloadsOnlyForeignEdits`: the watcher's event arrives during the editor's
  own save and loads the half-written file, although "Only react to real external
  edits" (`editor.rs` 3672).
* `SyncNeverPanics` in `FileSave` with "no undoreload" and two windows: a reload
  that resets the history (`document.rs` 2178) leaves window revisions beyond its
  end; the next sync panics. `UnmodifiedMeansSavedUnlessMixed` there with "reload
  in save": the save under way ends with a number of the old history.
* `ClosedDocumentsAreClosed`: a document opened and closed before the server is
  initialised is opened at the server only (`didOpen` is queued by the main
  thread and sent when the send task reads it after initialisation; the
  `didClose` hook skips the server), so the server keeps it open.
* `NoRequestOutlivesTheStream`: a request registered after the recv task drained
  `pending_requests` stays there; its caller waits for the whole timeout.
  Documents keep the client of a server that exited, so later requests do so too.
* `didChange` and delayed requests may reach the server before `initialized`:
  `capabilities` is set before that notification is queued (`lib.rs` 948-963).
* `BlockedNoLongerThanTimeout`: a lock whose event is queued behind a running diff
  is not timed until the worker takes it, so a frame may wait longer than the
  "maximum time" of `diff.rs` 118.
* `close_language_servers` promises 10000 ms (`editor.rs` 5038) and waits 1000.
* `~crashed` in `Document`: `undolevels` set below the number of revisions held
  drops several at the next commit, and the sync of a window that lags asks for a
  revision that is gone. `SyncNeverPanics` excuses this case only; otherwise a
  commit drops no more than it adds, and every number a window holds stays in
  range.
* `JumpsMatchRevision` with `LevelChoices` and two windows: in range, but of another
  revision. Trimming renumbers revisions under a window that lags, so its next
  sync maps its jumps from the wrong text.
* `BufferIsCurrentRevision` with `JoinOffered`: `:undojoin` armed after an undo, or
  before an `:earlier`; the next change is merged into a revision that has
  children, which still start from the text before it. An undo after the arming
  disarms the join (`document.rs` 2920, "cleared by any undo/redo" at 360), the
  jumps do not. Moving to such a child
  garbles the buffer, and a later join there composes changes that do not fit,
  where `ChangeSet::compose` asserts equal lengths: the case `JoinsKeepHistoryExact`
  excludes. A merge also moves a timestamp, so the binary search may meet an
  unsorted slice.
* `PushWhileEditing`: a jump pushed over pending edits is a position in the new
  text, kept at the old revision (`view.rs` 1376), and is mapped a second time.
* `:undojoin` after a save, or `undolevels` trimming after a save: the saved
  revision number then names another text.
* `:set modified` stores `current + 1` (`document.rs` 3164-3166): the next commit
  makes that revision current and the buffer unmodified.
* "race": another process that writes between the guard and the write
  (`document.rs` 1846-1988) is overwritten, as the guard cannot see it.
* `make_format_callback` returns without saving when the window `:write` was given
  in has been closed meanwhile (`commands.rs` 38960); nobody is told. `SavesSettle`
  is about the end of a save, whichever it is.
* "failure": a save that fails half-way leaves a file with a new mtime that the
  editor does not remember, so the next attempt is refused as if another process
  had written it; a backup restored by copying does the same under "atomic".
* "failure" with "atomic": `atomic-save` "prevents data loss if the editor is
  interrupted while writing the file" (`book/src/editor.md` 64), but a backup that
  cannot be made is skipped in silence and one that cannot be put back is only
  logged. `FileIsWholeBetweenWrites` excuses both (`bare`).

## 4. Proofs

`UndoTreeProofs`. The main result is `RouteExact`: on a chained, well-formed
history of any size, the list that `jump_to` and `changes_since` build leads from
the text of one revision to the text of the other and to no other outcome. Parents
have smaller indices, so the climb reaches the root within `len` steps
(`ClimbReachesRoot`), the lock-step climb meets a node on both climbs
(`LcaOnBothClimbs`), `path_up` is a prefix of the climb (`PathUpIsClimb`), and
replaying transactions along adjacent texts is exact (`ReplayExact`).
`LcaIsLowest` adds that no common ancestor lies below the node the lock-step
climb ends at: whichever of the two climbs has the greater index steps, so
neither passes a node that is on both.
The recursive functions are shown to exist and unfold by an explicit
induction over an interval (`IntervalInduction`, `RecursionExists`), stated for
sets because induction over a predicate parameter cannot be instantiated. The
rest shows that each operation preserves the shape of a history
(`PushedTyped`, `DropOldestTyped`, `MergeTyped`, ...).

`DocumentProofs`.

* `TypeCorrect`: `Spec => []TypeOK` for every instance. `TypeOK` contains
  `WellFormed(history)`, so it includes that trimming and merging keep a tree.
* Under `PlainUse` (no undolevels, no `:undojoin`, no jump pushed over pending
  edits; the runs above show why each is needed) the inductive invariant `Exact`
  is: types, `BufferIsCurrentRevision`, `JumpsMatchRevision`,
  `FocusedViewInStep`, no crash. The parts need each other: an undo is exact only
  on a chained history; a window's jumps are mapped exactly only if they start at
  its own revision; a commit maps the focused window by its own change alone,
  which is right only if that window is in step.
  From it: `JumpsAreExact`, `FocusNeverLags` and `TreeImplementsTimeline`
  (`Spec => Timeline's Spec` under the mapping in `Document`).
* The text alone needs less than the windows do. `BufferExact` (types,
  `BufferIsCurrentRevision`, no pending join) is inductive without undolevels and
  `:undojoin`, jumps over pending edits included; from it `UndoIsExact`,
  `RevisionsStay` and `ChangesSinceIsExact`.
* Without undolevels, joins allowed, redo links point to the newest child
  (`NewestBranch`, `RedoIsNewest`), and a step from an exact history leaves an
  exact one, joins included, unless it may join into a revision with children
  (`JoinsAreExact`, in every instance).
* In every instance, trims and joins included: `ClimbMeetsLowest`,
  `CommitsAreBounded`, and `TrimIsExact`, which says that a trim of an unbranched
  exact history leaves it exact (the run `Document_trim_branches` is what happens
  with branches).
* `NoPanic`, in every instance, for any number of windows that lag: while
  `undolevels` was not set below the revisions held (`Within`), no step makes the
  history shorter (`NeverShorter`), so every window's revision exists
  (`Standing`), whatever was trimmed, joined or left on another branch.
* `TravelIsNearest` needs timestamps in index order (`Ordered`), which holds
  unless `:undojoin` restamps a revision.

`FileSaveProofs`. `FileTypeCorrect` is the type invariant in every instance. The
other theorems have hypotheses on `Uses`; each excludes what a run or section 3
shows to break the property.

* `Undisturbed` (no other process writes between check and write, no write
  fails): `Guarded` is inductive. It follows a save from its check to its end: a
  checked save owns the file or was forced, one that has written has an unseen
  text nowhere, and the mtime it ends with is the file's. From it
  `GuardTellsExactly` and `ForeignEditsAreKept`.
* Without undolevels and `:undojoin`, everything in use: `FileExact` says that
  the undo file on disk is as exact as the buffer's history (`UndoFileIsExact`).
  From it `FilesKeepUndoExact`.
* `Steady` (no failing write, no `:set modified`, no undo file, no history that
  starts afresh; reloads during a save only if no foreign write falls into one):
  `OnDisk` says that each queued save is of the text of its revision, or mixed with
  edits (`InStep`), and that an unmixed file is at `last_saved_revision` until the
  save under way writes it, then at that save's revision. From it
  `UnmodifiedIsSaved`. Autosave and deferred saves are allowed: they are what may
  mix a file (`FileSave_autosave`), and the theorem says that nothing else can
  mislead the modified flag.
* `ReloadsWait` (no reload during a save), no undolevels, no `:undojoin`: `Whole`
  says that no half-written text is in the buffer, a revision, a request or the
  undo file, and that while the file is half-written its backup is whole. It is
  kept until a write fails with no backup put back (`WholeUnlessBare`: a file once
  bare may be loaded, saved and recorded, so nothing is said after it). From it
  `FilesAreWhole`, with or without `atomic-save`.

`TaskControllerProofs`. Under `Unsaturated` (`MaxCalls <= GenLimit`: the
generation, saturating at `u32::MAX`, has room for every call) `TaskInv` is
inductive. Beside the checked properties it says how old the loaded words are:
the controller's is current except for the count (`GenerationsGrow`), a handle's
is no newer than the shared word and no older than the handle (`NothingNewer`),
a handle about to leave saw itself counted (`DropSawItself`), `restart` has
promised exactly the slots it will count (`OnePromise`), and between store and
notification every handle in use is canceled (`OldAreCanceled`). Each step of a
handle goes through `SlotStep`: it keeps the invariant if it leaves its slot in
order and the count exact. From it: `TaskTypes`, `CountExact`,
`NotificationsExact`, `CanceledStaysCanceled`, `CancelReachesEveryHandle`,
`CountNeverFails` and `NobodyIsMisled`, for any number of handles.
`ControllerKeepsPromise` is the refinement (`TaskSpec => KeepsCancellationPromise`).
Each step maps to one step of `Cancellation` or to none; that a task without
handles never runs again needs `CloneBorrows`, inductive on top of `TaskInv`: the
handle a clone is made from stays in use until the clone is counted, so a clone
that finds its generation current joins a task that still has a handle.

`LspClientProofs`. All theorems are for any number of documents, edits, requests,
server requests and roots, without hypotheses. Channels are arbitrary sequences.

* `Types` says which messages each channel may carry (a delayed message is a
  request or a reply, an injected one a reply) and is inductive:
  `LspTypeCorrect`. What the server makes of each kind of message is
  stated once (`IsRead`, `MessageIsRead`).
* `CallsAreKnown`: `Remembered` says for every request number that a waiting one
  is in line or registered, that one which is being written, read or answered is
  registered while somebody waits, and that one not handed out is known to nobody.
  The last part is needed: a stale answer under a fresh number would be discarded.
* `RequestsInOrder`: `Ordered` says that requests increase along what the server
  has read, what is being written, what was delayed and what is queued, and that
  a running editor's next number is above all of them. The biased `select!`
  matters in one place: the channel is read only when nothing delayed is left, or
  for a message of the initialisation.
* `LateCallsAreAnswered`: `Noted` says that the transport has noted a shutdown
  the server knows of, or is about to, and that a request the server has not made
  is nowhere. `shutdown_requested` being set before the write is what makes it
  hold.
* `ServerFollowsTheEditor`: `Following` says that for each open document there is
  a sequence of texts, one per place in the queue, that leads from the server's
  text to the editor's, each message taking one text to the next; `NotOpen` stands
  for a text of which nothing is known, which only a `didOpen` ends. It holds from
  the moment the initialized hook has run, as the hook opens every document anew
  behind whatever was queued. Documents in `misled` are left out until they are
  opened anew; a preview that is taken back, or left by a key, is not among them
  and changes nothing. `Heralded` adds that the send task learns of the
  initialisation only after the capabilities are set, so no edit is left out
  later, and that a client without a registry entry reads no more.
* `OneTaskIsWoken`, an action property: whoever goes on because it was woken takes
  the last of the wake-up (`Spent`), and once it is spent nobody goes on any more,
  for any number of waiting roots. `OneWakeUp` says that the wake-up is a permit or
  with one task, never both. It proves why `NewRootsAreAdded` fails.

`DiffWorkerProofs`. `FramesWait` says that a frame shows the diff of its text or
follows an expired lock. For that one must know where the newest text is and
which guard travels with it, and `DInv` says so: edits are in the channel and in
the accumulator in their order, each with a guard that lives (`ChannelInOrder`,
`AccInOrder`); tasks hold distinct guards of older texts (`TasksInOrder`); the
newest text is in the channel, gathered or cached (`NewestIsUnderWay`); while it
is diffed its task holds a live guard, unless one has expired (`DiffIsGuarded`);
every live guard is younger than the last frame (`GuardsAreNew`); a worker that is
not diffing has published what it cached (`PublishedIsCached`). `CyclesAreEvents`
bounds the number of diffs by the events, which keeps the task array large
enough. `DiffTypeCorrect` is its typing part. `BInv` adds the bases, which travel
as the texts do (`BasesInOrder`, `NewestBaseIsUnderWay`), that what is published
is no newer than what is cached (`PublishedIsOlder`), and who holds each guard
(`GuardsAreHeld`). From it come the safety halves of the two liveness properties:
`QuietMeansCurrent` (a worker with nothing to do shows the newest diff) for
`DiffCatchesUp`, and `NoGuardLeaks` (each guard is in the hands of an event, of
the accumulator or of a task that has not ended) for `RenderNeverStuck`; and
`DiffsOnlyAdvance`, that no diff is ever replaced by one of an older text or base.

`AutoSaveProofs`. `NothingIsForgotten`: `UnsavedIsPending` together with the type
invariant and `InOrder` is inductive, for every capacity. Two steps matter. An
event is dropped only if the channel is full, and a full channel holds another
event (`EventDropped`). And the job may skip an unsaved document only if it is
astray (`UnsavedIsModified`): `InOrder` says that a document not astray has no
saved mark, present or on its way in `writes`, beyond its history, and, while it
has unsaved changes, none as new as the revision those are in. `TypeCorrect`
includes that the channels never exceed their capacities.

`CompletionProofs`. `AlwaysItemsHaveContext` and `AlwaysNoOutdatedItems` follow
from `IInv`, which is inductive together with `TypeOK`. It says that the hooks'
idea of the menu is right (`Coherent`); that no moment or generation is ahead of
its counter (`InThePast`); that a generation is asked for once and before it is
answered (`AskedOnce`); that what the newest request still brings is no older than
the menu, any task and any menu on its way (`LiveIsNewest`), as a menu of a
canceled request may still open; and that what the newest refresh brings is for
the menu that is open (`FreshIsForTheMenu`). One lemma per kind of step
(`ClosingKeepsIInv`, `NewGenerationKeepsIInv`, `TaskKeepsIInv`, ...) serves all
actions of that kind. Without `AskedOnce` a second request of the generation could
bring answers older than the menu of the first.

Only model-checked: the liveness properties `SavesSettle`, `CanceledTasksWake`,
`RenderNeverStuck`, `DiffCatchesUp`, `ModifiedIsSaved` and `EditorNeverFreezes`
(a proof needs fairness and ENABLED, which are outside the prover's reach). Every
safety property of a passing run is stated by a theorem. Where a theorem has a
hypothesis, what happens outside it is model-checked at the bounds of section 3
or described there; so is the count of `TaskController` once the generation
saturates.

## 5. Not modelled

The components without modules in section 1. Within the modelled ones: savepoints,
selections, marks, folds, the order and capacity of the jump list, several buffers
at once, format and code actions on save, save-as, `backup`/`patchmode` copies,
encoding, the parsing of command arguments, what a formatter changes; stopping and
restarting a language server while the editor runs, `didSave`, dynamic
registration, the payloads of language features, several servers for one document;
texts too large to be diffed, inverted diff handles, the diff itself; ghost
transactions and documents without a path in autosave; in completion the matching
and resolving of items, snippets, `completion-preview-mode`, the lookup commands;
signature help, diagnostics and the word index; jobs waited for at exit; the
registry of event hooks, whose dispatch is a synchronous loop.

Most of the code is commands, user interface and option handling
(`commands.rs`, `commands/typed.rs`, `ui/`): sequential functions over the
primitives modelled here, whose correctness is what each of several hundred
commands is to do, not a protocol between parties.

## 6. Plan

1. `WindowTree` and `JumpList`: sequential modules with structural invariants.
2. `DapClient`: the debug adapter transport; as `LspClient`, without the queue
   before initialisation, with the handling of events that change threads and
   breakpoints.
3. Jobs waited for at exit, composed with the save queue.
4. `TransactionLaws`: compose, invert and map_pos on small change sets against
   the pair semantics `UndoTree` assumes.
5. Proofs: how old the windows' jumps may become under undolevels with a single
   window (`JumpsMatchRevision` beyond `PlainUse`); `LspClient`'s theorems for
   several servers of one document, once the model has them.
