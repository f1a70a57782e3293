------------------------------ MODULE Document ------------------------------
(***************************************************************************)
(* One buffer edited through several windows: zmax-view/src/document.rs    *)
(* (pending changes, commits, undo, redo, time travel), the revision each  *)
(* window's jump list is kept at (zmax-view/src/view.rs), and the editor's *)
(* focus change, over the undo history of module UndoTree.                 *)
(*                                                                         *)
(* Edits accumulate in an uncommitted change set that the next commit      *)
(* turns into a revision.  A window follows the commits made through it    *)
(* and lags behind the others until it is synced.                          *)
(***************************************************************************)
EXTENDS UndoTree

CONSTANTS
    Text,             \* the texts a buffer may hold
    Views,            \* the windows showing it
    LevelChoices,     \* the values given to :set undolevels
    JoinOffered,      \* whether :undojoin is used
    PushWhileEditing, \* whether a jump may be pushed over uncommitted changes
    Steps,            \* arguments of :earlier N and :later N
    Periods,          \* arguments of :earlier Ns and :later Ns
    MaxLen,           \* bound: no new edit once the history is this long
    MaxClock          \* bound: the last instant the clock shows

ASSUME DocumentAssumption ==
    /\ Text # {} /\ Garbled \notin Text
    /\ Views # {}
    /\ LevelChoices \subseteq Nat \ {0}
    /\ JoinOffered \in BOOLEAN /\ PushWhileEditing \in BOOLEAN
    /\ Steps \subseteq Nat /\ Periods \subseteq Nat
    /\ MaxLen \in Nat /\ MaxClock \in Nat

VARIABLES
    text,              \* Document::text
    changed,           \* ~changes.is_empty(): edits since the last commit
    old_state,         \* the text before those edits
    undojoin_pending,
    history,
    undo_levels,       \* UNDO_LEVELS; 0 is unbounded
    lowered,           \* it was set below the number of revisions then held
    focus,             \* the focused window
    views,             \* per window: its doc_revisions entry, and the texts its
                       \* recorded jumps are positions in
    crashed,           \* a sync indexed a revision that does not exist: the
                       \* editor has panicked and what follows is meaningless
    clock              \* Instant::now()

bufferVars == <<text, changed, old_state, undojoin_pending, history>>
viewVars   == <<focus, views, crashed>>
levelVars  == <<undo_levels, lowered>>
docVars    == <<bufferVars, viewVars, levelVars, clock>>

Texts == Text \cup {Garbled}

Init ==
    /\ text \in Text
    /\ changed = FALSE
    /\ old_state = text
    /\ undojoin_pending = FALSE
    /\ history = NewHistory(text, 0)
    /\ undo_levels = 0
    /\ lowered = FALSE
    /\ focus \in Views
    /\ views = [v \in Views |-> [rev |-> 0, jumps |-> {text}]]
    /\ crashed = FALSE
    /\ clock = 0

-----------------------------------------------------------------------------
(* Windows. *)

\* JumpList::apply: every recorded position is mapped through the changes.
Mapped(txns, jumps) == UNION {{o.text : o \in Replay(txns, t)} : t \in jumps}

\* Mutant: a window is told the new revision and its jumps are not mapped.
SyncRevisionOnly(h, w) == [w EXCEPT !.rev = h.current]

\* View::sync_changes.  Its index into the history must exist.
sync_changes(h, w) ==
    IF w.rev = h.current \/ w.rev \notin DOMAIN h.rev THEN w
    ELSE [rev |-> h.current, jumps |-> Mapped(changes_since(h, w.rev), w.jumps)]

SyncPanics(h, w) == w.rev \notin DOMAIN h.rev

-----------------------------------------------------------------------------
(* Document operations. *)

\* Document::apply of a transaction that changes the text.  Edits that cancel
\* out may compose to an empty change set.
Edit(t) ==
    /\ history.len < MaxLen
    /\ text' = t
    /\ old_state' = IF changed THEN old_state ELSE text
    /\ changed' \in IF changed /\ t = old_state THEN BOOLEAN ELSE {TRUE}
    /\ UNCHANGED <<undojoin_pending, history, viewVars, levelVars, clock>>

\* Mutants: the committing window is not told of the revision; it is told the
\* index the revision had before the oldest ones were dropped.
CommittedUntold(pre, post, join, w) ==
    LET x == [pre |-> pre, post |-> post]
        h == IF join THEN merge_last_revision(history, x, clock, undo_levels)
                     ELSE commit_revision(history, x, clock, undo_levels)
    IN  [history |-> h, view |-> [w EXCEPT !.jumps = Mapped(<<x>>, @)]]

CommittedBeforeTrim(pre, post, join, w) ==
    LET x == [pre |-> pre, post |-> post]
        h == IF join THEN merge_last_revision(history, x, clock, undo_levels)
                     ELSE commit_revision(history, x, clock, undo_levels)
    IN  [history |-> h,
         view    |-> [rev |-> history.len, jumps |-> Mapped(<<x>>, w.jumps)]]

\* The history, and window w, after the change pre -> post is committed
\* through it.
Committed(pre, post, join, w) ==
    LET x == [pre |-> pre, post |-> post]
        h == IF join THEN merge_last_revision(history, x, clock, undo_levels)
                     ELSE commit_revision(history, x, clock, undo_levels)
    IN  [history |-> h,
         view    |-> [rev |-> h.current, jumps |-> Mapped(<<x>>, w.jumps)]]

\* The same after append_changes_to_history through the focused window.
Appended(join) ==
    IF ~changed THEN [history |-> history, view |-> views[focus]]
                ELSE Committed(old_state, text, join, views[focus])

append_changes_to_history ==
    /\ changed
    /\ LET a == Appended(undojoin_pending)
       IN  /\ history' = a.history
           /\ views' = [views EXCEPT ![focus] = a.view]
    /\ changed' = FALSE
    /\ undojoin_pending' = FALSE
    /\ UNCHANGED <<text, old_state, focus, crashed, levelVars, clock>>

\* Carry out a move m of the history that was a.history, through the focused
\* window, which is synced when some transaction was accepted.
Moved(a, m) ==
    \E o \in Replay(m.txns, text) :
        /\ text' = o.text
        /\ history' = m.history
        /\ changed' = FALSE
        /\ views' = [views EXCEPT ![focus] =
                        IF o.ok THEN sync_changes(m.history, a.view) ELSE a.view]
        /\ crashed' = (o.ok /\ SyncPanics(m.history, a.view))
        /\ UNCHANGED <<old_state, focus, levelVars, clock>>

\* Mutant: undo does not commit the pending edits first.
UndoUncommitted ==
    /\ Moved([history |-> history, view |-> views[focus]], undo(history))
    /\ undojoin_pending' = FALSE

\* undo_redo_impl: undo first commits, redo refuses over uncommitted changes.
Undo ==
    /\ LET a == Appended(FALSE) IN Moved(a, undo(a.history))
    /\ undojoin_pending' = FALSE

Redo ==
    /\ undojoin_pending' = FALSE
    /\ \/ changed  /\ UNCHANGED <<text, changed, old_state, history, viewVars,
                                  levelVars, clock>>
       \/ ~changed /\ Moved(Appended(FALSE), redo(history))

\* A commit, if one is due, uses up a pending :undojoin.
JoinAfterAppend == undojoin_pending' = (undojoin_pending /\ ~changed)

\* earlier_later_impl and jump_to_revision: going back commits first, going
\* forward refuses over uncommitted changes.
GoTo(a, r) == Moved(a, jump_to(a.history, r))

Earlier(n) ==
    /\ LET a == Appended(undojoin_pending) IN GoTo(a, jump_backward(a.history, n))
    /\ JoinAfterAppend

Later(n) ==
    /\ ~changed
    /\ GoTo(Appended(FALSE), jump_forward(history, n))
    /\ UNCHANGED undojoin_pending

CurrentTime(h) == h.rev[h.current].timestamp

EarlierPeriod(d) ==
    /\ LET a == Appended(undojoin_pending)
       IN  \E r \in jump_instant(a.history, CurrentTime(a.history) - d) : GoTo(a, r)
    /\ JoinAfterAppend

LaterPeriod(d) ==
    /\ ~changed
    /\ \E r \in jump_instant(history, CurrentTime(history) + d) :
          GoTo(Appended(FALSE), r)
    /\ UNCHANGED undojoin_pending

jump_to_revision(to) ==
    /\ LET a == Appended(undojoin_pending)
       IN  GoTo(a, Least(to, a.history.len - 1))
    /\ JoinAfterAppend

\* ex_undojoin: commit what is pending, then arm the join.
Undojoin ==
    /\ JoinOffered
    /\ LET a == Appended(undojoin_pending)
       IN  /\ history' = a.history
           /\ views' = [views EXCEPT ![focus] = a.view]
    /\ changed' = FALSE
    /\ undojoin_pending' = TRUE
    /\ UNCHANGED <<text, old_state, focus, crashed, levelVars, clock>>

\* :set undolevels=N takes effect at the next commit.
set_undo_levels(n) ==
    /\ undo_levels' = n
    /\ lowered' = (lowered \/ n < history.len - 1)
    /\ UNCHANGED <<bufferVars, viewVars, clock>>

\* View::push_jump: the window is synced, then the cursor, a position in the
\* buffer as it is on screen, is recorded.
push_jump ==
    /\ PushWhileEditing \/ ~changed
    /\ LET w == sync_changes(history, views[focus])
       IN  views' = [views EXCEPT ![focus] = [w EXCEPT !.jumps = @ \cup {text}]]
    /\ crashed' = SyncPanics(history, views[focus])
    /\ UNCHANGED <<bufferVars, focus, levelVars, clock>>

\* Editor::focus: commit through the window being left, sync them all.
Focus(v) ==
    /\ v # focus
    /\ LET a  == Appended(undojoin_pending)
           ws == [views EXCEPT ![focus] = a.view]
       IN  /\ history' = a.history
           /\ views' = [w \in Views |-> sync_changes(a.history, ws[w])]
           /\ crashed' = \E w \in Views : SyncPanics(a.history, ws[w])
    /\ changed' = FALSE
    /\ JoinAfterAppend
    /\ focus' = v
    /\ UNCHANGED <<text, old_state, levelVars, clock>>

Tick ==
    /\ clock < MaxClock
    /\ clock' = clock + 1
    /\ UNCHANGED <<bufferVars, viewVars, levelVars>>

Next ==
    \/ \E t \in Text : Edit(t)
    \/ append_changes_to_history
    \/ Undo
    \/ Redo
    \/ \E n \in Steps : Earlier(n)
    \/ \E n \in Steps : Later(n)
    \/ \E d \in Periods : EarlierPeriod(d)
    \/ \E d \in Periods : LaterPeriod(d)
    \/ \E r \in 0 .. MaxLen : jump_to_revision(r)
    \/ Undojoin
    \/ \E n \in LevelChoices : set_undo_levels(n)
    \/ push_jump
    \/ \E v \in Views : Focus(v)
    \/ Tick

Spec == Init /\ [][Next]_docVars

-----------------------------------------------------------------------------
(* Properties. *)

\* The history is always a tree by index whose redo links lead to children,
\* also where undolevels and :undojoin have rewritten it.
TypeOK ==
    /\ text \in Texts /\ old_state \in Texts
    /\ changed \in BOOLEAN /\ undojoin_pending \in BOOLEAN /\ crashed \in BOOLEAN
    /\ IsHistory(history, Texts)
    /\ undo_levels \in {0} \cup LevelChoices /\ lowered \in BOOLEAN
    /\ focus \in Views
    /\ views \in [Views -> [rev : Nat, jumps : SUBSET Texts]]
    /\ clock \in Nat

\* The text the last commit left: the buffer without its uncommitted edits.
CommittedText == IF changed THEN old_state ELSE text

\* Whatever sequence of edits, commits, undos, redos and jumps through
\* whichever window led here, the buffer is exactly what the current revision
\* recorded, plus the uncommitted edits, and every revision starts from what
\* its parent left, so that every further undo, redo or jump is exact too.
BufferIsCurrentRevision ==
    /\ Chained(history)
    /\ CommittedText = history.rev[history.current].post

\* The jumps a window recorded are positions in the text of the revision its
\* doc_revisions entry names, so the next sync maps them from the right text.
JumpsMatchRevision ==
    \A v \in Views :
        /\ views[v].rev \in 0 .. history.len - 1
        /\ views[v].jumps \subseteq {history.rev[views[v].rev].post}

\* The focused window is never behind: commits go through it unsynced.
FocusedViewInStep == views[focus].rev = history.current

\* However far a window lags, however often undolevels renumbers the revisions
\* under it and whichever branch is left, no sync asks for the changes since a
\* revision that does not exist, unless undolevels is set below the number of
\* revisions held (which drops several at the next commit).
SyncNeverPanics == crashed => lowered

\* Redo takes the branch made last (undo-tree doc: "Redo the last edit").
RedoTakesNewestBranch ==
    \A i \in 0 .. history.len - 1 :
        LET c == Children(history, i)
        IN  IF c = {} THEN history.rev[i].last_child = None
                      ELSE /\ history.rev[i].last_child \in c
                           /\ \A j \in c : j <= history.rev[i].last_child

\* Ancestors of a revision, itself included, by transitive closure.
Ancestors(h, n) ==
    {a \in 0 .. n : \A S \in SUBSET (0 .. n) :
        n \in S /\ (\A i \in S : h.rev[i].parent \in S) => a \in S}

\* The lock-step climb meets at the lowest common ancestor of its arguments.
ClimbMeetsAtLowestAncestor ==
    \A a, b \in 0 .. history.len - 1 :
        LET both == Ancestors(history, a) \cap Ancestors(history, b)
            lca  == lowest_common_ancestor(history, a, b)
        IN  lca \in both /\ \A c \in both : c <= lca

\* changes_since(r) leads from the text of r to the text of the current
\* revision, for every r a window or a caller may have kept.
ChangesSinceLeadToCurrent ==
    \A r \in 0 .. history.len - 1 :
        {o.text : o \in Replay(changes_since(history, r), history.rev[r].post)}
            = {history.rev[history.current].post}

Gap(h, i, instant) == LET d == h.rev[i].timestamp - instant IN IF d < 0 THEN -d ELSE d

\* Time travel goes to a revision whose commit is nearest to the instant asked
\* for ("will match a revision created `duration` ago").
TimeTravelPicksNearest ==
    \A d \in Periods : \A instant \in {CurrentTime(history) - d, CurrentTime(history) + d} :
        \A i \in jump_instant(history, instant) : \A j \in 0 .. history.len - 1 :
            Gap(history, i, instant) <= Gap(history, j, instant)

\* undolevels only shortens how far back undo reaches: dropping the oldest
\* revisions of a history without branches leaves every other one exact.
TrimKeepsLinearHistoryExact ==
    [][~undojoin_pending /\ Linear(history) /\ BufferIsCurrentRevision /\ Linear(history')
          => BufferIsCurrentRevision']_docVars

\* A committed revision is never altered, moved or dropped: the indices kept
\* by windows, by saves in flight and by the undo tree keep their meaning.
RevisionsArePermanent ==
    [][\A i \in 0 .. history.len - 1 :
          /\ i < history'.len
          /\ history'.rev[i].parent = history.rev[i].parent
          /\ history'.rev[i].pre  = history.rev[i].pre
          /\ history'.rev[i].post = history.rev[i].post]_docVars

\* Joining the next change into the current revision leaves everything exact,
\* as long as no revision was made from the one joined: wherever :undojoin was
\* armed and whatever was undone, jumped or committed since, the joined changes
\* fit each other, and undo returns to where the first one started.
JoinsKeepHistoryExact ==
    [][BufferIsCurrentRevision /\ undo_levels = 0
          /\ (undojoin_pending => Children(history, history.current) = {})
          => BufferIsCurrentRevision']_docVars

\* A commit never leaves more revisions than undolevels allows.
CommitsStayWithinUndoLevels ==
    [][history'.len # history.len /\ undo_levels # 0
          => history'.len - 1 <= undo_levels]_docVars

\* The undo tree, the uncommitted change set and the jumps keep the simple
\* promise of module Timeline.
Promise == INSTANCE Timeline WITH
    past       <- [i \in 0 .. history.len - 1 |-> history.rev[i].post],
    count      <- history.len,
    at         <- history.current,
    shown      <- text,
    unrecorded <- changed

KeepsTimelinePromise == Promise!Spec
=============================================================================
