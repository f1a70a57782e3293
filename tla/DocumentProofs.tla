--------------------------- MODULE DocumentProofs ---------------------------
(***************************************************************************)
(* Proofs about module Document.  For every instance: type correctness,    *)
(* the common ancestor, what commits leave to undo.  Without undolevels    *)
(* and :undojoin: undo, redo and time travel are exact.  And without jumps *)
(* pushed while editing: window jumps are exact, and the tree implements   *)
(* the plain timeline of module Timeline.                                  *)
(***************************************************************************)
EXTENDS Document, UndoTreeProofs

ViewType == [rev : Nat, jumps : SUBSET Texts]

\* The type of the variables an action on the buffer may change.
LEMMA TypeParts ==
    ASSUME TypeOK
    PROVE  /\ text \in Texts /\ old_state \in Texts /\ Garbled \in Texts
           /\ IsHistory(history, Texts)
           /\ undo_levels \in Nat /\ clock \in Nat
           /\ views[focus] \in ViewType
           /\ \A v \in Views : views[v] \in ViewType
BY DocumentAssumption DEF TypeOK, ViewType, Texts

\* Mapping recorded jumps keeps them positions in texts.
LEMMA MappedTyped ==
    ASSUME NEW txns \in Seq(Txn(Texts)), NEW jumps \in SUBSET Texts
    PROVE  Mapped(txns, jumps) \in SUBSET Texts
<1>1. ASSUME NEW t \in jumps, NEW o \in Replay(txns, t) PROVE o.text \in Texts
  <2>1. Garbled \in Texts /\ t \in Texts
    BY DEF Texts
  <2>2. Replay(txns, t) \subseteq Result(Texts)
    BY <2>1, ReplayTyped
  <2> QED BY <2>2 DEF Result
<1> QED BY <1>1 DEF Mapped

\* Jumps recorded in one text are mapped to where its changes lead.
LEMMA MappedExact ==
    ASSUME NEW txns, NEW jumps, NEW p, NEW q, NEW n, jumps \subseteq {p},
           Replay(txns, p) = {Arrival(q, n)}
    PROVE  Mapped(txns, jumps) \subseteq {q}
<1>1. Arrival(q, n).text = q
  BY DEF Arrival
<1>2. ASSUME NEW t \in jumps, NEW o \in Replay(txns, t) PROVE o.text = q
  BY <1>1
<1> QED BY <1>2 DEF Mapped

\* Syncing a window keeps its type.
LEMMA SyncTyped ==
    ASSUME NEW h, IsHistory(h, Texts), NEW w \in ViewType
    PROVE  sync_changes(h, w) \in ViewType
<1>1. CASE w.rev = h.current \/ w.rev \notin DOMAIN h.rev
  BY <1>1 DEF sync_changes
<1>2. CASE ~(w.rev = h.current \/ w.rev \notin DOMAIN h.rev)
  <2>1. IsTree(h) /\ TextsIn(h, Texts) /\ h.current \in Indices(h)
    BY HistoryIsTree
  <2>2. w.rev \in Indices(h) /\ h.current \in Nat
    BY <1>2, <2>1 DEF IsHistory, Indices
  <2>3. changes_since(h, w.rev) \in Seq(Txn(Texts))
    BY <2>1, <2>2, RouteTyped DEF changes_since
  <2>4. Mapped(changes_since(h, w.rev), w.jumps) \in SUBSET Texts
    BY <2>3, MappedTyped DEF ViewType
  <2>5. sync_changes(h, w)
          = [rev |-> h.current, jumps |-> Mapped(changes_since(h, w.rev), w.jumps)]
    BY <1>2 DEF sync_changes
  <2> QED BY <2>2, <2>4, <2>5 DEF ViewType
<1> QED BY <1>1, <1>2

\* So does committing a change through it.
LEMMA CommittedTyped ==
    ASSUME TypeOK, NEW pre \in Texts, NEW post \in Texts, NEW join \in BOOLEAN,
           NEW w \in ViewType
    PROVE  /\ IsHistory(Committed(pre, post, join, w).history, Texts)
           /\ Committed(pre, post, join, w).view \in ViewType
<1> DEFINE x == [pre |-> pre, post |-> post]
           h == IF join THEN merge_last_revision(history, x, clock, undo_levels)
                        ELSE commit_revision(history, x, clock, undo_levels)
           u == [rev |-> h.current, jumps |-> Mapped(<<x>>, w.jumps)]
<1>1. /\ IsHistory(history, Texts) /\ undo_levels \in Nat /\ clock \in Nat
      /\ Garbled \in Texts
  BY TypeParts
<1>2. x \in Txn(Texts)
  BY DEF Txn
<1>3. IsHistory(h, Texts)
  <2> HIDE DEF x
  <2> QED BY <1>1, <1>2, CommitTyped, MergeTyped
<1>4. Committed(pre, post, join, w) = [history |-> h, view |-> u]
  BY DEF Committed
<1> HIDE DEF h
<1>5. u \in ViewType
  <2>1. h.current \in Nat
    BY <1>3, HistoryParts
  <2>2. <<x>> \in Seq(Txn(Texts)) /\ w.jumps \in SUBSET Texts
    BY <1>2 DEF ViewType
  <2> HIDE DEF x
  <2>3. Mapped(<<x>>, w.jumps) \in SUBSET Texts
    BY <2>2, MappedTyped
  <2> QED BY <2>1, <2>3 DEF ViewType
<1> HIDE DEF u
<1> QED BY <1>3, <1>4, <1>5

\* So does committing the pending edits, if there are any.
LEMMA AppendedTyped ==
    ASSUME TypeOK, NEW join \in BOOLEAN
    PROVE  /\ IsHistory(Appended(join).history, Texts)
           /\ Appended(join).view \in ViewType
<1>1. /\ text \in Texts /\ old_state \in Texts
      /\ IsHistory(history, Texts) /\ views[focus] \in ViewType
  BY TypeParts
<1>2. Appended(join) = IF ~changed THEN [history |-> history, view |-> views[focus]]
                                   ELSE Committed(old_state, text, join, views[focus])
  BY DEF Appended
<1>3. /\ IsHistory(Committed(old_state, text, join, views[focus]).history, Texts)
      /\ Committed(old_state, text, join, views[focus]).view \in ViewType
  BY <1>1, CommittedTyped
<1> QED BY <1>1, <1>2, <1>3

IsAppend(a) == IsHistory(a.history, Texts) /\ a.view \in ViewType

\* A move of a history, by whatever route, keeps the types.
LEMMA MovedTyped ==
    ASSUME TypeOK, NEW a, IsAppend(a), NEW m, TypedMove(a.history, m, Texts),
           Moved(a, m), undojoin_pending' \in BOOLEAN
    PROVE  TypeOK'
<1>1. text \in Texts /\ Garbled \in Texts
  BY TypeParts
<1>2. PICK o \in Replay(m.txns, text) :
        /\ text' = o.text
        /\ history' = m.history
        /\ changed' = FALSE
        /\ views' = [views EXCEPT ![focus] =
                        IF o.ok THEN sync_changes(m.history, a.view) ELSE a.view]
        /\ crashed' = (o.ok /\ SyncPanics(m.history, a.view))
        /\ UNCHANGED <<old_state, focus, levelVars, clock>>
  BY DEF Moved
<1>3. Replay(m.txns, text) \subseteq Result(Texts)
  BY <1>1, ReplayTyped DEF TypedMove
<1>4. o.text \in Texts /\ o.ok \in BOOLEAN
  BY <1>2, <1>3 DEF Result
<1>5. IsHistory(m.history, Texts)
  BY DEF TypedMove
<1>6. (IF o.ok THEN sync_changes(m.history, a.view) ELSE a.view) \in ViewType
  BY <1>5, SyncTyped DEF IsAppend
<1>7. views' \in [Views -> ViewType]
  BY <1>2, <1>6 DEF TypeOK, ViewType
<1>8. crashed' \in BOOLEAN
  BY <1>2
<1> QED BY <1>2, <1>4, <1>5, <1>7, <1>8 DEF TypeOK, ViewType, levelVars

\* Every step keeps the types.
LEMMA StepTyped == TypeOK /\ [Next]_docVars => TypeOK'
<1> SUFFICES ASSUME TypeOK, [Next]_docVars PROVE TypeOK'
  OBVIOUS
<1>1. /\ text \in Texts /\ old_state \in Texts /\ Garbled \in Texts
      /\ IsHistory(history, Texts)
      /\ undo_levels \in Nat /\ clock \in Nat
      /\ views[focus] \in ViewType
      /\ \A v \in Views : views[v] \in ViewType
  BY TypeParts
<1>2. changed \in BOOLEAN /\ undojoin_pending \in BOOLEAN
  BY DEF TypeOK
<1>3. \A join \in BOOLEAN : IsAppend(Appended(join))
  BY AppendedTyped DEF IsAppend
<1>4. IsAppend(Appended(undojoin_pending)) /\ IsAppend(Appended(FALSE))
  BY <1>2, <1>3
<1>5. JoinAfterAppend => undojoin_pending' \in BOOLEAN
  BY DEF JoinAfterAppend
<1>6. ASSUME NEW a, IsAppend(a), NEW r \in Nat, r < a.history.len, GoTo(a, r),
             undojoin_pending' \in BOOLEAN
      PROVE  TypeOK'
  <2>1. IsHistory(a.history, Texts) /\ a.history.len \in Nat \ {0}
    BY <1>6, HistoryParts DEF IsAppend
  <2>2. r \in Indices(a.history)
    BY <1>6, <2>1 DEF Indices
  <2>3. TypedMove(a.history, jump_to(a.history, r), Texts)
    BY <1>1, <2>1, <2>2, JumpMoves
  <2> QED BY <1>6, <2>3, MovedTyped DEF GoTo
<1>7. ASSUME NEW t \in Text, Edit(t) PROVE TypeOK'
  BY <1>1, <1>2, <1>7 DEF TypeOK, Edit, viewVars, levelVars, Texts
<1>8. CASE append_changes_to_history
  <2> DEFINE a == Appended(undojoin_pending)
  <2>1. IsHistory(a.history, Texts) /\ a.view \in ViewType
    BY <1>4 DEF IsAppend
  <2>2. history' = a.history /\ views' = [views EXCEPT ![focus] = a.view]
    BY <1>8 DEF append_changes_to_history
  <2> HIDE DEF a
  <2> QED BY <1>1, <1>8, <2>1, <2>2 DEF append_changes_to_history, TypeOK, ViewType, levelVars
<1>9. CASE Undo
  <2> DEFINE a == Appended(FALSE)
  <2>1. IsHistory(a.history, Texts) /\ IsAppend(a)
    BY <1>4 DEF IsAppend
  <2>2. Moved(a, undo(a.history)) /\ undojoin_pending' \in BOOLEAN
    BY <1>9 DEF Undo
  <2> HIDE DEF a
  <2>3. TypedMove(a.history, undo(a.history), Texts)
    BY <1>1, <2>1, UndoMoves
  <2> QED BY <2>1, <2>2, <2>3, MovedTyped
<1>10. CASE Redo
  <2>1. CASE changed
    BY <1>10, <2>1 DEF Redo, TypeOK, viewVars, levelVars, Moved
  <2>2. CASE ~changed
    <3> DEFINE a == Appended(FALSE)
    <3>1. a.history = history
      BY <2>2 DEF Appended
    <3>2. Moved(a, redo(history)) /\ undojoin_pending' \in BOOLEAN
      BY <1>10, <2>2 DEF Redo
    <3>3. IsAppend(a)
      BY <1>4
    <3> HIDE DEF a
    <3>4. TypedMove(a.history, redo(history), Texts)
      BY <1>1, <3>1, RedoMoves
    <3> QED BY <3>2, <3>3, <3>4, MovedTyped
  <2> QED BY <2>1, <2>2
<1>11. ASSUME NEW n \in Steps, Earlier(n) PROVE TypeOK'
  <2> DEFINE a == Appended(undojoin_pending)
  <2>1. IsAppend(a) /\ GoTo(a, jump_backward(a.history, n)) /\ undojoin_pending' \in BOOLEAN
    BY <1>4, <1>5, <1>11 DEF Earlier
  <2> HIDE DEF a
  <2>2. a.history.len \in Nat \ {0} /\ a.history.current \in 0 .. a.history.len - 1 /\ n \in Nat
    BY <2>1, HistoryParts, DocumentAssumption DEF IsAppend
  <2>3. jump_backward(a.history, n) \in Nat /\ jump_backward(a.history, n) < a.history.len
    BY <2>2 DEF jump_backward, SatSub
  <2> QED BY <1>6, <2>1, <2>3
<1>12. ASSUME NEW n \in Steps, Later(n) PROVE TypeOK'
  <2> DEFINE a == Appended(FALSE)
  <2>1. a.history = history /\ IsAppend(a)
    BY <1>4, <1>12 DEF Later, Appended
  <2>2. GoTo(a, jump_forward(history, n)) /\ undojoin_pending' \in BOOLEAN
    BY <1>2, <1>12 DEF Later
  <2> HIDE DEF a
  <2>3. history.len \in Nat \ {0} /\ history.current \in 0 .. history.len - 1 /\ n \in Nat
    BY <1>1, HistoryParts, DocumentAssumption
  <2>4. jump_forward(history, n) \in Nat /\ jump_forward(history, n) < history.len
    BY <2>3 DEF jump_forward, Least
  <2> QED BY <1>6, <2>1, <2>2, <2>4
<1>13. ASSUME NEW h, IsHistory(h, Texts), NEW instant \in Int,
              NEW r \in jump_instant(h, instant)
       PROVE  r \in Nat /\ r < h.len
  <2>1. h.len \in Nat \ {0}
    BY <1>13, HistoryParts
  <2> QED BY <1>13, <2>1, InstantTyped DEF Indices
<1>14. ASSUME NEW h, IsHistory(h, Texts) PROVE CurrentTime(h) \in Nat
  <2>1. h.rev[h.current] \in Revision(Texts)
    BY <1>14, HistoryParts
  <2> QED BY <2>1 DEF CurrentTime, Revision
<1>15. ASSUME NEW d \in Periods, EarlierPeriod(d) PROVE TypeOK'
  <2> DEFINE a == Appended(undojoin_pending)
  <2>1. IsAppend(a) /\ undojoin_pending' \in BOOLEAN
    BY <1>4, <1>5, <1>15 DEF EarlierPeriod
  <2>2. PICK r \in jump_instant(a.history, CurrentTime(a.history) - d) : GoTo(a, r)
    BY <1>15 DEF EarlierPeriod
  <2> HIDE DEF a
  <2>3. IsHistory(a.history, Texts) /\ CurrentTime(a.history) - d \in Int
    BY <1>14, <2>1, DocumentAssumption DEF IsAppend
  <2>4. r \in Nat /\ r < a.history.len
    BY <1>13, <2>2, <2>3
  <2> QED BY <1>6, <2>1, <2>2, <2>4
<1>16. ASSUME NEW d \in Periods, LaterPeriod(d) PROVE TypeOK'
  <2> DEFINE a == Appended(FALSE)
  <2>1. a.history = history /\ IsAppend(a) /\ undojoin_pending' \in BOOLEAN
    BY <1>2, <1>4, <1>16 DEF LaterPeriod, Appended
  <2>2. PICK r \in jump_instant(history, CurrentTime(history) + d) : GoTo(a, r)
    BY <1>16 DEF LaterPeriod
  <2> HIDE DEF a
  <2>3. CurrentTime(history) + d \in Int
    BY <1>1, <1>14, DocumentAssumption
  <2>4. r \in Nat /\ r < a.history.len
    BY <1>1, <1>13, <2>1, <2>2, <2>3
  <2> QED BY <1>6, <2>1, <2>2, <2>4
<1>17. ASSUME NEW to \in 0 .. MaxLen, jump_to_revision(to) PROVE TypeOK'
  <2> DEFINE a == Appended(undojoin_pending)
  <2>1. /\ IsAppend(a) /\ GoTo(a, Least(to, a.history.len - 1))
        /\ undojoin_pending' \in BOOLEAN
    BY <1>4, <1>5, <1>17 DEF jump_to_revision
  <2> HIDE DEF a
  <2>2. a.history.len \in Nat \ {0} /\ to \in Nat
    BY <2>1, HistoryParts, DocumentAssumption DEF IsAppend
  <2>3. Least(to, a.history.len - 1) \in Nat /\ Least(to, a.history.len - 1) < a.history.len
    BY <2>2 DEF Least
  <2> QED BY <1>6, <2>1, <2>3
<1>18. CASE Undojoin
  <2> DEFINE a == Appended(undojoin_pending)
  <2>1. IsHistory(a.history, Texts) /\ a.view \in ViewType
    BY <1>4 DEF IsAppend
  <2>2. history' = a.history /\ views' = [views EXCEPT ![focus] = a.view]
    BY <1>18 DEF Undojoin
  <2> HIDE DEF a
  <2> QED BY <1>1, <1>18, <2>1, <2>2 DEF Undojoin, TypeOK, ViewType, levelVars
<1>19. ASSUME NEW n \in LevelChoices, set_undo_levels(n) PROVE TypeOK'
  BY <1>19 DEF set_undo_levels, TypeOK, bufferVars, viewVars
<1>20. CASE push_jump
  <2> DEFINE w == sync_changes(history, views[focus])
  <2>1. w \in ViewType
    BY <1>1, SyncTyped
  <2>2. views' = [views EXCEPT ![focus] = [w EXCEPT !.jumps = w.jumps \cup {text}]]
    BY <1>20 DEF push_jump
  <2> HIDE DEF w
  <2>3. [w EXCEPT !.jumps = w.jumps \cup {text}] \in ViewType
    BY <1>1, <2>1 DEF ViewType
  <2>4. crashed' \in BOOLEAN
    BY <1>20 DEF push_jump, SyncPanics
  <2> QED BY <1>20, <2>2, <2>3, <2>4 DEF push_jump, TypeOK, ViewType, bufferVars, levelVars
<1>21. ASSUME NEW v \in Views, Focus(v) PROVE TypeOK'
  <2> DEFINE a == Appended(undojoin_pending)
             ws == [views EXCEPT ![focus] = a.view]
  <2>1. IsHistory(a.history, Texts) /\ a.view \in ViewType
    BY <1>4 DEF IsAppend
  <2>2. /\ history' = a.history
        /\ views' = [w \in Views |-> sync_changes(a.history, ws[w])]
        /\ crashed' = \E w \in Views : SyncPanics(a.history, ws[w])
    BY <1>21 DEF Focus
  <2> HIDE DEF a
  <2>3. \A w \in Views : ws[w] \in ViewType
    BY <1>1, <2>1 DEF TypeOK
  <2> HIDE DEF ws
  <2>4. \A w \in Views : sync_changes(a.history, ws[w]) \in ViewType
    BY <2>1, <2>3, SyncTyped
  <2>5. views' \in [Views -> ViewType] /\ crashed' \in BOOLEAN
    BY <2>2, <2>4
  <2>6. undojoin_pending' \in BOOLEAN
    BY <1>5, <1>21 DEF Focus
  <2> QED BY <1>1, <1>21, <2>1, <2>2, <2>5, <2>6 DEF Focus, TypeOK, ViewType, levelVars
<1>22. CASE Tick
  BY <1>1, <1>22 DEF Tick, TypeOK, bufferVars, viewVars, levelVars
<1>23. CASE UNCHANGED docVars
  BY <1>23 DEF docVars, bufferVars, viewVars, levelVars, TypeOK
<1> QED BY <1>7, <1>8, <1>9, <1>10, <1>11, <1>12, <1>15, <1>16, <1>17, <1>18, <1>19,
           <1>20, <1>21, <1>22, <1>23 DEF Next

\* The initial state has the types.
LEMMA InitTyped == Init => TypeOK
<1> SUFFICES ASSUME Init PROVE TypeOK
  OBVIOUS
<1>1. text \in Texts
  BY DEF Init, Texts
<1>2. IsHistory(history, Texts)
  BY <1>1, NewHistoryTyped DEF Init
<1> QED BY <1>1, <1>2 DEF Init, TypeOK

\* The undo history is a tree by index, redo links included, and every
\* variable keeps its type: whatever the texts, windows, undolevels and
\* :undojoin, and however wrong the texts a transaction is applied to.
THEOREM TypeCorrect == Spec => []TypeOK
<1>1. Init => TypeOK
  BY InitTyped
<1>2. TypeOK /\ [Next]_docVars => TypeOK'
  BY StepTyped
<1> QED BY <1>1, <1>2, PTL DEF Spec

-----------------------------------------------------------------------------
(* The kinds of steps: what every action has in common with others. *)

\* Nothing is committed.
Unappended == [history |-> history, view |-> views[focus]]

\* Only the commit of a is carried out.
Recorded(a) ==
    /\ history' = a.history
    /\ text' = text /\ changed' = FALSE

IsMove(h, m) == TypedMove(h, m, Texts) /\ (Chained(h) => ExactMove(h, m))

\* A step edits the text or leaves it alone, or it commits what is pending and
\* then stays or moves.
Kind(a) ==
    \/ /\ a = Unappended
       /\ \/ \E t \in Text : Edit(t)
          \/ UNCHANGED <<text, changed, old_state, history>>
    \/ /\ \E join \in BOOLEAN : (join => undojoin_pending) /\ a = Appended(join)
       /\ Recorded(a) \/ \E m : IsMove(a.history, m) /\ Moved(a, m)

Windows(a) == [views EXCEPT ![focus] = a.view]

\* Windows stay where they are or are synced, and only a window that is synced
\* can panic: the focused one, or any of them when the focus changes.
Follows(a) ==
    /\ \A v \in Views : views'[v].rev \in {Windows(a)[v].rev, history'.current}
    /\ crashed' => \/ crashed
                   \/ \E v \in Views : /\ v = focus \/ focus' # focus
                                       /\ Windows(a)[v].rev \notin 0 .. history'.len - 1

\* Syncing a window leaves it at its revision or at the current one.
LEMMA SyncGoesToCurrent ==
    ASSUME NEW h, NEW w
    PROVE  sync_changes(h, w).rev \in {w.rev, h.current}
BY DEF sync_changes

\* A move carries the windows along.
LEMMA MovedFollows ==
    ASSUME TypeOK, NEW a, IsAppend(a), NEW m, TypedMove(a.history, m, Texts), Moved(a, m)
    PROVE  Follows(a)
<1>1. PICK o \in Replay(m.txns, text) :
        /\ history' = m.history
        /\ views' = [views EXCEPT ![focus] =
                        IF o.ok THEN sync_changes(m.history, a.view) ELSE a.view]
        /\ crashed' = (o.ok /\ SyncPanics(m.history, a.view))
  BY DEF Moved
<1>2. DOMAIN m.history.rev = 0 .. m.history.len - 1
  BY DEF TypedMove, IsHistory
<1>3. views \in [Views -> ViewType] /\ focus \in Views
  BY DEF TypeOK, ViewType
<1>4. ASSUME NEW v \in Views PROVE views'[v].rev \in {Windows(a)[v].rev, history'.current}
  <2>1. CASE v = focus
    <3>1. /\ Windows(a)[v] = a.view
          /\ views'[v] = sync_changes(m.history, a.view) \/ views'[v] = a.view
      BY <1>1, <1>3, <2>1 DEF Windows
    <3> QED BY <1>1, <3>1, SyncGoesToCurrent
  <2>2. CASE v # focus
    BY <1>1, <1>3, <2>2 DEF Windows
  <2> QED BY <2>1, <2>2
<1>5. crashed' => Windows(a)[focus].rev \notin 0 .. history'.len - 1
  BY <1>1, <1>2, <1>3 DEF SyncPanics, Windows
<1> QED BY <1>3, <1>4, <1>5 DEF Follows

\* Every step is of one of these kinds.
LEMMA StepKinds ==
    ASSUME TypeOK, [Next]_docVars
    PROVE  \E a : IsAppend(a) /\ Kind(a) /\ Follows(a)
<1>1. /\ Garbled \in Texts
      /\ IsHistory(history, Texts)
      /\ views[focus] \in ViewType
      /\ changed \in BOOLEAN /\ undojoin_pending \in BOOLEAN
      /\ focus \in Views /\ views \in [Views -> ViewType]
  BY TypeParts DEF TypeOK, ViewType
<1>2. /\ IsAppend(Unappended)
      /\ \A join \in BOOLEAN : IsAppend(Appended(join))
  BY <1>1, AppendedTyped DEF IsAppend, Unappended
<1>3. Windows(Unappended) = views
  BY <1>1 DEF Windows, Unappended
<1>4. \A h : IsHistory(h, Texts) => h.len \in Nat \ {0} /\ h.current \in 0 .. h.len - 1
  BY HistoryParts
<1>5. ASSUME NEW join \in BOOLEAN, join => undojoin_pending, NEW m,
             IsMove(Appended(join).history, m), Moved(Appended(join), m)
      PROVE  \E a : IsAppend(a) /\ Kind(a) /\ Follows(a)
  <2> DEFINE a == Appended(join)
  <2>1. IsAppend(a)
    BY <1>2
  <2>2. Kind(a)
    BY <1>5 DEF Kind
  <2>3. Follows(a)
    <3> HIDE DEF a
    <3>1. IsMove(a.history, m) /\ Moved(a, m)
      BY <1>5 DEF a
    <3> QED BY <2>1, <3>1, MovedFollows DEF IsMove
  <2> QED BY <2>1, <2>2, <2>3
<1>6. ASSUME NEW join \in BOOLEAN, join => undojoin_pending,
             NEW r \in Nat, r < Appended(join).history.len, GoTo(Appended(join), r)
      PROVE  \E a : IsAppend(a) /\ Kind(a) /\ Follows(a)
  <2> DEFINE h == Appended(join).history
  <2>1. IsHistory(h, Texts) /\ h.len \in Nat \ {0}
    BY <1>2, <1>4 DEF IsAppend
  <2> HIDE DEF h
  <2>2. r \in Indices(h)
    BY <1>6, <2>1 DEF Indices, h
  <2>3. IsMove(h, jump_to(h, r))
    BY <1>1, <2>1, <2>2, JumpMoves DEF IsMove
  <2> QED BY <1>5, <1>6, <2>3 DEF GoTo, h
<1>7. ASSUME UNCHANGED <<text, changed, old_state, history, focus, crashed>>,
             \A v \in Views : views'[v].rev \in {views[v].rev, history'.current}
      PROVE  \E a : IsAppend(a) /\ Kind(a) /\ Follows(a)
  <2>1. Kind(Unappended)
    BY <1>7 DEF Kind
  <2>2. Follows(Unappended)
    BY <1>3, <1>7 DEF Follows
  <2> QED BY <1>2, <2>1, <2>2
<1>8. ASSUME NEW join \in BOOLEAN, join => undojoin_pending, Recorded(Appended(join)),
             Follows(Appended(join))
      PROVE  \E a : IsAppend(a) /\ Kind(a) /\ Follows(a)
  BY <1>2, <1>8 DEF Kind
<1>9. ASSUME NEW join \in BOOLEAN, join => undojoin_pending,
             views' = [views EXCEPT ![focus] = Appended(join).view], crashed' = crashed
      PROVE  Follows(Appended(join))
  BY <1>9 DEF Follows, Windows
<1>10. ASSUME NEW t \in Text, Edit(t) PROVE \E a : IsAppend(a) /\ Kind(a) /\ Follows(a)
  <2>1. views' = views /\ crashed' = crashed
    BY <1>10 DEF Edit, viewVars
  <2>2. Follows(Unappended)
    BY <1>3, <2>1 DEF Follows
  <2> QED BY <1>2, <1>10, <2>2 DEF Kind
<1>11. CASE append_changes_to_history
  <2>1. Recorded(Appended(undojoin_pending))
    BY <1>11 DEF append_changes_to_history, Recorded
  <2>2. Follows(Appended(undojoin_pending))
    BY <1>1, <1>9, <1>11 DEF append_changes_to_history
  <2> QED BY <1>1, <1>8, <2>1, <2>2
<1>12. CASE Undo
  <2> DEFINE h == Appended(FALSE).history
  <2>1. IsHistory(h, Texts)
    BY <1>2 DEF IsAppend
  <2>2. Moved(Appended(FALSE), undo(h))
    BY <1>12 DEF Undo
  <2> HIDE DEF h
  <2>3. IsMove(h, undo(h))
    BY <1>1, <2>1, UndoMoves DEF IsMove
  <2> QED BY <1>5, <2>2, <2>3 DEF h
<1>13. CASE Redo
  <2>1. CASE changed
    <3>1. UNCHANGED <<text, changed, old_state, history, focus, crashed, views>>
      BY <1>13, <2>1 DEF Redo, Moved, viewVars
    <3> QED BY <1>7, <3>1
  <2>2. CASE ~changed
    <3>1. Appended(FALSE).history = history /\ Moved(Appended(FALSE), redo(history))
      BY <1>13, <2>2 DEF Appended, Redo
    <3>2. IsMove(history, redo(history))
      BY <1>1, RedoMoves DEF IsMove
    <3> QED BY <1>5, <3>1, <3>2
  <2> QED BY <1>1, <2>1, <2>2
<1>14. ASSUME NEW n \in Steps, Earlier(n) PROVE \E a : IsAppend(a) /\ Kind(a) /\ Follows(a)
  <2> DEFINE h == Appended(undojoin_pending).history
             r == jump_backward(h, n)
  <2>1. GoTo(Appended(undojoin_pending), r)
    BY <1>14 DEF Earlier
  <2>2. h.len \in Nat \ {0} /\ h.current \in 0 .. h.len - 1 /\ n \in Nat
    BY <1>1, <1>2, <1>4, DocumentAssumption DEF IsAppend
  <2> HIDE DEF h
  <2>3. r \in Nat /\ r < h.len
    BY <2>2 DEF jump_backward, SatSub
  <2> HIDE DEF r
  <2> QED BY <1>1, <1>6, <2>1, <2>3 DEF h
<1>15. ASSUME NEW n \in Steps, Later(n) PROVE \E a : IsAppend(a) /\ Kind(a) /\ Follows(a)
  <2> DEFINE r == jump_forward(history, n)
  <2>1. Appended(FALSE).history = history /\ GoTo(Appended(FALSE), r)
    BY <1>15 DEF Later, Appended
  <2>2. history.len \in Nat \ {0} /\ history.current \in 0 .. history.len - 1 /\ n \in Nat
    BY <1>1, <1>4, DocumentAssumption
  <2>3. r \in Nat /\ r < history.len
    BY <2>2 DEF jump_forward, Least
  <2> HIDE DEF r
  <2> QED BY <1>6, <2>1, <2>3
<1>16. ASSUME NEW h, IsHistory(h, Texts), NEW instant \in Int,
              NEW r \in jump_instant(h, instant)
       PROVE  r \in Nat /\ r < h.len
  BY <1>4, <1>16, InstantTyped DEF Indices
<1>17. ASSUME NEW h, IsHistory(h, Texts) PROVE CurrentTime(h) \in Nat
  <2>1. h.rev[h.current] \in Revision(Texts)
    BY <1>17, HistoryParts
  <2> QED BY <2>1 DEF CurrentTime, Revision
<1>18. ASSUME NEW d \in Periods, EarlierPeriod(d)
       PROVE  \E a : IsAppend(a) /\ Kind(a) /\ Follows(a)
  <2> DEFINE h == Appended(undojoin_pending).history
  <2>1. PICK r \in jump_instant(h, CurrentTime(h) - d) : GoTo(Appended(undojoin_pending), r)
    BY <1>18 DEF EarlierPeriod
  <2>2. IsHistory(h, Texts)
    BY <1>1, <1>2 DEF IsAppend
  <2> HIDE DEF h
  <2>3. CurrentTime(h) - d \in Int
    BY <1>17, <2>2, DocumentAssumption
  <2>4. r \in Nat /\ r < h.len
    BY <1>16, <2>1, <2>2, <2>3
  <2> QED BY <1>1, <1>6, <2>1, <2>4 DEF h
<1>19. ASSUME NEW d \in Periods, LaterPeriod(d)
       PROVE  \E a : IsAppend(a) /\ Kind(a) /\ Follows(a)
  <2>1. Appended(FALSE).history = history
    BY <1>19 DEF LaterPeriod, Appended
  <2>2. PICK r \in jump_instant(history, CurrentTime(history) + d) : GoTo(Appended(FALSE), r)
    BY <1>19 DEF LaterPeriod
  <2>3. CurrentTime(history) + d \in Int
    BY <1>1, <1>17, DocumentAssumption
  <2>4. r \in Nat /\ r < history.len
    BY <1>1, <1>16, <2>2, <2>3
  <2> QED BY <1>6, <2>1, <2>2, <2>4
<1>20. ASSUME NEW to \in 0 .. MaxLen, jump_to_revision(to)
       PROVE  \E a : IsAppend(a) /\ Kind(a) /\ Follows(a)
  <2> DEFINE h == Appended(undojoin_pending).history
             r == Least(to, h.len - 1)
  <2>1. GoTo(Appended(undojoin_pending), r)
    BY <1>20 DEF jump_to_revision
  <2>2. h.len \in Nat \ {0} /\ to \in Nat
    BY <1>1, <1>2, <1>4, DocumentAssumption DEF IsAppend
  <2> HIDE DEF h
  <2>3. r \in Nat /\ r < h.len
    BY <2>2 DEF Least
  <2> HIDE DEF r
  <2> QED BY <1>1, <1>6, <2>1, <2>3 DEF h
<1>21. CASE Undojoin
  <2>1. Recorded(Appended(undojoin_pending))
    BY <1>21 DEF Undojoin, Recorded
  <2>2. Follows(Appended(undojoin_pending))
    BY <1>1, <1>9, <1>21 DEF Undojoin
  <2> QED BY <1>1, <1>8, <2>1, <2>2
<1>22. CASE push_jump
  <2> DEFINE w == sync_changes(history, views[focus])
  <2>1. w \in ViewType /\ w.rev \in {views[focus].rev, history.current}
    BY <1>1, SyncTyped, SyncGoesToCurrent
  <2>2. /\ views' = [views EXCEPT ![focus] = [w EXCEPT !.jumps = w.jumps \cup {text}]]
        /\ crashed' = SyncPanics(history, views[focus])
        /\ UNCHANGED <<text, changed, old_state, history, focus>>
    BY <1>22 DEF push_jump, bufferVars
  <2> HIDE DEF w
  <2>3. [w EXCEPT !.jumps = w.jumps \cup {text}].rev = w.rev
    BY <2>1 DEF ViewType
  <2>4. \A v \in Views : views'[v].rev \in {views[v].rev, history'.current}
    BY <1>1, <2>1, <2>2, <2>3
  <2>5. crashed' => views[focus].rev \notin 0 .. history'.len - 1
    BY <1>1, <2>2 DEF SyncPanics, IsHistory
  <2>6. Follows(Unappended)
    BY <1>1, <1>3, <2>4, <2>5 DEF Follows
  <2>7. Kind(Unappended)
    BY <2>2 DEF Kind
  <2> QED BY <1>2, <2>6, <2>7
<1>23. ASSUME NEW v \in Views, Focus(v) PROVE \E a : IsAppend(a) /\ Kind(a) /\ Follows(a)
  <2> DEFINE a == Appended(undojoin_pending)
  <2>1. /\ history' = a.history /\ focus' # focus
        /\ views' = [w \in Views |-> sync_changes(a.history, Windows(a)[w])]
        /\ crashed' = \E w \in Views : SyncPanics(a.history, Windows(a)[w])
    BY <1>1, <1>23 DEF Focus, Windows
  <2>2. Recorded(a)
    BY <1>23 DEF Focus, Recorded
  <2>3. DOMAIN a.history.rev = 0 .. a.history.len - 1
    BY <1>1, <1>2 DEF IsAppend, IsHistory
  <2>4. Follows(a)
    <3> HIDE DEF a
    <3>1. \A w \in Views : views'[w].rev \in {Windows(a)[w].rev, history'.current}
      BY <2>1, SyncGoesToCurrent
    <3> QED BY <2>1, <2>3, <3>1 DEF Follows, SyncPanics
  <2> QED BY <1>1, <1>8, <2>2, <2>4
<1>24. CASE Tick \/ UNCHANGED docVars \/ \E n \in LevelChoices : set_undo_levels(n)
  <2>1. UNCHANGED <<text, changed, old_state, history, focus, crashed, views>>
    BY <1>24 DEF Tick, docVars, set_undo_levels, bufferVars, viewVars
  <2> QED BY <1>7, <2>1
<1> QED BY <1>10, <1>11, <1>12, <1>13, <1>14, <1>15, <1>18, <1>19, <1>20, <1>21, <1>22,
           <1>23, <1>24 DEF Next

-----------------------------------------------------------------------------
(* Exactness. *)

\* How the editor is used when neither :set undolevels nor :undojoin is, and
\* no jump is pushed over uncommitted changes.
PlainUse == LevelChoices = {} /\ JoinOffered = FALSE /\ PushWhileEditing = FALSE

\* The inductive invariant.  The windows need the chain of revisions to be
\* mapped exactly, and a commit needs the focused window in step, because it
\* maps that window by its own change alone.
Exact ==
    /\ TypeOK
    /\ undojoin_pending = FALSE
    /\ BufferIsCurrentRevision
    /\ JumpsMatchRevision
    /\ FocusedViewInStep
    /\ crashed = FALSE

\* History g has every revision of history h, unaltered.
Keeps(h, g) ==
    /\ g.len >= h.len
    /\ \A i \in 0 .. h.len - 1 : /\ g.rev[i].parent = h.rev[i].parent
                                 /\ g.rev[i].pre = h.rev[i].pre
                                 /\ g.rev[i].post = h.rev[i].post

\* A window's jumps are positions in the text of its revision.
InPlace(h, w) == w.rev \in 0 .. h.len - 1 /\ w.jumps \subseteq {h.rev[w.rev].post}

\* History g is the history with the pending edits recorded as a revision.
Records(g) ==
    /\ g.len = IF changed THEN history.len + 1 ELSE history.len
    /\ changed => g.rev[history.len].post = text

\* A step that records the pending edits, and then may move.
Travelled == Records(history') /\ changed' = FALSE

\* What a step does to the buffer and its history.
Timed == \/ Travelled
         \/ \E t \in Text : Edit(t)
         \/ UNCHANGED <<text, changed, history>>

\* The history and the focused window after a commit that is exact.
ExactAppend(a) ==
    /\ IsAppend(a)
    /\ Records(a.history)
    /\ Chained(a.history)
    /\ a.history.rev[a.history.current].post = text
    /\ Keeps(history, a.history)
    /\ a.view.rev = a.history.current
    /\ a.view.jumps \subseteq {text}

\* Committing the pending edits records exactly the buffer.
LEMMA AppendedExact ==
    ASSUME PlainUse, Exact
    PROVE  ExactAppend(Appended(FALSE))
<1> DEFINE x == [pre |-> old_state, post |-> text]
           h == commit_revision(history, x, clock, undo_levels)
           a == Appended(FALSE)
<1>1. IsAppend(a)
  BY AppendedTyped DEF Exact, IsAppend
<1>2. /\ text \in Texts /\ old_state \in Texts /\ Garbled \in Texts
      /\ IsHistory(history, Texts) /\ clock \in Nat
  BY TypeParts DEF Exact
<1>3. history.len \in Nat \ {0} /\ history.current \in 0 .. history.len - 1
  BY <1>2, HistoryParts
<1>4. CASE ~changed
  <2>1. a.history = history /\ a.view = views[focus]
    BY <1>4 DEF Appended
  <2>2. Chained(history) /\ history.rev[history.current].post = text
    BY <1>4 DEF Exact, BufferIsCurrentRevision, CommittedText
  <2>3. views[focus].rev = history.current /\ views[focus].jumps \subseteq {text}
    BY <2>2 DEF Exact, JumpsMatchRevision, FocusedViewInStep, TypeOK
  <2>4. Keeps(history, history)
    BY <1>3 DEF Keeps
  <2> HIDE DEF a
  <2>5. ExactAppend(a)
    BY <1>1, <1>4, <2>1, <2>2, <2>3, <2>4 DEF ExactAppend, Records
  <2> QED BY <2>5 DEF a
<1>5. CASE changed
  <2>1. x \in Txn(Texts) /\ x.pre = old_state /\ x.post = text
    BY <1>2 DEF Txn
  <2>2. undo_levels = 0
    BY DEF Exact, TypeOK, PlainUse
  <2>3. h = Pushed(history, x, clock)
    BY <2>2 DEF commit_revision, trim_to_undo_levels
  <2>4. /\ a.history = h
        /\ a.view = [rev |-> h.current, jumps |-> Mapped(<<x>>, views[focus].jumps)]
    BY <1>5 DEF Appended, Committed
  <2>5. Chained(history) /\ x.pre = history.rev[history.current].post
    BY <1>5 DEF Exact, BufferIsCurrentRevision, CommittedText
  <2> HIDE DEF a, h, x
  <2>6. Chained(h) /\ h.rev[h.current].post = text
    BY <1>2, <2>1, <2>3, <2>5, PushedChained
  <2>7. Keeps(history, h) /\ Records(h)
    <3>1. /\ h.len = history.len + 1 /\ h.rev[history.len].post = x.post
          /\ \A i \in 0 .. history.len - 1 :
                /\ h.rev[i].parent = history.rev[i].parent
                /\ h.rev[i].pre = history.rev[i].pre /\ h.rev[i].post = history.rev[i].post
      BY <1>2, <2>1, <2>3, PushedParts
    <3> QED BY <1>3, <1>5, <2>1, <3>1 DEF Keeps, Records
  <2>8. Mapped(<<x>>, views[focus].jumps) \subseteq {text}
    <3>1. views[focus].jumps \subseteq {x.pre}
      BY <2>5 DEF Exact, JumpsMatchRevision, FocusedViewInStep, TypeOK
    <3>2. Replay(<<x>>, x.pre) = {Arrival(x.post, 1)}
      BY <1>2, <2>1, ReplayOne
    <3>3. Mapped(<<x>>, views[focus].jumps) \subseteq {x.post}
      BY <3>1, <3>2, MappedExact
    <3> QED BY <2>1, <3>3
  <2>9. ExactAppend(a)
    BY <1>1, <2>4, <2>6, <2>7, <2>8 DEF ExactAppend
  <2> QED BY <2>9 DEF a
<1> QED BY <1>4, <1>5 DEF Exact, TypeOK

\* Syncing maps a window's jumps to the current text.
LEMMA SyncExact ==
    ASSUME NEW h, IsHistory(h, Texts), Chained(h), NEW w, InPlace(h, w)
    PROVE  /\ InPlace(h, sync_changes(h, w)) /\ ~SyncPanics(h, w)
           /\ sync_changes(h, w).rev = h.current
<1>1. IsTree(h) /\ TextsIn(h, Texts) /\ h.current \in Indices(h)
  BY HistoryIsTree
<1>2. w.rev \in Indices(h) /\ DOMAIN h.rev = Indices(h)
  BY DEF InPlace, Indices, IsHistory
<1>3. ~SyncPanics(h, w)
  BY <1>2 DEF SyncPanics
<1>4. CASE w.rev = h.current
  <2>1. sync_changes(h, w) = w
    BY <1>4 DEF sync_changes
  <2> QED BY <1>3, <1>4, <2>1
<1>5. CASE w.rev # h.current
  <2> DEFINE r == Route(h, w.rev, h.current)
             s == [rev |-> h.current, jumps |-> Mapped(r, w.jumps)]
  <2>1. sync_changes(h, w) = s
    BY <1>2, <1>5 DEF sync_changes, changes_since
  <2>2. Garbled \in Texts
    BY DEF Texts
  <2>3. Replay(r, h.rev[w.rev].post) = {Arrival(h.rev[h.current].post, Len(r))}
    BY <1>1, <1>2, <2>2, RouteExact
  <2> HIDE DEF r
  <2>4. Mapped(r, w.jumps) \subseteq {h.rev[h.current].post}
    BY <2>3, MappedExact DEF InPlace
  <2>5. s.rev = h.current /\ s.jumps = Mapped(r, w.jumps)
    OBVIOUS
  <2> HIDE DEF s
  <2> QED BY <1>1, <1>3, <2>1, <2>4, <2>5 DEF InPlace, Indices
<1> QED BY <1>4, <1>5

\* A window that is in place stays so while the history only grows or moves.
LEMMA StaysInPlace ==
    ASSUME NEW h, NEW g, h.len \in Nat, g.len \in Nat, Keeps(h, g), NEW w, InPlace(h, w)
    PROVE  InPlace(g, w)
<1>1. w.rev \in 0 .. g.len - 1 /\ w.jumps \subseteq {h.rev[w.rev].post}
  BY DEF InPlace, Keeps
<1>2. g.rev[w.rev].post = h.rev[w.rev].post
  BY DEF InPlace, Keeps
<1> QED BY <1>1, <1>2 DEF InPlace

\* A move of a history that has just been committed to lands the buffer and
\* the focused window on the revision it goes to.
LEMMA MovedExact ==
    ASSUME PlainUse, Exact, NEW a, ExactAppend(a), NEW m,
           TypedMove(a.history, m, Texts), ExactMove(a.history, m),
           Moved(a, m), undojoin_pending' = FALSE
    PROVE  Exact' /\ Keeps(history, history') /\ Travelled
<1> DEFINE g == m.history
<1>1. PICK o \in Replay(m.txns, text) :
        /\ text' = o.text
        /\ history' = m.history
        /\ changed' = FALSE
        /\ views' = [views EXCEPT ![focus] =
                        IF o.ok THEN sync_changes(m.history, a.view) ELSE a.view]
        /\ crashed' = (o.ok /\ SyncPanics(m.history, a.view))
        /\ UNCHANGED <<old_state, focus, levelVars, clock>>
  BY DEF Moved
<1>2. TypeOK'
  <2>1. TypeOK /\ IsAppend(a) /\ undojoin_pending' \in BOOLEAN
    BY DEF Exact, ExactAppend
  <2> QED BY <2>1, MovedTyped
<1>3. IsHistory(g, Texts) /\ g.len = a.history.len /\ g.rev = a.history.rev
  BY DEF TypedMove
<1>4. o = Arrival(g.rev[g.current].post, Len(m.txns))
  BY <1>1, <1>3 DEF ExactMove, ExactAppend
<1>5. o.text = g.rev[g.current].post /\ (~o.ok => g.current = a.history.current)
  BY <1>4 DEF Arrival, ExactMove
<1>6. Chained(g) /\ Keeps(history, g)
  BY <1>3 DEF ExactAppend, Chained, Keeps
<1>7. /\ g.len \in Nat \ {0} /\ g.current \in 0 .. g.len - 1
      /\ history.len \in Nat \ {0}
      /\ a.history.current \in 0 .. a.history.len - 1
  BY <1>3, HistoryParts, TypeParts DEF Exact, ExactAppend, IsAppend
<1>8. InPlace(g, a.view)
  BY <1>3, <1>7 DEF InPlace, ExactAppend
<1> DEFINE w == IF o.ok THEN sync_changes(g, a.view) ELSE a.view
<1> HIDE DEF g
<1>9. InPlace(g, w) /\ w.rev = g.current /\ ~(o.ok /\ SyncPanics(g, a.view))
  <2>1. /\ InPlace(g, sync_changes(g, a.view)) /\ ~SyncPanics(g, a.view)
        /\ sync_changes(g, a.view).rev = g.current
    BY <1>3, <1>6, <1>8, SyncExact
  <2>2. ~o.ok => a.view.rev = g.current
    BY <1>5 DEF ExactAppend
  <2> QED BY <1>8, <2>1, <2>2
<1> HIDE DEF w
<1>10. /\ history' = g /\ text' = g.rev[g.current].post /\ changed' = FALSE
       /\ views' = [views EXCEPT ![focus] = w] /\ focus' = focus /\ crashed' = FALSE
  BY <1>1, <1>5, <1>9 DEF g, w
<1>11. ASSUME NEW v \in Views PROVE InPlace(g, views'[v])
  <2>1. CASE v = focus
    BY <1>9, <1>10, <2>1 DEF Exact, TypeOK
  <2>2. CASE v # focus
    <3>1. views'[v] = views[v] /\ InPlace(history, views[v])
      BY <1>10, <2>2 DEF Exact, TypeOK, JumpsMatchRevision, InPlace
    <3> QED BY <1>6, <1>7, <3>1, StaysInPlace
  <2> QED BY <2>1, <2>2
<1>12. BufferIsCurrentRevision'
  BY <1>6, <1>10 DEF BufferIsCurrentRevision, CommittedText
<1>13. JumpsMatchRevision'
  BY <1>10, <1>11 DEF JumpsMatchRevision, InPlace
<1>14. FocusedViewInStep'
  BY <1>9, <1>10 DEF FocusedViewInStep, Exact, TypeOK
<1>15. Travelled
  BY <1>3, <1>10 DEF Travelled, Records, ExactAppend
<1> QED BY <1>2, <1>6, <1>10, <1>12, <1>13, <1>14, <1>15 DEF Exact

\* Recording the pending edits without moving.
LEMMA RecordedExact ==
    ASSUME PlainUse, Exact, TypeOK', undojoin_pending' = FALSE, NEW a, ExactAppend(a),
           history' = a.history, text' = text, changed' = FALSE,
           views' = [views EXCEPT ![focus] = a.view], focus' = focus, crashed' = crashed
    PROVE  Exact' /\ Keeps(history, history') /\ Travelled
<1>1. /\ a.history.len \in Nat \ {0} /\ history.len \in Nat \ {0}
      /\ a.history.current \in 0 .. a.history.len - 1
  BY HistoryParts, TypeParts DEF Exact, ExactAppend, IsAppend
<1>2. ASSUME NEW v \in Views PROVE InPlace(a.history, views'[v])
  <2>1. CASE v = focus
    <3>1. views'[v] = a.view
      BY <2>1 DEF Exact, TypeOK
    <3> QED BY <1>1, <3>1 DEF InPlace, ExactAppend
  <2>2. CASE v # focus
    <3>1. views'[v] = views[v] /\ InPlace(history, views[v])
      BY <2>2 DEF Exact, TypeOK, JumpsMatchRevision, InPlace
    <3> QED BY <1>1, <3>1, StaysInPlace DEF ExactAppend
  <2> QED BY <2>1, <2>2
<1>3. BufferIsCurrentRevision'
  BY DEF BufferIsCurrentRevision, CommittedText, ExactAppend
<1>4. JumpsMatchRevision'
  BY <1>2 DEF JumpsMatchRevision, InPlace
<1>5. FocusedViewInStep'
  BY DEF FocusedViewInStep, Exact, TypeOK, ExactAppend
<1>6. Travelled
  BY DEF Travelled, ExactAppend
<1> QED BY <1>3, <1>4, <1>5, <1>6 DEF Exact, ExactAppend

\* Every step keeps the buffer and the windows exact, and alters no revision.
LEMMA StepExact ==
    ASSUME PlainUse
    PROVE  Exact /\ [Next]_docVars => Exact' /\ Keeps(history, history') /\ Timed
<1> SUFFICES ASSUME Exact, [Next]_docVars PROVE Exact' /\ Keeps(history, history') /\ Timed
  OBVIOUS
<1>1. TypeOK'
  BY StepTyped DEF Exact
<1>2. ExactAppend(Appended(FALSE)) /\ Appended(undojoin_pending) = Appended(FALSE)
  BY AppendedExact DEF Exact
<1>3. /\ Garbled \in Texts /\ IsHistory(history, Texts)
      /\ history.len \in Nat \ {0} /\ changed \in BOOLEAN
      /\ \A h : IsHistory(h, Texts) => h.len \in Nat \ {0} /\ h.current \in 0 .. h.len - 1
  BY TypeParts, HistoryParts DEF Exact, TypeOK
<1>4. Keeps(history, history)
  BY <1>3 DEF Keeps
<1>5. JoinAfterAppend => undojoin_pending' = FALSE
  BY DEF JoinAfterAppend, Exact
<1>6. ASSUME NEW a, ExactAppend(a), NEW r \in Nat, r < a.history.len, GoTo(a, r),
             undojoin_pending' = FALSE
      PROVE  Exact' /\ Keeps(history, history') /\ Timed
  <2>1. /\ IsHistory(a.history, Texts) /\ Chained(a.history)
        /\ r \in Indices(a.history)
    BY <1>3, <1>6 DEF ExactAppend, IsAppend, Indices
  <2>2. /\ TypedMove(a.history, jump_to(a.history, r), Texts)
        /\ ExactMove(a.history, jump_to(a.history, r))
    BY <1>3, <2>1, JumpMoves
  <2> QED BY <1>6, <2>2, MovedExact DEF GoTo, Timed
<1>7. ASSUME NEW t \in Text, Edit(t) PROVE Exact' /\ Keeps(history, history') /\ Timed
  <2>1. /\ text' = t /\ UNCHANGED <<undojoin_pending, history, focus, views, crashed>>
        /\ old_state' = IF changed THEN old_state ELSE text
        /\ changed' \in IF changed /\ t = old_state THEN BOOLEAN ELSE {TRUE}
    BY <1>7 DEF Edit, viewVars
  <2>2. CommittedText' = CommittedText
    BY <1>3, <2>1 DEF CommittedText
  <2>3. BufferIsCurrentRevision'
    BY <2>1, <2>2 DEF Exact, BufferIsCurrentRevision
  <2>4. JumpsMatchRevision' /\ FocusedViewInStep'
    BY <2>1 DEF Exact, JumpsMatchRevision, FocusedViewInStep
  <2> QED BY <1>1, <1>4, <1>7, <2>1, <2>3, <2>4 DEF Exact, Timed
<1>8. CASE append_changes_to_history
  <2>1. /\ history' = Appended(FALSE).history /\ text' = text /\ changed' = FALSE
        /\ views' = [views EXCEPT ![focus] = Appended(FALSE).view]
        /\ focus' = focus /\ crashed' = crashed /\ undojoin_pending' = FALSE
    BY <1>2, <1>8 DEF append_changes_to_history
  <2> QED BY <1>1, <1>2, <2>1, RecordedExact DEF Timed
<1>9. CASE Undo
  <2> DEFINE a == Appended(FALSE)
  <2>1. ExactAppend(a) /\ Moved(a, undo(a.history)) /\ undojoin_pending' = FALSE
    BY <1>2, <1>9 DEF Undo
  <2> HIDE DEF a
  <2>2. /\ TypedMove(a.history, undo(a.history), Texts)
        /\ ExactMove(a.history, undo(a.history))
    BY <1>3, <2>1, UndoMoves DEF ExactAppend, IsAppend
  <2> QED BY <2>1, <2>2, MovedExact DEF Timed
<1>10. CASE Redo
  <2>1. CASE changed
    <3>1. UNCHANGED <<text, changed, old_state, history, focus, views, crashed>>
          /\ undojoin_pending' = FALSE
      BY <1>10, <2>1 DEF Redo, viewVars
    <3>2. Chained(history) /\ CommittedText' = CommittedText
      BY <3>1 DEF CommittedText, Exact, BufferIsCurrentRevision
    <3> QED BY <1>1, <1>4, <3>1, <3>2 DEF Exact, BufferIsCurrentRevision, Timed,
                                          JumpsMatchRevision, FocusedViewInStep
  <2>2. CASE ~changed
    <3> DEFINE a == Appended(FALSE)
    <3>1. a.history = history
      BY <2>2 DEF Appended
    <3>2. ExactAppend(a) /\ Moved(a, redo(history)) /\ undojoin_pending' = FALSE
      BY <1>2, <1>10, <2>2 DEF Redo
    <3> HIDE DEF a
    <3>3. TypedMove(a.history, redo(history), Texts) /\ ExactMove(a.history, redo(history))
      BY <1>3, <3>1, <3>2, RedoMoves DEF ExactAppend
    <3> QED BY <3>2, <3>3, MovedExact DEF Timed
  <2> QED BY <2>1, <2>2
<1>11. ASSUME NEW n \in Steps, Earlier(n) PROVE Exact' /\ Keeps(history, history') /\ Timed
  <2> DEFINE a == Appended(FALSE)
  <2>1. ExactAppend(a) /\ GoTo(a, jump_backward(a.history, n)) /\ undojoin_pending' = FALSE
    BY <1>2, <1>5, <1>11 DEF Earlier
  <2> HIDE DEF a
  <2>2. a.history.len \in Nat \ {0} /\ a.history.current \in 0 .. a.history.len - 1 /\ n \in Nat
    BY <1>3, <2>1, DocumentAssumption DEF ExactAppend, IsAppend
  <2>3. jump_backward(a.history, n) \in Nat /\ jump_backward(a.history, n) < a.history.len
    BY <2>2 DEF jump_backward, SatSub
  <2> QED BY <1>6, <2>1, <2>3
<1>12. ASSUME NEW n \in Steps, Later(n) PROVE Exact' /\ Keeps(history, history') /\ Timed
  <2> DEFINE a == Appended(FALSE)
  <2>1. a.history = history /\ ExactAppend(a)
    BY <1>2, <1>12 DEF Later, Appended
  <2>2. GoTo(a, jump_forward(history, n)) /\ undojoin_pending' = FALSE
    BY <1>12 DEF Later, Exact
  <2> HIDE DEF a
  <2>3. history.len \in Nat \ {0} /\ history.current \in 0 .. history.len - 1 /\ n \in Nat
    BY <1>3, DocumentAssumption
  <2>4. jump_forward(history, n) \in Nat /\ jump_forward(history, n) < history.len
    BY <2>3 DEF jump_forward, Least
  <2> QED BY <1>6, <2>1, <2>2, <2>4
<1>13. ASSUME NEW h, IsHistory(h, Texts), NEW instant \in Int,
              NEW r \in jump_instant(h, instant)
       PROVE  r \in Nat /\ r < h.len
  BY <1>3, <1>13, InstantTyped DEF Indices
<1>14. ASSUME NEW h, IsHistory(h, Texts) PROVE CurrentTime(h) \in Nat
  <2>1. h.rev[h.current] \in Revision(Texts)
    BY <1>14, HistoryParts
  <2> QED BY <2>1 DEF CurrentTime, Revision
<1>15. ASSUME NEW d \in Periods, EarlierPeriod(d) PROVE Exact' /\ Keeps(history, history') /\ Timed
  <2> DEFINE a == Appended(FALSE)
  <2>1. ExactAppend(a) /\ undojoin_pending' = FALSE
    BY <1>2, <1>5, <1>15 DEF EarlierPeriod
  <2>2. PICK r \in jump_instant(a.history, CurrentTime(a.history) - d) : GoTo(a, r)
    BY <1>2, <1>15 DEF EarlierPeriod
  <2> HIDE DEF a
  <2>3. IsHistory(a.history, Texts) /\ CurrentTime(a.history) - d \in Int
    BY <1>14, <2>1, DocumentAssumption DEF ExactAppend, IsAppend
  <2>4. r \in Nat /\ r < a.history.len
    BY <1>13, <2>2, <2>3
  <2> QED BY <1>6, <2>1, <2>2, <2>4
<1>16. ASSUME NEW d \in Periods, LaterPeriod(d) PROVE Exact' /\ Keeps(history, history') /\ Timed
  <2> DEFINE a == Appended(FALSE)
  <2>1. a.history = history /\ ExactAppend(a) /\ undojoin_pending' = FALSE
    BY <1>2, <1>16 DEF LaterPeriod, Appended, Exact
  <2>2. PICK r \in jump_instant(history, CurrentTime(history) + d) : GoTo(a, r)
    BY <1>16 DEF LaterPeriod
  <2> HIDE DEF a
  <2>3. CurrentTime(history) + d \in Int
    BY <1>3, <1>14, DocumentAssumption
  <2>4. r \in Nat /\ r < a.history.len
    BY <1>3, <1>13, <2>1, <2>2, <2>3
  <2> QED BY <1>6, <2>1, <2>2, <2>4
<1>17. ASSUME NEW to \in 0 .. MaxLen, jump_to_revision(to)
       PROVE  Exact' /\ Keeps(history, history') /\ Timed
  <2> DEFINE a == Appended(FALSE)
  <2>1. /\ ExactAppend(a) /\ GoTo(a, Least(to, a.history.len - 1))
        /\ undojoin_pending' = FALSE
    BY <1>2, <1>5, <1>17 DEF jump_to_revision
  <2> HIDE DEF a
  <2>2. a.history.len \in Nat \ {0} /\ to \in Nat
    BY <1>3, <2>1, DocumentAssumption DEF ExactAppend, IsAppend
  <2>3. Least(to, a.history.len - 1) \in Nat /\ Least(to, a.history.len - 1) < a.history.len
    BY <2>2 DEF Least
  <2> QED BY <1>6, <2>1, <2>3
<1>18. CASE Undojoin
  BY <1>18 DEF Undojoin, PlainUse
<1>19. ASSUME NEW n \in LevelChoices, set_undo_levels(n) PROVE FALSE
  BY DEF PlainUse
<1>20. CASE push_jump
  <2> DEFINE w == sync_changes(history, views[focus])
  <2>1. changed = FALSE /\ Chained(history) /\ text = history.rev[history.current].post
    BY <1>3, <1>20 DEF push_jump, PlainUse, Exact, BufferIsCurrentRevision, CommittedText
  <2>2. InPlace(history, views[focus])
    BY DEF Exact, TypeOK, JumpsMatchRevision, InPlace
  <2>3. InPlace(history, w) /\ w.rev = history.current /\ ~SyncPanics(history, views[focus])
    BY <1>3, <2>1, <2>2, SyncExact
  <2>4. w \in ViewType
    BY SyncTyped, TypeParts DEF Exact
  <2> DEFINE u == [w EXCEPT !.jumps = w.jumps \cup {text}]
  <2>5. views' = [views EXCEPT ![focus] = u] /\ crashed' = FALSE
        /\ UNCHANGED <<text, changed, old_state, undojoin_pending, history, focus>>
    BY <1>20, <2>3 DEF push_jump, bufferVars
  <2> HIDE DEF w
  <2>6. u.rev = history.current /\ InPlace(history, u)
    <3>1. u.rev = w.rev /\ u.jumps = w.jumps \cup {text}
      BY <2>4 DEF ViewType
    <3> HIDE DEF u
    <3> QED BY <2>1, <2>3, <3>1 DEF InPlace
  <2> HIDE DEF u
  <2>7. ASSUME NEW v \in Views PROVE InPlace(history, views'[v])
    <3>1. CASE v = focus
      BY <2>5, <2>6, <3>1 DEF Exact, TypeOK
    <3>2. CASE v # focus
      BY <2>5, <3>2 DEF Exact, TypeOK, JumpsMatchRevision, InPlace
    <3> QED BY <3>1, <3>2
  <2>8. JumpsMatchRevision' /\ FocusedViewInStep' /\ BufferIsCurrentRevision'
    <3>1. JumpsMatchRevision'
      BY <2>5, <2>7 DEF JumpsMatchRevision, InPlace
    <3>2. FocusedViewInStep'
      BY <2>5, <2>6 DEF FocusedViewInStep, Exact, TypeOK
    <3>3. BufferIsCurrentRevision'
      BY <2>5 DEF Exact, BufferIsCurrentRevision, CommittedText
    <3> QED BY <3>1, <3>2, <3>3
  <2> QED BY <1>1, <1>4, <2>5, <2>8 DEF Exact, Timed
<1>21. ASSUME NEW v \in Views, Focus(v) PROVE Exact' /\ Keeps(history, history') /\ Timed
  <2> DEFINE a == Appended(FALSE)
             ws == [views EXCEPT ![focus] = a.view]
  <2>1. ExactAppend(a) /\ undojoin_pending' = FALSE
    BY <1>2, <1>5, <1>21 DEF Focus
  <2>2. /\ history' = a.history /\ text' = text /\ changed' = FALSE /\ focus' = v
        /\ views' = [w \in Views |-> sync_changes(a.history, ws[w])]
        /\ crashed' = \E w \in Views : SyncPanics(a.history, ws[w])
    BY <1>2, <1>21 DEF Focus
  <2> HIDE DEF a
  <2>3. /\ IsHistory(a.history, Texts) /\ Chained(a.history) /\ Keeps(history, a.history)
        /\ a.history.len \in Nat \ {0} /\ a.history.current \in 0 .. a.history.len - 1
    BY <1>3, <2>1 DEF ExactAppend, IsAppend
  <2>4. ASSUME NEW w \in Views PROVE InPlace(a.history, ws[w])
    <3>1. CASE w = focus
      <4>1. ws[w] = a.view
        BY <3>1 DEF Exact, TypeOK
      <4> QED BY <2>1, <2>3, <4>1 DEF InPlace, ExactAppend
    <3>2. CASE w # focus
      <4>1. ws[w] = views[w] /\ InPlace(history, views[w])
        BY <3>2 DEF Exact, TypeOK, JumpsMatchRevision, InPlace
      <4> HIDE DEF ws
      <4> QED BY <1>3, <2>3, <4>1, StaysInPlace
    <3> QED BY <3>1, <3>2
  <2> HIDE DEF ws
  <2>5. ASSUME NEW w \in Views
        PROVE  /\ InPlace(a.history, sync_changes(a.history, ws[w]))
               /\ ~SyncPanics(a.history, ws[w])
               /\ sync_changes(a.history, ws[w]).rev = a.history.current
    BY <2>3, <2>4, SyncExact
  <2>6. crashed' = FALSE
    BY <2>2, <2>5
  <2>7. JumpsMatchRevision'
    BY <2>2, <2>5 DEF JumpsMatchRevision, InPlace
  <2>8. FocusedViewInStep'
    BY <2>2, <2>5 DEF FocusedViewInStep
  <2>9. BufferIsCurrentRevision'
    BY <2>1, <2>2 DEF BufferIsCurrentRevision, CommittedText, ExactAppend
  <2>10. Timed
    BY <2>1, <2>2 DEF Timed, Travelled, ExactAppend
  <2> QED BY <1>1, <2>1, <2>2, <2>3, <2>6, <2>7, <2>8, <2>9, <2>10 DEF Exact
<1>22. ASSUME UNCHANGED <<text, changed, old_state, undojoin_pending, history,
                          focus, views, crashed>>
       PROVE  Exact' /\ Keeps(history, history') /\ Timed
  <2>1. BufferIsCurrentRevision'
    BY <1>22 DEF Exact, BufferIsCurrentRevision, CommittedText
  <2>2. JumpsMatchRevision' /\ FocusedViewInStep'
    BY <1>22 DEF Exact, JumpsMatchRevision, FocusedViewInStep
  <2> QED BY <1>1, <1>4, <1>22, <2>1, <2>2 DEF Exact, Timed
<1>23. CASE Tick
  BY <1>22, <1>23 DEF Tick, bufferVars, viewVars
<1>24. CASE UNCHANGED docVars
  BY <1>22, <1>24 DEF docVars, bufferVars, viewVars
<1> QED BY <1>7, <1>8, <1>9, <1>10, <1>11, <1>12, <1>15, <1>16, <1>17, <1>18, <1>19,
           <1>20, <1>21, <1>23, <1>24 DEF Next

\* The initial state is exact.
LEMMA InitExact == Init => Exact
<1> SUFFICES ASSUME Init PROVE Exact
  OBVIOUS
<1>1. TypeOK
  BY InitTyped
<1>2. /\ text \in Texts /\ history = NewHistory(text, 0)
      /\ changed = FALSE /\ undojoin_pending = FALSE /\ crashed = FALSE /\ focus \in Views
      /\ views = [v \in Views |-> [rev |-> 0, jumps |-> {text}]]
  BY DEF Init, Texts
<1>3. Chained(history)
  BY <1>2, NewHistoryTyped
<1>4. history.len = 1 /\ history.current = 0 /\ history.rev[0].post = text
  BY <1>2 DEF NewHistory
<1> QED BY <1>1, <1>2, <1>3, <1>4 DEF Exact, BufferIsCurrentRevision, CommittedText,
                                      JumpsMatchRevision, FocusedViewInStep

\* Exactness is an invariant.
LEMMA AlwaysExact ==
    ASSUME PlainUse
    PROVE  Spec => []Exact
<1>1. Init => Exact
  BY InitExact
<1>2. Exact /\ [Next]_docVars => Exact'
  BY StepExact
<1> QED BY <1>1, <1>2, PTL DEF Spec

\* The jumps each window recorded stay positions in the text of the revision
\* its doc_revisions entry names, and that revision exists, however far the
\* window lags behind the edits, undos and time travel of the others.
THEOREM JumpsAreExact ==
    ASSUME PlainUse
    PROVE  Spec => []JumpsMatchRevision
<1>1. Exact => JumpsMatchRevision
  BY DEF Exact
<1> QED BY <1>1, AlwaysExact, PTL

\* The focused window is always at the current revision, which is what a
\* commit that maps it by the new change alone relies on.
THEOREM FocusNeverLags ==
    ASSUME PlainUse
    PROVE  Spec => []FocusedViewInStep
<1>1. Exact => FocusedViewInStep
  BY DEF Exact
<1> QED BY <1>1, AlwaysExact, PTL

\* Undo, redo and time travel over the tree of revisions implement the plain
\* timeline: recorded texts stay, moving shows exactly one of them, and edits
\* not yet recorded are recorded before they are moved away from.
THEOREM TreeImplementsTimeline ==
    ASSUME PlainUse
    PROVE  Spec => KeepsTimelinePromise
<1>1. Init => Promise!Init
  BY DEF Init, Promise!Init, NewHistory
<1>2. Exact /\ [Next]_docVars => [Promise!Next]_(Promise!timeVars)
  <2> SUFFICES ASSUME Exact, [Next]_docVars PROVE [Promise!Next]_(Promise!timeVars)
    OBVIOUS
  <2> DEFINE past(h) == [i \in 0 .. h.len - 1 |-> h.rev[i].post]
  <2>1. Exact' /\ Keeps(history, history') /\ Timed
    BY StepExact
  <2>2. /\ history.len \in Nat \ {0} /\ history'.len \in Nat \ {0}
        /\ history.current \in 0 .. history.len - 1
        /\ history'.current \in 0 .. history'.len - 1
        /\ changed \in BOOLEAN
    BY <2>1 DEF Exact, TypeOK, IsHistory, WellFormed
  <2>3. CASE Travelled
    <3>1. text' = history'.rev[history'.current].post
      BY <2>1, <2>3 DEF Travelled, Exact, BufferIsCurrentRevision, CommittedText
    <3>2. text' = past(history')[history'.current]
      BY <2>2, <3>1
    <3>3. CASE changed
      <4>1. history'.len = history.len + 1 /\ history'.rev[history.len].post = text
        BY <2>3, <3>3 DEF Travelled, Records
      <4>2. past(history') = [i \in 0 .. history.len |->
                                 IF i = history.len THEN text ELSE past(history)[i]]
        <5>1. \A i \in 0 .. history.len - 1 : history'.rev[i].post = history.rev[i].post
          BY <2>1 DEF Keeps
        <5> QED BY <2>2, <4>1, <5>1
      <4>3. Promise!Recorded = [i \in 0 .. history.len |->
                                 IF i = history.len THEN text ELSE past(history)[i]]
        BY DEF Promise!Recorded
      <4>4. Promise!Travel
        BY <2>2, <2>3, <3>2, <3>3, <4>1, <4>2, <4>3 DEF Promise!Travel, Travelled
      <4> QED BY <4>4 DEF Promise!Next
    <3>4. CASE ~changed
      <4>1. history'.len = history.len
        BY <2>3, <3>4 DEF Travelled, Records
      <4>2. past(history') = past(history)
        <5>1. \A i \in 0 .. history.len - 1 : history'.rev[i].post = history.rev[i].post
          BY <2>1 DEF Keeps
        <5> QED BY <2>2, <4>1, <5>1
      <4>3. Promise!Travel
        BY <2>2, <2>3, <3>2, <3>4, <4>1, <4>2 DEF Promise!Travel, Travelled
      <4> QED BY <4>3 DEF Promise!Next
    <3> QED BY <2>2, <3>3, <3>4
  <2>4. ASSUME NEW t \in Text, Edit(t) PROVE Promise!Next
    <3>1. /\ text' = t /\ history' = history
          /\ changed' \in IF changed /\ t = old_state THEN BOOLEAN ELSE {TRUE}
      BY <2>4 DEF Edit
    <3>2. ~changed' => text' = past(history)[history.current]
      <4>1. changed => old_state = past(history)[history.current]
        BY <2>2 DEF Exact, BufferIsCurrentRevision, CommittedText
      <4> QED BY <2>2, <3>1, <4>1
    <3>3. changed' \in IF changed THEN BOOLEAN ELSE {TRUE}
      BY <2>2, <3>1
    <3>4. Promise!Type
      BY <3>1, <3>2, <3>3 DEF Promise!Type
    <3> QED BY <3>4 DEF Promise!Next
  <2>5. CASE UNCHANGED <<text, changed, history>>
    BY <2>5 DEF Promise!timeVars
  <2> QED BY <2>1, <2>3, <2>4, <2>5 DEF Timed
<1> QED BY <1>1, <1>2, AlwaysExact, PTL DEF Spec, KeepsTimelinePromise, Promise!Spec
-----------------------------------------------------------------------------
(* The tree, whatever undolevels and :undojoin do to it. *)

PendingTxn == [pre |-> old_state, post |-> text]

\* The history with the pending edits committed, joined or not.
WithCommit(join) ==
    IF join THEN merge_last_revision(history, PendingTxn, clock, undo_levels)
            ELSE commit_revision(history, PendingTxn, clock, undo_levels)

\* The next history has the revisions of g, whichever of them it stands at.
RevisionsOf(g) == history'.len = g.len /\ history'.rev = g.rev

\* A step leaves the revisions alone or commits the pending edits.
LEMMA TreeStep ==
    ASSUME TypeOK, [Next]_docVars
    PROVE  \/ RevisionsOf(history)
           \/ /\ changed
              /\ \E join \in BOOLEAN : (join => undojoin_pending) /\ RevisionsOf(WithCommit(join))
<1>1. PICK a : IsAppend(a) /\ Kind(a)
  BY StepKinds
<1>2. CASE history' = history
  BY <1>2 DEF RevisionsOf
<1>3. CASE \E join \in BOOLEAN : /\ (join => undojoin_pending) /\ a = Appended(join)
                                 /\ Recorded(a) \/ \E m : IsMove(a.history, m) /\ Moved(a, m)
  <2>1. PICK join \in BOOLEAN :
               /\ (join => undojoin_pending) /\ a = Appended(join)
               /\ Recorded(a) \/ \E m : IsMove(a.history, m) /\ Moved(a, m)
    BY <1>3
  <2>2. RevisionsOf(a.history)
    <3>1. CASE Recorded(a)
      BY <3>1 DEF Recorded, RevisionsOf
    <3>2. CASE \E m : IsMove(a.history, m) /\ Moved(a, m)
      <4>1. PICK m : IsMove(a.history, m) /\ Moved(a, m)
        BY <3>2
      <4>2. history' = m.history
        BY <4>1 DEF Moved
      <4> QED BY <4>1, <4>2 DEF IsMove, TypedMove, RevisionsOf
    <3> QED BY <2>1, <3>1, <3>2
  <2>3. a.history = IF ~changed THEN history ELSE WithCommit(join)
    BY <2>1 DEF Appended, Committed, WithCommit, PendingTxn
  <2> QED BY <2>1, <2>2, <2>3
<1> QED BY <1>1, <1>2, <1>3 DEF Kind, Edit

\* What a commit works with.
LEMMA CommitParts ==
    ASSUME TypeOK
    PROVE  /\ IsHistory(history, Texts) /\ PendingTxn \in Txn(Texts)
           /\ clock \in Nat /\ undo_levels \in Nat
BY TypeParts DEF PendingTxn, Txn

\* Without :set undolevels nothing is ever dropped.
LEMMA Unbounded ==
    ASSUME TypeOK, LevelChoices = {}
    PROVE  undo_levels = 0
BY DEF TypeOK

\* Where :undojoin is not used, none is pending.
LEMMA NoneJoined ==
    ASSUME JoinOffered = FALSE, undojoin_pending = FALSE, [Next]_docVars
    PROVE  undojoin_pending' = FALSE
BY DEF Next, docVars, bufferVars, Edit, append_changes_to_history, Undo, Redo, Earlier, Later,
       EarlierPeriod, LaterPeriod, jump_to_revision, Undojoin, set_undo_levels, push_jump,
       Focus, Tick, JoinAfterAppend

\* Redo leads to the branch made last, as the undo tree's users expect, for
\* every tree of branches, with and without :undojoin, while undolevels is
\* unbounded.
THEOREM RedoIsNewest ==
    ASSUME LevelChoices = {}
    PROVE  Spec => []RedoTakesNewestBranch
<1>1. Init => TypeOK /\ NewestBranch(history)
  BY InitTyped, NewHistoryNewestBranch DEF Init
<1>2. TypeOK /\ NewestBranch(history) /\ [Next]_docVars => NewestBranch(history)'
  <2> SUFFICES ASSUME TypeOK, NewestBranch(history), [Next]_docVars
               PROVE  NewestBranch(history')
    OBVIOUS
  <2>1. \A g : RevisionsOf(g) /\ NewestBranch(g) => NewestBranch(history')
    BY DEF RevisionsOf, NewestBranch, Children
  <2>2. ASSUME NEW join \in BOOLEAN PROVE NewestBranch(WithCommit(join))
    BY CommitParts, Unbounded, UnboundedCommit, PushedNewestBranch, MergedNewestBranch
       DEF WithCommit
  <2> QED BY <2>1, <2>2, TreeStep
<1>3. NewestBranch(history) => RedoTakesNewestBranch
  BY DEF NewestBranch, RedoTakesNewestBranch
<1> QED BY <1>1, <1>2, <1>3, TypeCorrect, PTL DEF Spec

\* A commit leaves no more revisions than the undolevels it is made under, for
\* every sequence of :set undolevels, :undojoin and branches.
THEOREM CommitsAreBounded == Spec => CommitsStayWithinUndoLevels
<1>1. TypeOK /\ [Next]_docVars =>
        [history'.len # history.len /\ undo_levels # 0
            => history'.len - 1 <= undo_levels]_docVars
  <2> SUFFICES ASSUME TypeOK, [Next]_docVars, history'.len # history.len, undo_levels # 0
               PROVE  history'.len - 1 <= undo_levels
    OBVIOUS
  <2>1. PICK join \in BOOLEAN : RevisionsOf(WithCommit(join))
    BY TreeStep DEF RevisionsOf
  <2>2. /\ IsHistory(history, Texts) /\ PendingTxn \in Txn(Texts)
        /\ clock \in Nat /\ undo_levels \in Nat
    BY CommitParts
  <2>3. commit_revision(history, PendingTxn, clock, undo_levels).len - 1 <= undo_levels
    BY <2>2, CommitBounded
  <2>4. CASE ~join \/ history.current = 0
    BY <2>1, <2>3, <2>4 DEF WithCommit, RevisionsOf, merge_last_revision
  <2>5. CASE join /\ history.current # 0
    <3> DEFINE g == merge_last_revision(history, PendingTxn, clock, undo_levels)
    <3>1. g.len = history.len
      BY <2>2, <2>5, MergedParts
    <3>2. RevisionsOf(g)
      BY <2>1, <2>5 DEF WithCommit
    <3> HIDE DEF g
    <3> QED BY <3>1, <3>2 DEF RevisionsOf
  <2> QED BY <2>4, <2>5
<1> QED BY <1>1, TypeCorrect, PTL DEF Spec, CommitsStayWithinUndoLevels

\* The ancestors of a revision are what its climb passes through.
LEMMA AncestorsAreClimb ==
    ASSUME NEW h, IsTree(h), NEW n \in Indices(h), NEW a
    PROVE  a \in Ancestors(h, n) <=> \E k \in 0 .. h.len : a = Climb(h, n)[k]
<1> DEFINE c == Climb(h, n)
<1>1. /\ h.len \in Nat \ {0} /\ h.rev[0].parent = 0 /\ n \in Nat
      /\ c \in [0 .. h.len -> Indices(h)] /\ c[0] = n /\ c[h.len] = 0
      /\ \A k \in 1 .. h.len : c[k] = h.rev[c[k - 1]].parent
  BY ClimbSteps, ClimbReachesRoot DEF IsTree, Indices
<1>2. \A k \in 0 .. h.len : c[k] \in 0 .. n
  <2>1. ASSUME NEW k \in 0 .. h.len PROVE c[k] <= c[0]
    <3>1. 0 \in 0 .. h.len /\ 0 <= k
      BY <1>1
    <3> QED BY <3>1, ClimbFalls
  <2> HIDE DEF c
  <2> QED BY <1>1, <2>1 DEF Indices
<1> HIDE DEF c
<1>3. ASSUME NEW k \in 0 .. h.len,
             NEW S \in SUBSET (0 .. n), n \in S, \A i \in S : h.rev[i].parent \in S
      PROVE  c[k] \in S
  <2> DEFINE K == {j \in 0 .. h.len : c[j] \in S}
  <2>1. 0 \in K
    BY <1>1, <1>3
  <2>2. ASSUME NEW j \in 1 .. h.len, j - 1 \in K PROVE j \in K
    <3>1. c[j - 1] \in S
      BY <2>2
    <3>2. c[j] = h.rev[c[j - 1]].parent
      BY <1>1
    <3>3. c[j] \in S
      BY <1>3, <3>1, <3>2
    <3> QED BY <3>3
  <2> HIDE DEF K
  <2>3. \A j \in 0 .. h.len : j \in K
    BY <1>1, <2>1, <2>2, IntervalInduction
  <2> QED BY <2>3 DEF K
<1>4. ASSUME a \in Ancestors(h, n) PROVE \E k \in 0 .. h.len : a = c[k]
  <2> DEFINE S == {c[k] : k \in 0 .. h.len}
  <2>1. S \in SUBSET (0 .. n)
    BY <1>2
  <2>2. n \in S
    BY <1>1
  <2>3. ASSUME NEW k \in 0 .. h.len PROVE h.rev[c[k]].parent \in S
    <3>1. CASE k = h.len
      BY <1>1, <3>1
    <3>2. CASE k # h.len
      <4>1. k + 1 \in 1 .. h.len /\ k + 1 \in 0 .. h.len /\ k + 1 - 1 = k
        BY <1>1, <3>2
      <4>2. c[k + 1] = h.rev[c[k]].parent
        BY <1>1, <4>1
      <4> QED BY <4>1, <4>2
    <3> QED BY <3>1, <3>2
  <2>4. \A i \in S : h.rev[i].parent \in S
    BY <2>3
  <2> HIDE DEF S
  <2>5. a \in S
    BY <1>4, <2>1, <2>2, <2>4 DEF Ancestors
  <2> QED BY <2>5 DEF S
<1>5. ASSUME NEW k \in 0 .. h.len, a = c[k] PROVE a \in Ancestors(h, n)
  BY <1>2, <1>3, <1>5 DEF Ancestors
<1> QED BY <1>4, <1>5 DEF c

\* The lock-step climb of lowest_common_ancestor meets at the youngest
\* revision both arguments descend from, in every tree the editor can make.
THEOREM ClimbMeetsLowest == Spec => []ClimbMeetsAtLowestAncestor
<1>1. TypeOK => ClimbMeetsAtLowestAncestor
  <2> SUFFICES ASSUME TypeOK, NEW a \in 0 .. history.len - 1, NEW b \in 0 .. history.len - 1
               PROVE  LET both == Ancestors(history, a) \cap Ancestors(history, b)
                          lca  == lowest_common_ancestor(history, a, b)
                      IN  lca \in both /\ \A c \in both : c <= lca
    BY DEF ClimbMeetsAtLowestAncestor
  <2> DEFINE lca == lowest_common_ancestor(history, a, b)
  <2>1. IsTree(history) /\ a \in Indices(history) /\ b \in Indices(history)
    BY HistoryIsTree DEF TypeOK, Indices
  <2>2. \E i, j \in 0 .. history.len : /\ lca = Climb(history, a)[i]
                                       /\ lca = Climb(history, b)[j]
    BY <2>1, LcaOnBothClimbs
  <2>3. lca \in Ancestors(history, a) /\ lca \in Ancestors(history, b)
    BY <2>1, <2>2, AncestorsAreClimb
  <2>4. ASSUME NEW c, c \in Ancestors(history, a), c \in Ancestors(history, b) PROVE c <= lca
    <3>1. PICK i \in 0 .. history.len : c = Climb(history, a)[i]
      BY <2>1, <2>4, AncestorsAreClimb
    <3>2. PICK j \in 0 .. history.len : c = Climb(history, b)[j]
      BY <2>1, <2>4, AncestorsAreClimb
    <3> QED BY <2>1, <3>1, <3>2, LcaIsLowest
  <2> QED BY <2>3, <2>4
<1> QED BY <1>1, TypeCorrect, PTL

\* Committing the pending edits records exactly the buffer, if nothing it drops
\* was the start of a branch.
LEMMA CommitChained ==
    ASSUME TypeOK, BufferIsCurrentRevision, NEW a, a = Appended(FALSE),
           undo_levels = 0 \/ Linear(a.history)
    PROVE  Chained(a.history) /\ a.history.rev[a.history.current].post = text
<1>1. CASE ~changed
  BY <1>1 DEF Appended, BufferIsCurrentRevision, CommittedText
<1>2. CASE changed
  <2> DEFINE p == Pushed(history, PendingTxn, clock)
  <2>1. /\ IsHistory(history, Texts) /\ PendingTxn \in Txn(Texts)
        /\ clock \in Nat /\ undo_levels \in Nat
    BY CommitParts
  <2>2. a.history = trim_to_undo_levels(p, undo_levels)
    BY <1>2 DEF Appended, Committed, PendingTxn, commit_revision
  <2>3. IsHistory(p, Texts)
    BY <2>1, PushedTyped
  <2>4. Chained(p) /\ p.rev[p.current].post = text
    <3>1. /\ PendingTxn.pre = history.rev[history.current].post
          /\ PendingTxn.post = text /\ Chained(history)
      BY <1>2 DEF PendingTxn, BufferIsCurrentRevision, CommittedText
    <3> QED BY <2>1, <3>1, PushedChained
  <2> HIDE DEF p
  <2>5. undo_levels = 0 => a.history = p
    BY <2>2 DEF trim_to_undo_levels
  <2>6. \/ a.history = p
        \/ \E drop \in Nat : /\ drop # 0 /\ drop < p.current
                             /\ a.history = DropOldest(p, drop)
    BY <2>1, <2>2, <2>3, TrimDrops
  <2> QED BY <2>3, <2>4, <2>5, <2>6, DropOldestChained
<1> QED BY <1>1, <1>2

\* A step that commits and then may move is as exact as its commit.
LEMMA MoveChained ==
    ASSUME TypeOK, NEW a, IsAppend(a),
           Chained(a.history), a.history.rev[a.history.current].post = text,
           Recorded(a) \/ \E m : IsMove(a.history, m) /\ Moved(a, m)
    PROVE  BufferIsCurrentRevision'
<1>1. CASE Recorded(a)
  BY <1>1 DEF Recorded, BufferIsCurrentRevision, CommittedText
<1>2. ASSUME NEW m, IsMove(a.history, m), Moved(a, m) PROVE BufferIsCurrentRevision'
  <2>1. PICK o \in Replay(m.txns, text) :
          text' = o.text /\ history' = m.history /\ changed' = FALSE
    BY <1>2 DEF Moved
  <2>2. /\ ExactMove(a.history, m)
        /\ m.history.len = a.history.len /\ m.history.rev = a.history.rev
    BY <1>2 DEF IsMove, TypedMove
  <2>3. o = Arrival(m.history.rev[m.history.current].post, Len(m.txns))
    BY <2>1, <2>2 DEF ExactMove
  <2>4. text' = history'.rev[history'.current].post
    BY <2>1, <2>3 DEF Arrival
  <2>5. Chained(history')
    BY <2>1, <2>2 DEF Chained
  <2> QED BY <2>1, <2>4, <2>5 DEF BufferIsCurrentRevision, CommittedText
<1> QED BY <1>1, <1>2

\* The exactness of the buffer survives a step that joins nothing and trims
\* nothing but a history without branches.
LEMMA StaysExact ==
    ASSUME TypeOK, [Next]_docVars, ~undojoin_pending, BufferIsCurrentRevision,
           undo_levels = 0 \/ Linear(history')
    PROVE  BufferIsCurrentRevision'
<1>1. PICK a : IsAppend(a) /\ Kind(a)
  BY StepKinds
<1>2. ASSUME NEW t \in Text, Edit(t) PROVE BufferIsCurrentRevision'
  BY <1>2 DEF Edit, BufferIsCurrentRevision, CommittedText
<1>3. CASE UNCHANGED <<text, changed, old_state, history>>
  BY <1>3 DEF BufferIsCurrentRevision, CommittedText
<1>4. CASE /\ a = Appended(FALSE)
           /\ Recorded(a) \/ \E m : IsMove(a.history, m) /\ Moved(a, m)
  <2>1. RevisionsOf(a.history)
    BY <1>4 DEF Recorded, RevisionsOf, Moved, IsMove, TypedMove
  <2>2. undo_levels = 0 \/ Linear(a.history)
    BY <2>1 DEF RevisionsOf, Linear
  <2> QED BY <1>1, <1>4, <2>2, CommitChained, MoveChained
<1> QED BY <1>1, <1>2, <1>3, <1>4 DEF Kind

\* So does a commit joined into a revision that nothing hangs below.
LEMMA JoinChained ==
    ASSUME TypeOK, BufferIsCurrentRevision, undo_levels = 0, NEW a, a = Appended(TRUE),
           Children(history, history.current) = {}
    PROVE  Chained(a.history) /\ a.history.rev[a.history.current].post = text
<1>1. CASE ~changed
  BY <1>1 DEF Appended, BufferIsCurrentRevision, CommittedText
<1>2. CASE changed
  <2>1. /\ IsHistory(history, Texts) /\ PendingTxn \in Txn(Texts)
        /\ clock \in Nat /\ undo_levels \in Nat
    BY CommitParts
  <2>2. a.history = merge_last_revision(history, PendingTxn, clock, undo_levels)
    BY <1>2 DEF Appended, Committed, PendingTxn
  <2>3. /\ PendingTxn.pre = history.rev[history.current].post
        /\ PendingTxn.post = text /\ Chained(history)
    BY <1>2 DEF PendingTxn, BufferIsCurrentRevision, CommittedText
  <2>4. CASE history.current = 0
    <3>1. a.history = Pushed(history, PendingTxn, clock)
      BY <2>2, <2>4, UnboundedCommit DEF merge_last_revision
    <3> DEFINE p == Pushed(history, PendingTxn, clock)
    <3>2. Chained(p) /\ p.rev[p.current].post = PendingTxn.post
      BY <2>1, <2>3, PushedChained
    <3> HIDE DEF p
    <3> QED BY <2>3, <3>1, <3>2 DEF p
  <2>5. CASE history.current # 0
    <3> DEFINE g == merge_last_revision(history, PendingTxn, clock, undo_levels)
    <3>1. Chained(g) /\ g.rev[g.current].post = PendingTxn.post
      BY <2>1, <2>3, <2>5, MergedChained
    <3> HIDE DEF g
    <3> QED BY <2>2, <2>3, <3>1 DEF g
  <2> QED BY <2>4, <2>5
<1> QED BY <1>1, <1>2

\* :undojoin joins changes that fit, wherever it was armed and whatever was
\* undone, jumped or committed since: from an exact buffer and history, every
\* step leaves them exact, unless it joins into a revision that others were
\* made from.
THEOREM JoinsAreExact == Spec => JoinsKeepHistoryExact
<1>1. ASSUME TypeOK, [Next]_docVars, BufferIsCurrentRevision, undo_levels = 0,
             undojoin_pending => Children(history, history.current) = {}
      PROVE  BufferIsCurrentRevision'
  <2>1. PICK a : IsAppend(a) /\ Kind(a)
    BY <1>1, StepKinds
  <2>2. ASSUME NEW t \in Text, Edit(t) PROVE BufferIsCurrentRevision'
    BY <1>1, <2>2 DEF Edit, BufferIsCurrentRevision, CommittedText
  <2>3. CASE UNCHANGED <<text, changed, old_state, history>>
    BY <1>1, <2>3 DEF BufferIsCurrentRevision, CommittedText
  <2>4. ASSUME NEW join \in BOOLEAN, join => undojoin_pending, a = Appended(join),
               Recorded(a) \/ \E m : IsMove(a.history, m) /\ Moved(a, m)
        PROVE  BufferIsCurrentRevision'
    <3>1. Chained(a.history) /\ a.history.rev[a.history.current].post = text
      BY <1>1, <2>4, CommitChained, JoinChained
    <3> QED BY <1>1, <2>1, <2>4, <3>1, MoveChained
  <2> QED BY <2>1, <2>2, <2>3, <2>4 DEF Kind
<1>2. TypeOK /\ [Next]_docVars =>
        [BufferIsCurrentRevision /\ undo_levels = 0
            /\ (undojoin_pending => Children(history, history.current) = {})
            => BufferIsCurrentRevision']_docVars
  BY <1>1
<1> QED BY <1>2, TypeCorrect, PTL DEF Spec, JoinsKeepHistoryExact

\* Trimming the history leaves every revision it keeps exact, as long as the
\* history has no branches: undolevels only shortens how far back undo reaches.
THEOREM TrimIsExact == Spec => TrimKeepsLinearHistoryExact
<1>1. TypeOK /\ [Next]_docVars =>
        [~undojoin_pending /\ Linear(history) /\ BufferIsCurrentRevision /\ Linear(history')
            => BufferIsCurrentRevision']_docVars
  BY StaysExact
<1> QED BY <1>1, TypeCorrect, PTL DEF Spec, TrimKeepsLinearHistoryExact

\* The buffer, where :set undolevels and :undojoin are not used: what the
\* windows do, jumps pushed while editing included, does not matter.
BufferExact == TypeOK /\ undojoin_pending = FALSE /\ BufferIsCurrentRevision

LEMMA AlwaysBufferExact ==
    ASSUME LevelChoices = {}, JoinOffered = FALSE
    PROVE  Spec => []BufferExact
<1>1. Init => BufferExact
  BY InitTyped, InitExact DEF Init, BufferExact, Exact
<1>2. BufferExact /\ [Next]_docVars => BufferExact'
  BY StepTyped, NoneJoined, Unbounded, StaysExact DEF BufferExact
<1> QED BY <1>1, <1>2, PTL DEF Spec

\* Undo, redo and time travel are exact, for any number of texts, windows,
\* branches and revisions: without undolevels and :undojoin, the buffer is
\* always what the current revision recorded plus the uncommitted edits, and
\* every revision starts from what its parent left.
THEOREM UndoIsExact ==
    ASSUME LevelChoices = {}, JoinOffered = FALSE
    PROVE  Spec => []BufferIsCurrentRevision
<1>1. BufferExact => BufferIsCurrentRevision
  BY DEF BufferExact
<1> QED BY <1>1, AlwaysBufferExact, PTL

\* A step keeps every revision, or adds the pending edits to them.
LEMMA StepKeeps ==
    ASSUME BufferExact, LevelChoices = {}, [Next]_docVars
    PROVE  /\ Keeps(history, history')
           /\ \/ RevisionsOf(history)
              \/ changed /\ RevisionsOf(Pushed(history, PendingTxn, clock))
<1>1. /\ IsHistory(history, Texts) /\ PendingTxn \in Txn(Texts) /\ clock \in Nat
      /\ history.len \in Nat /\ undo_levels = 0 /\ undojoin_pending = FALSE
  BY CommitParts, Unbounded DEF IsHistory, BufferExact
<1>2. RevisionsOf(history) \/ (changed /\ RevisionsOf(Pushed(history, PendingTxn, clock)))
  BY <1>1, TreeStep, UnboundedCommit DEF WithCommit, BufferExact
<1> QED BY <1>1, <1>2, PushedParts DEF RevisionsOf, Keeps

\* Committed revisions keep their index, parent and texts for ever.
THEOREM RevisionsStay ==
    ASSUME LevelChoices = {}, JoinOffered = FALSE
    PROVE  Spec => RevisionsArePermanent
<1>1. BufferExact /\ [Next]_docVars =>
        [\A i \in 0 .. history.len - 1 :
            /\ i < history'.len
            /\ history'.rev[i].parent = history.rev[i].parent
            /\ history'.rev[i].pre  = history.rev[i].pre
            /\ history'.rev[i].post = history.rev[i].post]_docVars
  <2> SUFFICES ASSUME BufferExact, [Next]_docVars, NEW i \in 0 .. history.len - 1
               PROVE  /\ i < history'.len
                      /\ history'.rev[i].parent = history.rev[i].parent
                      /\ history'.rev[i].pre  = history.rev[i].pre
                      /\ history'.rev[i].post = history.rev[i].post
    OBVIOUS
  <2>1. IsHistory(history, Texts) /\ TypeOK'
    BY CommitParts, StepTyped DEF BufferExact
  <2>2. history.len \in Nat /\ history'.len \in Nat
    BY <2>1 DEF TypeOK, IsHistory
  <2> QED BY <2>2, StepKeeps DEF Keeps
<1> QED BY <1>1, AlwaysBufferExact, PTL DEF Spec, RevisionsArePermanent

-----------------------------------------------------------------------------
(* Panics. *)

\* undolevels was not set below the revisions that are held.
Within == undo_levels = 0 \/ history.len - 1 <= undo_levels

\* A commit then drops as many revisions as it adds, at most: the history never
\* gets shorter.
LEMMA NeverShorter ==
    ASSUME TypeOK, Within, [Next]_docVars
    PROVE  history.len <= history'.len
<1>1. /\ IsHistory(history, Texts) /\ PendingTxn \in Txn(Texts) /\ clock \in Nat
      /\ history.len \in Nat /\ undo_levels \in Nat
  BY CommitParts DEF IsHistory
<1>2. history.len <= commit_revision(history, PendingTxn, clock, undo_levels).len
  BY <1>1, CommitLength DEF Within
<1>3. ASSUME NEW join \in BOOLEAN PROVE history.len <= WithCommit(join).len
  <2>1. CASE ~join \/ history.current = 0
    BY <1>2, <2>1 DEF WithCommit, merge_last_revision
  <2>2. CASE join /\ history.current # 0
    <3>1. merge_last_revision(history, PendingTxn, clock, undo_levels).len = history.len
      BY <1>1, <2>2, MergedParts
    <3> QED BY <1>1, <2>2, <3>1 DEF WithCommit
  <2> QED BY <2>1, <2>2
<1> QED BY <1>1, <1>3, TreeStep DEF RevisionsOf

\* undolevels changes by :set undolevels alone.
LEMMA LevelStep ==
    ASSUME [Next]_docVars
    PROVE  \/ UNCHANGED <<undo_levels, lowered>>
           \/ /\ history' = history /\ undo_levels' \in LevelChoices
              /\ lowered' = (lowered \/ undo_levels' < history.len - 1)
BY DEF Next, docVars, bufferVars, levelVars, Edit, append_changes_to_history, Undo, Redo,
       Earlier, Later, EarlierPeriod, LaterPeriod, jump_to_revision, Undojoin,
       set_undo_levels, push_jump, Focus, Tick, GoTo, Moved

\* Unless it is set below them, the revisions held stay within undolevels.
LEMMA StaysWithin ==
    ASSUME TypeOK, Within, [Next]_docVars, lowered' = FALSE
    PROVE  Within'
<1>1. /\ IsHistory(history, Texts) /\ PendingTxn \in Txn(Texts)
      /\ clock \in Nat /\ undo_levels \in Nat /\ history.len \in Nat
  BY CommitParts DEF IsHistory
<1>2. CASE history' = history /\ undo_levels' \in LevelChoices /\ ~(undo_levels' < history.len - 1)
  BY <1>1, <1>2, DocumentAssumption DEF Within
<1>3. CASE undo_levels' = undo_levels
  <2>1. CASE undo_levels = 0
    BY <1>3, <2>1 DEF Within
  <2>2. CASE undo_levels # 0
    <3>1. ASSUME NEW join \in BOOLEAN PROVE WithCommit(join).len - 1 <= undo_levels
      <4>1. CASE ~join \/ history.current = 0
        BY <1>1, <2>2, <4>1, CommitBounded DEF WithCommit, merge_last_revision
      <4>2. CASE join /\ history.current # 0
        <5>1. merge_last_revision(history, PendingTxn, clock, undo_levels).len = history.len
          BY <1>1, <4>2, MergedParts
        <5> QED BY <2>2, <4>2, <5>1 DEF WithCommit, Within
      <4> QED BY <4>1, <4>2
    <3> QED BY <1>3, <2>2, <3>1, TreeStep DEF RevisionsOf, Within
  <2> QED BY <2>1, <2>2
<1> QED BY <1>2, <1>3, LevelStep

\* Every window stands at a revision that exists.
Standing == crashed = FALSE /\ \A v \in Views : views[v].rev \in 0 .. history.len - 1

\* A commit leaves the focused window at a revision that exists.
LEMMA CommitStands ==
    ASSUME TypeOK, Standing, NEW a, IsAppend(a), Kind(a)
    PROVE  a.view.rev \in 0 .. history'.len - 1
<1>1. views[focus].rev \in 0 .. history.len - 1
  BY DEF Standing, TypeOK
<1>2. a.history.current \in 0 .. a.history.len - 1
  BY HistoryParts DEF IsAppend
<1>3. CASE a = Unappended /\ history' = history
  BY <1>1, <1>3 DEF Unappended
<1>4. CASE /\ \E join \in BOOLEAN : (join => undojoin_pending) /\ a = Appended(join)
           /\ Recorded(a) \/ \E m : IsMove(a.history, m) /\ Moved(a, m)
  <2>1. history'.len = a.history.len
    BY <1>4 DEF Recorded, Moved, IsMove, TypedMove
  <2>2. PICK join \in BOOLEAN : a = Appended(join)
    BY <1>4
  <2>3. a.view.rev \in 0 .. a.history.len - 1
    <3>1. CASE ~changed
      BY <1>1, <2>2, <3>1 DEF Appended
    <3>2. CASE changed
      <4>1. a.view.rev = a.history.current
        BY <2>2, <3>2 DEF Appended, Committed
      <4> QED BY <1>2, <4>1
    <3> QED BY <3>1, <3>2
  <2> QED BY <2>1, <2>3
<1> QED BY <1>3, <1>4 DEF Kind, Edit

\* No window ever asks for the changes since a revision that does not exist,
\* for any number of texts, windows that lag, branches, joins and trims, until
\* undolevels is set below the number of revisions held.
THEOREM NoPanic == Spec => []SyncNeverPanics
<1> DEFINE Safe == lowered = FALSE => Standing /\ Within
<1>1. Init => TypeOK /\ Safe
  BY InitTyped DEF Init, Standing, Within, NewHistory
<1>2. TypeOK /\ Safe /\ [Next]_docVars => Safe'
  <2> SUFFICES ASSUME TypeOK, Safe, [Next]_docVars, lowered' = FALSE
               PROVE  Standing' /\ Within'
    OBVIOUS
  <2>0. Standing /\ Within
    <3>1. lowered = FALSE
      BY LevelStep DEF TypeOK
    <3> QED BY <3>1
  <2>1. PICK a : IsAppend(a) /\ Kind(a) /\ Follows(a)
    BY StepKinds
  <2>2. /\ history'.len \in Nat \ {0} /\ history'.current \in 0 .. history'.len - 1
        /\ crashed' \in BOOLEAN /\ focus \in Views /\ history.len \in Nat
        /\ views \in [Views -> ViewType]
    <3>1. IsHistory(history', Texts) /\ crashed' \in BOOLEAN
      BY StepTyped DEF TypeOK
    <3> QED BY <3>1, HistoryParts DEF TypeOK, ViewType, IsHistory
  <2>3. ASSUME NEW v \in Views PROVE Windows(a)[v].rev \in 0 .. history'.len - 1
    <3>1. CASE v = focus
      <4>1. Windows(a)[v] = a.view
        BY <2>2, <3>1 DEF Windows
      <4> QED BY <2>0, <2>1, <4>1, CommitStands
    <3>2. CASE v # focus
      <4>1. Windows(a)[v] = views[v]
        BY <2>2, <3>2 DEF Windows
      <4>2. history.len <= history'.len
        BY <2>0, NeverShorter
      <4> QED BY <2>0, <2>2, <4>1, <4>2 DEF Standing
    <3> QED BY <3>1, <3>2
  <2>4. \A v \in Views : views'[v].rev \in 0 .. history'.len - 1
    <3>1. \A v \in Views : views'[v].rev \in {Windows(a)[v].rev, history'.current}
      BY <2>1 DEF Follows
    <3> QED BY <2>2, <2>3, <3>1
  <2>5. crashed' = FALSE
    BY <2>0, <2>1, <2>2, <2>3 DEF Follows, Standing
  <2> QED BY <2>0, <2>4, <2>5, StaysWithin DEF Standing
<1>3. TypeOK /\ Safe => SyncNeverPanics
  BY DEF TypeOK, Standing, SyncNeverPanics
<1> QED BY <1>1, <1>2, <1>3, TypeCorrect, PTL DEF Spec

-----------------------------------------------------------------------------
(* Time travel. *)

\* Time does not run backwards.
LEMMA ClockRuns ==
    ASSUME TypeOK, [Next]_docVars
    PROVE  clock <= clock'
<1>1. clock \in Nat
  BY DEF TypeOK
<1>2. clock' = clock \/ clock' = clock + 1
  BY DEF Next, docVars, Edit, append_changes_to_history, Undo, Redo, Earlier, Later,
         EarlierPeriod, LaterPeriod, jump_to_revision, Undojoin, set_undo_levels, push_jump,
         Focus, Tick, GoTo, Moved
<1> QED BY <1>1, <1>2

\* jump_instant picks a revision nearest to the instant, in a history in the
\* order of time.
LEMMA InstantNearest ==
    ASSUME NEW h, IsHistory(h, Texts), NEW now, Ordered(h, now), NEW instant \in Int,
           NEW i \in jump_instant(h, instant), NEW j \in 0 .. h.len - 1
    PROVE  Gap(h, i, instant) <= Gap(h, j, instant)
<1> DEFINE exact == {k \in 0 .. h.len - 1 : h.rev[k].timestamp = instant}
           E == {k \in 0 .. h.len - 1 : h.rev[k].timestamp < instant}
           ip == Cardinality(E)
           near == revision_closer_to_instant(h, ip, instant)
<1>1. /\ h.len \in Nat \ {0}
      /\ \A k \in 0 .. h.len - 1 : h.rev[k].timestamp \in Nat
  BY HistoryParts DEF Revision
<1>2. /\ ip \in 0 .. h.len
      /\ \A k \in 0 .. h.len - 1 : h.rev[k].timestamp < instant <=> k < ip
  BY EarlierAreFirst
<1>3. \A k, l \in 0 .. h.len - 1 : k <= l => h.rev[k].timestamp <= h.rev[l].timestamp
  BY DEF Ordered
<1>4. ~ \E k \in 1 .. h.len - 1 : h.rev[k].timestamp < h.rev[k - 1].timestamp
  <2>1. \A k \in 1 .. h.len - 1 : /\ k \in 0 .. h.len - 1 /\ k - 1 \in 0 .. h.len - 1
                                  /\ k - 1 <= k
    BY <1>1
  <2>2. \A k \in 1 .. h.len - 1 : h.rev[k - 1].timestamp <= h.rev[k].timestamp
    BY <1>3, <2>1
  <2>3. \A k \in 1 .. h.len - 1 : /\ h.rev[k].timestamp \in Nat
                                  /\ h.rev[k - 1].timestamp \in Nat
    BY <1>1, <2>1
  <2> QED BY <2>2, <2>3
<1>5. i \in IF exact # {} THEN exact
            ELSE IF ip = 0     THEN {0}
            ELSE IF ip = h.len THEN {h.len - 1}
            ELSE {near}
  BY <1>4 DEF jump_instant
<1>6. \A k \in 0 .. h.len - 1 :
        Gap(h, k, instant) = IF h.rev[k].timestamp - instant < 0
                             THEN -(h.rev[k].timestamp - instant)
                             ELSE h.rev[k].timestamp - instant
  BY DEF Gap
<1> HIDE DEF ip
<1>7. CASE exact # {}
  <2>1. i \in exact
    BY <1>5, <1>7
  <2>2. Gap(h, i, instant) = 0
    BY <1>1, <1>6, <2>1
  <2> QED BY <1>1, <1>6, <2>2
<1>8. CASE exact = {}
  <2>1. \A k \in 0 .. h.len - 1 : h.rev[k].timestamp # instant
    BY <1>8
  <2> HIDE DEF exact
  <2>2. CASE ip = 0
    <3>1. i = 0
      BY <1>5, <1>8, <2>2
    <3>2. h.rev[0].timestamp <= h.rev[j].timestamp /\ ~(h.rev[0].timestamp < instant)
      BY <1>1, <1>2, <1>3, <2>2
    <3> QED BY <1>1, <1>6, <3>1, <3>2
  <2>3. CASE ip # 0 /\ ip = h.len
    <3>1. i = h.len - 1
      BY <1>5, <1>8, <2>3
    <3>2. h.rev[j].timestamp <= h.rev[i].timestamp /\ h.rev[i].timestamp < instant
      BY <1>1, <1>2, <1>3, <2>3, <3>1
    <3> QED BY <1>1, <1>6, <3>1, <3>2
  <2>4. CASE ip # 0 /\ ip # h.len
    <3>1. i = near
      BY <1>5, <1>8, <2>4
    <3>2. ip \in 0 .. h.len - 1 /\ ip - 1 \in 0 .. h.len - 1
      BY <1>1, <1>2, <2>4
    <3>3. near = IF instant - h.rev[ip - 1].timestamp < h.rev[ip].timestamp - instant
                 THEN ip - 1 ELSE ip
      BY DEF revision_closer_to_instant
    <3>4. h.rev[ip - 1].timestamp < instant /\ ~(h.rev[ip].timestamp < instant)
      BY <1>1, <1>2, <3>2
    <3>5. \/ h.rev[j].timestamp <= h.rev[ip - 1].timestamp
          \/ h.rev[ip].timestamp <= h.rev[j].timestamp
      BY <1>1, <1>3, <3>2
    <3> HIDE DEF near
    <3>6. /\ h.rev[ip].timestamp \in Nat /\ h.rev[ip - 1].timestamp \in Nat
          /\ h.rev[j].timestamp \in Nat
      BY <1>1, <3>2
    <3>7. /\ Gap(h, ip, instant) = h.rev[ip].timestamp - instant
          /\ Gap(h, ip - 1, instant) = instant - h.rev[ip - 1].timestamp
      BY <1>6, <3>2, <3>4, <3>6
    <3>8. \/ Gap(h, j, instant) >= instant - h.rev[ip - 1].timestamp
          \/ Gap(h, j, instant) >= h.rev[ip].timestamp - instant
      BY <1>6, <3>4, <3>5, <3>6
    <3>9. Gap(h, j, instant) \in Int
      BY <1>6, <3>6
    <3> QED BY <3>1, <3>3, <3>4, <3>5, <3>6, <3>7, <3>8, <3>9
  <2> QED BY <1>1, <1>2, <2>2, <2>3, <2>4
<1> QED BY <1>7, <1>8

\* :earlier and :later with a period go to a revision committed nearest to the
\* instant asked for, whatever was undone and however undolevels has trimmed
\* the history, where :undojoin does not restamp revisions.
THEOREM TravelIsNearest ==
    ASSUME JoinOffered = FALSE
    PROVE  Spec => []TimeTravelPicksNearest
<1> DEFINE InTime == undojoin_pending = FALSE /\ Ordered(history, clock)
<1>1. Init => InTime
  BY DEF Init, NewHistory, Ordered
<1>2. TypeOK /\ InTime /\ [Next]_docVars => InTime'
  <2> SUFFICES ASSUME TypeOK, InTime, [Next]_docVars
               PROVE  undojoin_pending' = FALSE /\ Ordered(history', clock')
    OBVIOUS
  <2>1. undojoin_pending' = FALSE
    BY NoneJoined
  <2>2. clock \in Nat /\ clock' \in Nat /\ clock <= clock'
    BY ClockRuns, StepTyped DEF TypeOK
  <2>3. ASSUME NEW g, IsHistory(g, Texts), Ordered(g, clock), RevisionsOf(g)
        PROVE  Ordered(history', clock')
    <3>1. \A i \in 0 .. g.len - 1 : g.rev[i].timestamp \in Nat
      BY <2>3, HistoryParts DEF Revision
    <3> QED BY <2>2, <2>3, <3>1 DEF Ordered, RevisionsOf
  <2>4. IsHistory(WithCommit(FALSE), Texts) /\ Ordered(WithCommit(FALSE), clock)
    BY CommitParts, CommitTyped, CommitOrdered DEF WithCommit
  <2> QED BY <2>1, <2>3, <2>4, TreeStep, CommitParts
<1>3. TypeOK /\ InTime => TimeTravelPicksNearest
  <2> SUFFICES ASSUME TypeOK, InTime, NEW d \in Periods,
                      NEW instant \in {CurrentTime(history) - d, CurrentTime(history) + d},
                      NEW i \in jump_instant(history, instant), NEW j \in 0 .. history.len - 1
               PROVE  Gap(history, i, instant) <= Gap(history, j, instant)
    BY DEF TimeTravelPicksNearest
  <2>1. IsHistory(history, Texts) /\ d \in Nat
    BY DocumentAssumption DEF TypeOK
  <2>2. CurrentTime(history) \in Nat
    BY <2>1, HistoryParts DEF CurrentTime, Revision
  <2>3. instant \in Int
    BY <2>1, <2>2
  <2> QED BY <2>1, <2>3, InstantNearest
<1> HIDE DEF InTime
<1> QED BY <1>1, <1>2, <1>3, TypeCorrect, PTL DEF Spec

\* What changes_since gives for any revision leads from its text to the text of
\* the current one: a client or window that kept a revision catches up exactly.
THEOREM ChangesSinceIsExact ==
    ASSUME LevelChoices = {}, JoinOffered = FALSE
    PROVE  Spec => []ChangesSinceLeadToCurrent
<1>1. BufferExact => ChangesSinceLeadToCurrent
  <2> SUFFICES ASSUME BufferExact, NEW r \in 0 .. history.len - 1
               PROVE  {o.text : o \in Replay(changes_since(history, r), history.rev[r].post)}
                        = {history.rev[history.current].post}
    BY DEF ChangesSinceLeadToCurrent
  <2> DEFINE n == Len(Route(history, r, history.current))
             p == history.rev[history.current].post
  <2>1. /\ IsTree(history) /\ TextsIn(history, Texts) /\ Garbled \in Texts
        /\ history.current \in Indices(history) /\ r \in Indices(history)
        /\ Chained(history)
    BY TypeParts, HistoryIsTree DEF BufferExact, BufferIsCurrentRevision, Indices
  <2>2. Replay(changes_since(history, r), history.rev[r].post) = {Arrival(p, n)}
    BY <2>1, RouteExact DEF changes_since
  <2>3. Arrival(p, n).text = p
    BY DEF Arrival
  <2> HIDE DEF n, p
  <2>4. {o.text : o \in {Arrival(p, n)}} = {p}
    BY <2>3
  <2> QED BY <2>2, <2>4 DEF p
<1> QED BY <1>1, AlwaysBufferExact, PTL
=============================================================================
