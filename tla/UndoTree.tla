------------------------------ MODULE UndoTree ------------------------------
(***************************************************************************)
(* The undo history of a buffer: zmax-core/src/history.rs as operators on  *)
(* a history value                                                         *)
(*                                                                         *)
(*     [len, current, rev]    with  DOMAIN rev = 0 .. len - 1              *)
(*                                                                         *)
(* Texts are atoms.  A transaction is the pair of texts it leads from and  *)
(* to; its inversion is the pair turned round, which is what inverting     *)
(* against the original text yields, so a revision stores one pair.        *)
(* Revision 0 is the dummy root: its pair is a ghost that names the text   *)
(* the history starts from, which the code never stores or applies.        *)
(***************************************************************************)
EXTENDS Integers, Sequences, FiniteSets

CONSTANT Garbled    \* what applying a transaction to the wrong text leaves

None == 0           \* Option<NonZeroUsize>: 0 cannot be a child

NewHistory(t, now) ==
    [len     |-> 1,
     current |-> 0,
     rev     |-> [i \in 0 .. 0 |-> [parent |-> 0, last_child |-> None,
                                    pre |-> t, post |-> t, timestamp |-> now]]]

Transaction(r) == [pre |-> r.pre, post |-> r.post]
Inversion(r)   == [pre |-> r.post, post |-> r.pre]

Least(m, n) == IF m <= n THEN m ELSE n
SatSub(m, n) == IF m >= n THEN m - n ELSE 0       \* usize::saturating_sub

-----------------------------------------------------------------------------
(* Growing the tree. *)

\* Mutant: redo keeps to the first branch ever made.
WithFirstChild(r, c) == [r EXCEPT !.last_child = IF @ = None THEN c ELSE @]

WithChild(r, c) == [r EXCEPT !.last_child = c]

\* Mutant: the joined revision forgets where it started from.
JoinedAfresh(r, x, now) == [r EXCEPT !.pre = x.pre, !.post = x.post, !.timestamp = now]

\* compose takes it that the second change starts from the text the first one
\* leaves.  When it does not, compose's assertion on the lengths fails, or the
\* joined changes edit the wrong places: they are good for no text then.
Joined(r, x, now) ==
    IF r.post = x.pre
    THEN [r EXCEPT !.post = x.post, !.timestamp = now]
    ELSE [r EXCEPT !.pre = Garbled, !.post = Garbled, !.timestamp = now]

\* A kept revision after the drop oldest ones are gone: what hung below one of
\* those hangs below the root.
Reindexed(r, drop) ==
    [r EXCEPT !.parent = SatSub(@, drop),
              !.last_child = IF @ = None THEN None ELSE @ - drop]

\* The root then stands for the text the oldest kept revision starts from.
RootBefore(r, first) ==
    [r EXCEPT !.last_child = 1, !.pre = first.pre, !.post = first.pre]

\* Mutant: the current revision is counted down by one too many.
DropOldestAndCurrent(h, drop) ==
    [len     |-> h.len - drop,
     current |-> h.current - drop - 1,
     rev     |-> [i \in 0 .. h.len - drop - 1 |->
                    IF i = 0 THEN RootBefore(h.rev[0], h.rev[drop + 1])
                             ELSE Reindexed(h.rev[i + drop], drop)]]

DropOldest(h, drop) ==
    [len     |-> h.len - drop,
     current |-> h.current - drop,
     rev     |-> [i \in 0 .. h.len - drop - 1 |->
                    IF i = 0 THEN RootBefore(h.rev[0], h.rev[drop + 1])
                             ELSE Reindexed(h.rev[i + drop], drop)]]

\* Mutant: the newest revision is not counted.
TrimOneLate(h, max) ==
    LET real == h.len - 2
        drop == Least(real - max, SatSub(h.current, 1))
    IN  IF max = 0 \/ real <= max \/ drop = 0 THEN h ELSE DropOldest(h, drop)

\* max = 0 is the unbounded default.
trim_to_undo_levels(h, max) ==
    LET real == h.len - 1
        drop == Least(real - max, SatSub(h.current, 1))
    IN  IF max = 0 \/ real <= max \/ drop = 0 THEN h ELSE DropOldest(h, drop)

\* Mutants: current taken after the push; the new revision hung below the
\* newest one; the undone revisions cut off.
PushedCurrentLate(h, x, now) ==
    [len     |-> h.len + 1,
     current |-> h.len + 1,
     rev     |-> [i \in 0 .. h.len |->
                    IF i = h.len
                    THEN [parent |-> h.current, last_child |-> None,
                          pre |-> x.pre, post |-> x.post, timestamp |-> now]
                    ELSE h.rev[i]]]

PushedBelowNewest(h, x, now) ==
    [len     |-> h.len + 1,
     current |-> h.len,
     rev     |-> [i \in 0 .. h.len |->
                    IF i = h.len
                    THEN [parent |-> h.len - 1, last_child |-> None,
                          pre |-> x.pre, post |-> x.post, timestamp |-> now]
                    ELSE IF i = h.len - 1
                         THEN WithChild(h.rev[i], h.len)
                         ELSE h.rev[i]]]

PushedCuttingRedo(h, x, now) ==
    LET n == h.current + 1
    IN  [len     |-> n + 1,
         current |-> n,
         rev     |-> [i \in 0 .. n |->
                        IF i = n
                        THEN [parent |-> h.current, last_child |-> None,
                              pre |-> x.pre, post |-> x.post, timestamp |-> now]
                        ELSE IF i = h.current THEN WithChild(h.rev[i], n)
                                              ELSE h.rev[i]]]

Pushed(h, x, now) ==
    [len     |-> h.len + 1,
     current |-> h.len,
     rev     |-> [i \in 0 .. h.len |->
                    IF i = h.len
                    THEN [parent |-> h.current, last_child |-> None,
                          pre |-> x.pre, post |-> x.post, timestamp |-> now]
                    ELSE IF i = h.current
                         THEN WithChild(h.rev[i], h.len)
                         ELSE h.rev[i]]]

commit_revision(h, x, now, max) == trim_to_undo_levels(Pushed(h, x, now), max)

\* :undojoin.  Composing S0 -> S1 with S1 -> S2 leaves S0 -> S2.  The children
\* of the joined revision still start from S1.
merge_last_revision(h, x, now, max) ==
    IF h.current = 0
    THEN commit_revision(h, x, now, max)
    ELSE LET joined == Joined(h.rev[h.current], x, now)
         IN  [h EXCEPT !.rev = [h.rev EXCEPT ![h.current] = joined]]

\* to_snapshot then from_snapshot: everything but the timestamps survives.
from_snapshot(h, now) ==
    [h EXCEPT !.rev = [i \in DOMAIN h.rev |-> [h.rev[i] EXCEPT !.timestamp = now]]]

-----------------------------------------------------------------------------
(* Walking the tree. *)

\* Climb(h, n)[k]: the k-th ancestor of n.  The parent of 0 is 0.
Climb(h, n) ==
    LET up[k \in 0 .. h.len] == IF k = 0 THEN n ELSE h.rev[up[k - 1]].parent
    IN  up

Seen(up, k) == {up[j] : j \in 0 .. k}

\* Mutant: stops as soon as the climbers cross paths on one side only.
LcaOneSided(h, a, b) ==
    LET ua == Climb(h, a)
        ub == Climb(h, b)
        k  == CHOOSE k \in 0 .. h.len : /\ ub[k] \in Seen(ua, k)
                                        /\ \A j \in 0 .. k - 1 : ub[j] \notin Seen(ua, j)
    IN  ub[k]

\* Both climb in lock step until one stands where the other has been.
lowest_common_ancestor(h, a, b) ==
    LET ua == Climb(h, a)
        ub == Climb(h, b)
        Meet(k) == ub[k] \in Seen(ua, k) \/ ua[k] \in Seen(ub, k)
        k  == CHOOSE k \in 0 .. h.len : Meet(k) /\ \A j \in 0 .. k - 1 : ~Meet(j)
    IN  IF ub[k] \in Seen(ua, k) THEN ub[k] ELSE ua[k]

\* Nodes on the way from n up to its ancestor a, without a.
path_up(h, n, a) ==
    LET up == Climb(h, n)
        k  == CHOOSE k \in 0 .. h.len : up[k] = a /\ \A j \in 0 .. k - 1 : up[j] # a
    IN  [i \in 1 .. k |-> up[i - 1]]

\* Mutant: the way down is taken in climbing order.
RouteUnreversed(h, a, b) ==
    LET lca  == lowest_common_ancestor(h, a, b)
        up   == path_up(h, a, lca)
        down == path_up(h, b, lca)
        n    == Len(up) + Len(down)
    IN  [i \in 1 .. n |-> IF i <= Len(up) THEN Inversion(h.rev[up[i]])
                                          ELSE Transaction(h.rev[down[i - Len(up)]])]

\* The transactions leading from revision a to revision b: inversions up to
\* the common ancestor, then transactions down.
Route(h, a, b) ==
    LET lca  == lowest_common_ancestor(h, a, b)
        up   == path_up(h, a, lca)
        down == path_up(h, b, lca)
        n    == Len(up) + Len(down)
    IN  [i \in 1 .. n |-> IF i <= Len(up) THEN Inversion(h.rev[up[i]])
                                          ELSE Transaction(h.rev[down[n + 1 - i]])]

jump_to(h, to) == [history |-> [h EXCEPT !.current = to],
                   txns    |-> Route(h, h.current, to)]

changes_since(h, revision) == Route(h, revision, h.current)

undo(h) ==
    IF h.current = 0
    THEN [history |-> h, txns |-> << >>]
    ELSE [history |-> [h EXCEPT !.current = h.rev[h.current].parent],
          txns    |-> << Inversion(h.rev[h.current]) >>]

redo(h) ==
    LET child == h.rev[h.current].last_child
    IN  IF child = None
        THEN [history |-> h, txns |-> << >>]
        ELSE [history |-> [h EXCEPT !.current = child],
              txns    |-> << Transaction(h.rev[child]) >>]

jump_backward(h, delta) == SatSub(h.current, delta)
jump_forward(h, delta)  == Least(h.current + delta, h.len - 1)

\* Mutant: the comparison the wrong way round.
RevisionFartherFromInstant(h, i, instant) ==
    IF instant - h.rev[i - 1].timestamp < h.rev[i].timestamp - instant
    THEN i ELSE i - 1

\* Between two neighbouring revisions, the one committed nearer to instant.
revision_closer_to_instant(h, i, instant) ==
    IF instant - h.rev[i - 1].timestamp < h.rev[i].timestamp - instant
    THEN i - 1 ELSE i

\* The revisions jump_instant may pick.  slice::binary_search promises a match
\* or the insertion point of a sorted slice, and nothing about an unsorted one.
jump_instant(h, instant) ==
    LET Time(i) == h.rev[i].timestamp
        exact   == {i \in 0 .. h.len - 1 : Time(i) = instant}
        ip      == Cardinality({i \in 0 .. h.len - 1 : Time(i) < instant})
    IN  IF \E i \in 1 .. h.len - 1 : Time(i) < Time(i - 1) THEN 0 .. h.len - 1
        ELSE IF exact # {} THEN exact
        ELSE IF ip = 0     THEN {0}
        ELSE IF ip = h.len THEN {h.len - 1}
        ELSE {revision_closer_to_instant(h, ip, instant)}

-----------------------------------------------------------------------------
(* Applying transactions to a text (ChangeSet::apply).  Against the text it *)
(* was made for, a transaction gives its result.  Against another one it is *)
(* refused when the lengths differ, and otherwise edits the wrong places.   *)

Outcomes(x, s) ==
    IF x.pre = s.text
    THEN {[text |-> x.post, ok |-> TRUE]}
    ELSE {s, [text |-> Garbled, ok |-> TRUE]}

AllOutcomes(x, Q) == UNION {Outcomes(x, s) : s \in Q}

\* All results of applying a list in order; ok: at least one was accepted.
Replay(txns, t) ==
    LET S[i \in 0 .. Len(txns)] ==
            IF i = 0 THEN {[text |-> t, ok |-> FALSE]}
                     ELSE AllOutcomes(txns[i], S[i - 1])
    IN  S[Len(txns)]

-----------------------------------------------------------------------------
(* What makes a history value right. *)

\* Every revision starts from the text its parent leaves.
Chained(h) == \A i \in 0 .. h.len - 1 : h.rev[i].pre = h.rev[h.rev[i].parent].post

Children(h, i) == {j \in 1 .. h.len - 1 : h.rev[j].parent = i}

\* A tree by index, in which redo follows the youngest child.
WellFormed(h) ==
    /\ h.current \in 0 .. h.len - 1
    /\ h.rev[0].parent = 0
    /\ \A i \in 1 .. h.len - 1 : h.rev[i].parent \in 0 .. i - 1
    /\ \A i \in 0 .. h.len - 1 :
         \/ h.rev[i].last_child = None
         \/ h.rev[i].last_child \in Children(h, i)

Revision(T) ==
    [parent : Nat, last_child : Nat, pre : T, post : T, timestamp : Nat]

IsHistory(h, T) ==
    /\ h = [len |-> h.len, current |-> h.current, rev |-> h.rev]
    /\ h.len \in Nat \ {0}
    /\ h.rev \in [0 .. h.len - 1 -> Revision(T)]
    /\ WellFormed(h)

\* No revision has two children.
Linear(h) == \A i \in 1 .. h.len - 1 : h.rev[i].parent = i - 1
=============================================================================
