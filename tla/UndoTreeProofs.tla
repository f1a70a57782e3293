--------------------------- MODULE UndoTreeProofs ---------------------------
(***************************************************************************)
(* Lemmas about the operators of module UndoTree, for trees of any size.   *)
(* The installed provers have no induction rule for predicates, so the     *)
(* inductions go through the least element of a set of counterexamples.    *)
(***************************************************************************)
EXTENDS UndoTree, FiniteSetTheorems, WellFoundedInduction, TLAPS

\* Every nonempty set of naturals has a least element.
LEMMA LeastNat ==
    \A S \in SUBSET Nat : S # {} => \E m \in S : \A n \in S : m <= n
<1>1. SUFFICES ASSUME NEW S \in SUBSET Nat, S # {}
               PROVE  \E m \in S : \A n \in S : m <= n
  OBVIOUS
<1>2. IsWellFoundedOn(OpToRel(<, Nat), Nat)
  BY NatLessThanWellFounded
<1>3. PICK m \in S : \A y \in S : ~ (<<y, m>> \in OpToRel(<, Nat))
  BY <1>1, <1>2, WFMin, Zenon
<1>4. \A y \in S : ~ (y < m)
  BY <1>3 DEF OpToRel
<1> QED BY <1>4

\* Induction up to a bound, on a set.
LEMMA IntervalInduction ==
    ASSUME NEW N \in Nat, NEW S, 0 \in S,
           \A k \in 1 .. N : k - 1 \in S => k \in S
    PROVE  \A k \in 0 .. N : k \in S
<1> DEFINE B == {k \in 0 .. N : k \notin S}
<1>1. SUFFICES ASSUME B # {} PROVE FALSE
  OBVIOUS
<1>2. PICK m \in B : \A n \in B : m <= n
  <2>1. B \in SUBSET Nat
    OBVIOUS
  <2> QED BY <1>1, <2>1, LeastNat
<1>3. m \in 1 .. N /\ m - 1 \in 0 .. N
  BY <1>2
<1>4. m - 1 \in S
  BY <1>2, <1>3
<1> QED BY <1>2, <1>3, <1>4

\* The least index at which a set of indices is entered.
LEMMA LeastIndex ==
    ASSUME NEW N \in Nat, NEW S \in SUBSET (0 .. N), S # {}
    PROVE  \E k \in 0 .. N : k \in S /\ \A j \in 0 .. k - 1 : j \notin S
<1>1. S \in SUBSET Nat
  OBVIOUS
<1>2. PICK m \in S : \A n \in S : m <= n
  BY <1>1, LeastNat
<1> QED BY <1>2

IsRecursion(N, a, f, g) == g[0] = a /\ \A k \in 1 .. N : g[k] = f[<<k, g[k - 1]>>]

\* Primitive recursion over 0 .. N with values in A has a solution.
LEMMA RecursionExists ==
    ASSUME NEW N \in Nat, NEW A, NEW a \in A, NEW f \in [(1 .. N) \X A -> A]
    PROVE  \E g \in [0 .. N -> A] : IsRecursion(N, a, f, g)
<1> DEFINE Solves(n, g) == g[0] = a /\ \A k \in 1 .. n : g[k] = f[<<k, g[k - 1]>>]
           S == {n \in 0 .. N : \E g \in [0 .. n -> A] : Solves(n, g)}
<1>1. 0 \in S
  <2> DEFINE g0 == [k \in 0 .. 0 |-> a]
  <2>1. g0 \in [0 .. 0 -> A] /\ Solves(0, g0)
    OBVIOUS
  <2>2. \E g \in [0 .. 0 -> A] : Solves(0, g)
    <3> HIDE DEF g0, Solves
    <3> QED BY <2>1
  <2>3. 0 \in 0 .. N
    OBVIOUS
  <2> QED BY <2>2, <2>3
<1>2. ASSUME NEW n \in 1 .. N, n - 1 \in S PROVE n \in S
  <2>1. PICK g \in [0 .. n - 1 -> A] : Solves(n - 1, g)
    BY <1>2
  <2> DEFINE e == f[<<n, g[n - 1]>>]
             gg == [k \in 0 .. n |-> IF k = n THEN e ELSE g[k]]
  <2>2. e \in A
    BY <2>1
  <2>3. gg \in [0 .. n -> A]
    BY <2>1, <2>2
  <2>4. gg[0] = a
    BY <2>1
  <2>5. ASSUME NEW k \in 1 .. n PROVE gg[k] = f[<<k, gg[k - 1]>>]
    <3>1. gg[k - 1] = g[k - 1]
      BY <2>1
    <3>2. CASE k = n
      <4>1. gg[k] = e
        BY <3>2
      <4>2. e = f[<<k, g[k - 1]>>]
        BY <3>2
      <4> HIDE DEF gg, e
      <4> QED BY <4>1, <4>2, <3>1
    <3>3. CASE k # n
      <4>1. k \in 1 .. n - 1 /\ gg[k] = g[k]
        BY <3>3
      <4> QED BY <3>1, <4>1, <2>1
    <3> QED BY <3>2, <3>3
  <2>6. \E q \in [0 .. n -> A] : Solves(n, q)
    <3>1. Solves(n, gg)
      <4> HIDE DEF gg
      <4> QED BY <2>4, <2>5
    <3> HIDE DEF gg, Solves
    <3> QED BY <2>3, <3>1
  <2>7. n \in 0 .. N
    OBVIOUS
  <2> QED BY <2>6, <2>7
<1>3. \A n \in 0 .. N : n \in S
  <2> HIDE DEF S
  <2> QED BY <1>1, <1>2, IntervalInduction
<1>4. N \in S
  <2>1. N \in 0 .. N
    OBVIOUS
  <2> HIDE DEF S
  <2> QED BY <1>3, <2>1
<1> QED BY <1>4 DEF IsRecursion

-----------------------------------------------------------------------------
(* Climbing a tree. *)

\* The shape every reachable history has, and all that climbing needs.
IsTree(h) ==
    /\ h.len \in Nat \ {0}
    /\ h.rev[0].parent = 0
    /\ \A i \in 1 .. h.len - 1 : h.rev[i].parent \in 0 .. i - 1

Indices(h) == 0 .. h.len - 1

\* The recursive function of Climb exists: it steps from parent to parent.
LEMMA ClimbSteps ==
    ASSUME NEW h, IsTree(h), NEW n \in Indices(h)
    PROVE  /\ Climb(h, n) \in [0 .. h.len -> Indices(h)]
           /\ Climb(h, n)[0] = n
           /\ \A k \in 1 .. h.len : Climb(h, n)[k] = h.rev[Climb(h, n)[k - 1]].parent
<1> DEFINE A == Indices(h)
           f == [p \in (1 .. h.len) \X A |-> h.rev[p[2]].parent]
           Def(g) == [k \in 0 .. h.len |-> IF k = 0 THEN n ELSE h.rev[g[k - 1]].parent]
<1>1. f \in [(1 .. h.len) \X A -> A]
  BY DEF IsTree, Indices
<1>2. PICK g \in [0 .. h.len -> A] : IsRecursion(h.len, n, f, g)
  <2>1. h.len \in Nat /\ n \in A
    BY DEF IsTree
  <2> HIDE DEF f, A
  <2> QED BY <1>1, <2>1, RecursionExists
<1>3. ASSUME NEW k \in 1 .. h.len PROVE g[k] = h.rev[g[k - 1]].parent
  <2>1. <<k, g[k - 1]>> \in (1 .. h.len) \X A
    BY <1>2 DEF IsTree
  <2> QED BY <1>2, <2>1 DEF IsRecursion
<1>4. g = Def(g)
  BY <1>2, <1>3 DEF IsRecursion
<1>5. Climb(h, n) = CHOOSE g_1 : g_1 = Def(g_1)
  BY DEF Climb
<1>6. Climb(h, n) = Def(Climb(h, n))
  <2> HIDE DEF Def
  <2> QED BY <1>4, <1>5
<1> DEFINE c == Climb(h, n)
<1>7. c[0] = n /\ \A k \in 1 .. h.len : c[k] = h.rev[c[k - 1]].parent
  <2> HIDE DEF c
  <2>1. c = Def(c)
    BY <1>6 DEF c
  <2> QED BY <2>1 DEF IsTree
<1>8. \A k \in 0 .. h.len : k \in {j \in 0 .. h.len : c[j] \in A}
  <2> HIDE DEF c
  <2> DEFINE S == {j \in 0 .. h.len : c[j] \in A}
  <2>1. 0 \in S
    BY <1>7 DEF IsTree
  <2>2. ASSUME NEW k \in 1 .. h.len, k - 1 \in S PROVE k \in S
    <3>1. c[k] = h.rev[c[k - 1]].parent /\ c[k - 1] \in A
      BY <1>7, <2>2
    <3>2. \A i \in A : h.rev[i].parent \in A
      BY DEF IsTree, Indices
    <3> HIDE DEF A
    <3> QED BY <3>1, <3>2 DEF IsTree
  <2>3. h.len \in Nat
    BY DEF IsTree
  <2> HIDE DEF S
  <2>4. \A k \in 0 .. h.len : k \in S
    BY <2>1, <2>2, <2>3, IntervalInduction
  <2> QED BY <2>4 DEF S
<1>9. c \in [0 .. h.len -> A]
  <2>1. c = [k \in 0 .. h.len |-> c[k]]
    BY <1>6
  <2> HIDE DEF c, A
  <2> QED BY <2>1, <1>8
<1> QED BY <1>7, <1>9

\* Every climb ends at the root.
LEMMA ClimbReachesRoot ==
    ASSUME NEW h, IsTree(h), NEW n \in Indices(h)
    PROVE  Climb(h, n)[h.len] = 0
<1> DEFINE c == Climb(h, n)
           S == {k \in 0 .. h.len : c[k] = 0 \/ c[k] + k <= n}
<1>1. /\ c \in [0 .. h.len -> Indices(h)] /\ c[0] = n
      /\ \A k \in 1 .. h.len : c[k] = h.rev[c[k - 1]].parent
  BY ClimbSteps
<1> HIDE DEF c
<1>2. 0 \in S
  BY <1>1 DEF IsTree, Indices
<1>3. ASSUME NEW k \in 1 .. h.len, k - 1 \in S PROVE k \in S
  <2>1. CASE c[k - 1] = 0
    BY <2>1, <1>1 DEF IsTree, Indices
  <2>2. CASE c[k - 1] # 0
    <3>1. c[k - 1] \in 1 .. h.len - 1 /\ c[k - 1] + (k - 1) <= n
      BY <2>2, <1>1, <1>3 DEF IsTree, Indices
    <3>2. c[k] \in 0 .. c[k - 1] - 1
      BY <3>1, <1>1 DEF IsTree
    <3> QED BY <3>1, <3>2 DEF IsTree, Indices
  <2> QED BY <2>1, <2>2
<1>4. h.len \in S
  <2>1. h.len \in Nat
    BY DEF IsTree
  <2> HIDE DEF S
  <2>2. \A k \in 0 .. h.len : k \in S
    BY <1>2, <1>3, <2>1, IntervalInduction
  <2> QED BY <2>1, <2>2
<1> QED BY <1>4, <1>1 DEF IsTree, Indices, c

\* A climb never goes down again: a parent is older than its child.
LEMMA ClimbFalls ==
    ASSUME NEW h, IsTree(h), NEW n \in Indices(h),
           NEW i \in 0 .. h.len, NEW j \in 0 .. h.len, i <= j
    PROVE  Climb(h, n)[j] <= Climb(h, n)[i]
<1> DEFINE c == Climb(h, n)
           S == {k \in 0 .. h.len : \A m \in 0 .. k : c[k] <= c[m]}
<1>1. /\ h.len \in Nat /\ c \in [0 .. h.len -> Indices(h)]
      /\ \A k \in 1 .. h.len : c[k] = h.rev[c[k - 1]].parent
  BY ClimbSteps DEF IsTree
<1> HIDE DEF c
<1>2. 0 \in S
  BY <1>1 DEF Indices
<1>3. ASSUME NEW k \in 1 .. h.len, k - 1 \in S PROVE k \in S
  <2> DEFINE up == c[k - 1]
  <2>1. k \in 0 .. h.len /\ k - 1 \in 0 .. h.len
    BY <1>1
  <2>2. up \in Indices(h) /\ c[k] \in Indices(h) /\ c[k] = h.rev[up].parent
    BY <1>1, <2>1
  <2>3. c[k] <= up
    <3> HIDE DEF up
    <3>1. CASE up = 0
      BY <2>2, <3>1 DEF IsTree
    <3>2. CASE up # 0
      <4>1. up \in 1 .. h.len - 1
        BY <1>1, <2>2, <3>2 DEF Indices
      <4>2. h.rev[up].parent \in 0 .. up - 1
        BY <4>1 DEF IsTree
      <4> QED BY <2>2, <4>1, <4>2
    <3> QED BY <3>1, <3>2
  <2>4. ASSUME NEW m \in 0 .. k PROVE c[k] <= c[m]
    <3>1. CASE m = k
      BY <2>2, <3>1 DEF Indices
    <3>2. CASE m # k
      <4>1. m \in 0 .. k - 1 /\ m \in 0 .. h.len
        BY <1>1, <3>2
      <4>2. up <= c[m] /\ c[m] \in Indices(h)
        BY <1>1, <1>3, <4>1
      <4> HIDE DEF up
      <4> QED BY <1>1, <2>2, <2>3, <4>2 DEF Indices
    <3> QED BY <3>1, <3>2
  <2> QED BY <2>1, <2>4
<1>4. \A k \in 0 .. h.len : k \in S
  <2> HIDE DEF S
  <2> QED BY <1>1, <1>2, <1>3, IntervalInduction
<1> QED BY <1>4 DEF c

\* The lock-step climb of lowest_common_ancestor stops where the climbers
\* first cross paths.
LEMMA LcaIsFirstMeeting ==
    ASSUME NEW h, IsTree(h), NEW a \in Indices(h), NEW b \in Indices(h),
           NEW ua, ua = Climb(h, a), NEW ub, ub = Climb(h, b)
    PROVE  \E k \in 0 .. h.len :
              /\ ub[k] \in Seen(ua, k) \/ ua[k] \in Seen(ub, k)
              /\ \A j \in 0 .. k - 1 : ub[j] \notin Seen(ua, j) /\ ua[j] \notin Seen(ub, j)
              /\ lowest_common_ancestor(h, a, b)
                   = IF ub[k] \in Seen(ua, k) THEN ub[k] ELSE ua[k]
<1> DEFINE Meet(k) == ub[k] \in Seen(ua, k) \/ ua[k] \in Seen(ub, k)
           M == {k \in 0 .. h.len : Meet(k)}
           k == CHOOSE k \in 0 .. h.len : Meet(k) /\ \A j \in 0 .. k - 1 : ~Meet(j)
<1>1. h.len \in Nat /\ h.len \in 0 .. h.len
  BY DEF IsTree
<1>2. h.len \in M
  <2>1. ua[h.len] = 0 /\ ub[h.len] = 0
    BY ClimbReachesRoot
  <2> QED BY <1>1, <2>1 DEF Seen
<1>3. \E m \in 0 .. h.len : Meet(m) /\ \A j \in 0 .. m - 1 : ~Meet(j)
  <2>1. M \in SUBSET (0 .. h.len) /\ M # {}
    BY <1>2
  <2>2. \E m \in 0 .. h.len : m \in M /\ \A j \in 0 .. m - 1 : j \notin M
    <3> HIDE DEF M
    <3> QED BY <1>1, <2>1, LeastIndex
  <2>3. \A m \in 0 .. h.len : \A j \in 0 .. m - 1 : j \in 0 .. h.len
    BY <1>1
  <2> HIDE DEF Meet
  <2> QED BY <2>2, <2>3
<1>4. k \in 0 .. h.len /\ Meet(k) /\ \A j \in 0 .. k - 1 : ~Meet(j)
  <2> HIDE DEF Meet
  <2> QED BY <1>3
<1>5. lowest_common_ancestor(h, a, b) = IF ub[k] \in Seen(ua, k) THEN ub[k] ELSE ua[k]
  BY DEF lowest_common_ancestor
<1> HIDE DEF k
<1> QED BY <1>4, <1>5

\* Where the lock-step climb stops is on both climbs.
LEMMA LcaOnBothClimbs ==
    ASSUME NEW h, IsTree(h), NEW a \in Indices(h), NEW b \in Indices(h)
    PROVE  \E i, j \in 0 .. h.len : /\ lowest_common_ancestor(h, a, b) = Climb(h, a)[i]
                                    /\ lowest_common_ancestor(h, a, b) = Climb(h, b)[j]
<1> DEFINE ua == Climb(h, a)
           ub == Climb(h, b)
           lca == lowest_common_ancestor(h, a, b)
<1>1. PICK k \in 0 .. h.len :
        /\ ub[k] \in Seen(ua, k) \/ ua[k] \in Seen(ub, k)
        /\ lca = IF ub[k] \in Seen(ua, k) THEN ub[k] ELSE ua[k]
  BY LcaIsFirstMeeting
<1> HIDE DEF ua, ub, lca
<1>2. \A j \in 0 .. k : j \in 0 .. h.len
  BY DEF IsTree
<1>3. CASE ub[k] \in Seen(ua, k)
  <2>1. PICK i \in 0 .. k : ub[k] = ua[i]
    BY <1>3 DEF Seen
  <2> QED BY <1>1, <1>2, <1>3, <2>1 DEF ua, ub, lca
<1>4. CASE ub[k] \notin Seen(ua, k)
  <2>1. PICK j \in 0 .. k : ua[k] = ub[j]
    BY <1>1, <1>4 DEF Seen
  <2> QED BY <1>1, <1>2, <1>4, <2>1 DEF ua, ub, lca
<1> QED BY <1>3, <1>4

\* Nothing that two climbs of one tree share lies above c when they have not
\* crossed paths before step k, and one of them passes c by then.
LEMMA NoEarlierMeeting ==
    ASSUME NEW h, IsTree(h), NEW a \in Indices(h), NEW b \in Indices(h),
           NEW ua, ua = Climb(h, a), NEW ub, ub = Climb(h, b),
           NEW k \in 0 .. h.len,
           \A m \in 0 .. k - 1 : ub[m] \notin Seen(ua, m) /\ ua[m] \notin Seen(ub, m),
           NEW p \in 0 .. k, NEW c, c = ua[p], c = ub[k],
           NEW i \in 0 .. h.len, NEW j \in 0 .. h.len, ua[i] = ub[j]
    PROVE  ua[i] <= c
<1>1. /\ h.len \in Nat
      /\ ua \in [0 .. h.len -> Indices(h)] /\ ub \in [0 .. h.len -> Indices(h)]
  BY ClimbSteps DEF IsTree
<1>2. p \in 0 .. h.len /\ c \in Indices(h) /\ ua[i] \in Indices(h)
  BY <1>1
<1>3. SUFFICES ASSUME ~(ua[i] <= c) PROVE FALSE
  OBVIOUS
<1>4. i < p
  <2>1. p <= i => ua[i] <= ua[p]
    BY <1>2, ClimbFalls
  <2> QED BY <1>1, <1>2, <1>3, <2>1
<1>5. j < k
  <2>1. k <= j => ub[j] <= ub[k]
    BY ClimbFalls
  <2> QED BY <1>1, <1>2, <1>3, <2>1
<1>6. CASE i <= j
  <2>1. j \in 0 .. k - 1 /\ i \in 0 .. j
    BY <1>1, <1>5, <1>6
  <2>2. ub[j] \in Seen(ua, j)
    BY <2>1 DEF Seen
  <2> QED BY <2>1, <2>2
<1>7. CASE ~(i <= j)
  <2>1. i \in 0 .. k - 1 /\ j \in 0 .. i
    BY <1>1, <1>2, <1>4, <1>7
  <2>2. ua[i] \in Seen(ub, i)
    BY <2>1 DEF Seen
  <2> QED BY <2>1, <2>2
<1> QED BY <1>6, <1>7

\* No common ancestor of two revisions is lower, that is younger, than the one
\* lowest_common_ancestor finds.
THEOREM LcaIsLowest ==
    ASSUME NEW h, IsTree(h), NEW a \in Indices(h), NEW b \in Indices(h),
           NEW i \in 0 .. h.len, NEW j \in 0 .. h.len,
           Climb(h, a)[i] = Climb(h, b)[j]
    PROVE  Climb(h, a)[i] <= lowest_common_ancestor(h, a, b)
<1> DEFINE ua == Climb(h, a)
           ub == Climb(h, b)
           lca == lowest_common_ancestor(h, a, b)
<1>1. PICK k \in 0 .. h.len :
        /\ ub[k] \in Seen(ua, k) \/ ua[k] \in Seen(ub, k)
        /\ \A m \in 0 .. k - 1 : ub[m] \notin Seen(ua, m) /\ ua[m] \notin Seen(ub, m)
        /\ lca = IF ub[k] \in Seen(ua, k) THEN ub[k] ELSE ua[k]
  BY LcaIsFirstMeeting
<1>2. CASE ub[k] \in Seen(ua, k)
  <2>1. PICK p \in 0 .. k : ub[k] = ua[p]
    BY <1>2 DEF Seen
  <2> HIDE DEF ua, ub, lca
  <2>2. ua = Climb(h, a) /\ ub = Climb(h, b) /\ ua[i] = ub[j] /\ lca = ub[k]
    BY <1>1, <1>2 DEF ua, ub
  <2>3. ua[i] <= ub[k]
    BY <1>1, <2>1, <2>2, NoEarlierMeeting
  <2> QED BY <2>2, <2>3 DEF ua, lca
<1>3. CASE ub[k] \notin Seen(ua, k)
  <2>1. PICK p \in 0 .. k : ua[k] = ub[p]
    BY <1>1, <1>3 DEF Seen
  <2> HIDE DEF ua, ub, lca
  <2>2. ua = Climb(h, a) /\ ub = Climb(h, b) /\ ub[j] = ua[i] /\ lca = ua[k]
    BY <1>1, <1>3 DEF ua, ub
  <2>3. ub[j] <= ua[k]
    BY <1>1, <2>1, <2>2, NoEarlierMeeting
  <2> QED BY <2>2, <2>3 DEF ua, lca
<1> QED BY <1>2, <1>3

FirstSteps(h, n, k) == [j \in 1 .. k |-> Climb(h, n)[j - 1]]

\* path_up lists the climb from n up to, and without, an ancestor.
LEMMA PathUpIsClimb ==
    ASSUME NEW h, IsTree(h), NEW n \in Indices(h), NEW i \in 0 .. h.len,
           NEW a, a = Climb(h, n)[i]
    PROVE  \E k \in 0 .. h.len : /\ Climb(h, n)[k] = a
                                 /\ path_up(h, n, a) = FirstSteps(h, n, k)
<1> DEFINE up == Climb(h, n)
           At(k) == up[k] = a
           M == {k \in 0 .. h.len : At(k)}
           k == CHOOSE k \in 0 .. h.len : up[k] = a /\ \A j \in 0 .. k - 1 : up[j] # a
<1>1. h.len \in Nat
  BY DEF IsTree
<1>2. \E m \in 0 .. h.len : up[m] = a /\ \A j \in 0 .. m - 1 : up[j] # a
  <2>1. M \in SUBSET (0 .. h.len) /\ M # {}
    <3>1. i \in M
      OBVIOUS
    <3> QED BY <3>1
  <2>2. \E m \in 0 .. h.len : m \in M /\ \A j \in 0 .. m - 1 : j \notin M
    <3> HIDE DEF M
    <3> QED BY <1>1, <2>1, LeastIndex
  <2>3. \A m \in 0 .. h.len : \A j \in 0 .. m - 1 : j \in 0 .. h.len
    BY <1>1
  <2> HIDE DEF up
  <2> QED BY <2>2, <2>3
<1>3. k \in 0 .. h.len /\ up[k] = a
  <2> HIDE DEF up
  <2> QED BY <1>2
<1>4. path_up(h, n, a) = [j \in 1 .. k |-> up[j - 1]]
  BY DEF path_up
<1> HIDE DEF k
<1> QED BY <1>3, <1>4 DEF FirstSteps

-----------------------------------------------------------------------------
(* Replaying transactions. *)

Txn(T) == [pre : T, post : T]
Result(T) == [text : T, ok : BOOLEAN]

IsReplay(txns, t, S) ==
    /\ S[0] = {[text |-> t, ok |-> FALSE]}
    /\ \A i \in 1 .. Len(txns) : S[i] = AllOutcomes(txns[i], S[i - 1])
    /\ Replay(txns, t) = S[Len(txns)]

\* The recursive function of Replay exists.
LEMMA ReplaySteps ==
    ASSUME NEW T, Garbled \in T, NEW txns \in Seq(Txn(T)), NEW t \in T
    PROVE  \E S \in [0 .. Len(txns) -> SUBSET Result(T)] : IsReplay(txns, t, S)
<1> DEFINE N == Len(txns)
           A == SUBSET Result(T)
           s0 == {[text |-> t, ok |-> FALSE]}
           f == [p \in (1 .. N) \X A |-> AllOutcomes(txns[p[1]], p[2])]
           Def(g) == [i \in 0 .. N |->
                        IF i = 0 THEN s0
                                 ELSE AllOutcomes(txns[i], g[i - 1])]
<1>1. N \in Nat
  OBVIOUS
<1>2. \A i \in 1 .. N : \A s \in Result(T) : Outcomes(txns[i], s) \in A
  <2>1. ASSUME NEW i \in 1 .. N, NEW s \in Result(T) PROVE Outcomes(txns[i], s) \in A
    <3>1. txns[i] \in Txn(T)
      OBVIOUS
    <3>2. [text |-> txns[i].post, ok |-> TRUE] \in Result(T)
      BY <3>1 DEF Txn, Result
    <3>3. [text |-> Garbled, ok |-> TRUE] \in Result(T)
      BY DEF Result
    <3> QED BY <3>2, <3>3 DEF Outcomes
  <2> QED BY <2>1
<1>3. f \in [(1 .. N) \X A -> A]
  <2>1. ASSUME NEW p \in (1 .. N) \X A
        PROVE  AllOutcomes(txns[p[1]], p[2]) \in A
    <3>1. p[1] \in 1 .. N /\ p[2] \in A
      OBVIOUS
    <3> HIDE DEF N
    <3> QED BY <1>2, <3>1 DEF AllOutcomes
  <2> HIDE DEF A, N
  <2> QED BY <2>1
<1>4. s0 \in A
  BY DEF Result
<1>5. PICK g \in [0 .. N -> A] : IsRecursion(N, s0, f, g)
  <2> HIDE DEF f, A, N, s0
  <2> QED BY <1>1, <1>3, <1>4, RecursionExists
<1>6. ASSUME NEW i \in 1 .. N
      PROVE  g[i] = AllOutcomes(txns[i], g[i - 1])
  <2>1. <<i, g[i - 1]>> \in (1 .. N) \X A
    BY <1>1, <1>5
  <2>2. f[<<i, g[i - 1]>>] = AllOutcomes(txns[i], g[i - 1])
    <3> HIDE DEF A, N
    <3> QED BY <2>1
  <2> QED BY <1>5, <2>2 DEF IsRecursion
<1>7. g = Def(g)
  <2> HIDE DEF N, A, s0
  <2> QED BY <1>5, <1>6 DEF IsRecursion
<1> DEFINE R == CHOOSE g_1 : g_1 = Def(g_1)
<1>8. R = Def(R)
  <2> HIDE DEF Def
  <2> QED BY <1>7
<1>9. Replay(txns, t) = R[N]
  BY DEF Replay
<1> HIDE DEF R
<1>10. /\ R = [i \in 0 .. N |-> R[i]]
       /\ R[0] = s0
       /\ \A i \in 1 .. N : R[i] = AllOutcomes(txns[i], R[i - 1])
  <2> HIDE DEF N, s0
  <2>1. R = [i \in 0 .. N |-> R[i]]
    BY <1>8
  <2>2. \A i \in 0 .. N : R[i] = IF i = 0 THEN s0 ELSE AllOutcomes(txns[i], R[i - 1])
    BY <1>8
  <2>3. R[0] = s0
    BY <1>1, <2>2
  <2>4. \A i \in 1 .. N : R[i] = AllOutcomes(txns[i], R[i - 1])
    BY <1>1, <2>2
  <2> QED BY <2>1, <2>3, <2>4
<1>11. R \in [0 .. N -> A]
  <2> DEFINE G == {i \in 0 .. N : R[i] \in A}
  <2>1. 0 \in G
    <3> HIDE DEF A, s0, N
    <3> QED BY <1>1, <1>4, <1>10
  <2>2. ASSUME NEW i \in 1 .. N, i - 1 \in G PROVE i \in G
    <3>1. R[i - 1] \in A /\ i \in 0 .. N
      BY <1>1, <2>2
    <3>2. AllOutcomes(txns[i], R[i - 1]) \in A
      <4> HIDE DEF N
      <4> QED BY <1>2, <3>1 DEF AllOutcomes
    <3> QED BY <1>10, <3>1, <3>2
  <2>3. \A i \in 0 .. N : i \in G
    <3> HIDE DEF G, N
    <3> QED BY <1>1, <2>1, <2>2, IntervalInduction
  <2> HIDE DEF A, N
  <2> QED BY <1>10, <2>3
<1> QED BY <1>9, <1>10, <1>11 DEF IsReplay

\* Replaying keeps to the texts it was given.
LEMMA ReplayTyped ==
    ASSUME NEW T, Garbled \in T, NEW txns \in Seq(Txn(T)), NEW t \in T
    PROVE  Replay(txns, t) \subseteq Result(T)
<1>1. Len(txns) \in 0 .. Len(txns)
  OBVIOUS
<1> QED BY <1>1, ReplaySteps DEF IsReplay

\* The result of n transactions all accepted.
Arrival(t, n) == IF n = 0 THEN [text |-> t, ok |-> FALSE] ELSE [text |-> t, ok |-> TRUE]

\* Transactions that each start where the one before ends are all accepted,
\* and end where the last one ends.
LEMMA ReplayExact ==
    ASSUME NEW T, Garbled \in T, NEW txns \in Seq(Txn(T)),
           NEW w \in [0 .. Len(txns) -> T],
           \A i \in 1 .. Len(txns) : txns[i].pre = w[i - 1] /\ txns[i].post = w[i]
    PROVE  Replay(txns, w[0]) = {Arrival(w[Len(txns)], Len(txns))}
<1> DEFINE N == Len(txns)
           E(i) == Arrival(w[i], i)
<1>1. N \in Nat /\ 0 \in 0 .. N /\ N \in 0 .. N /\ w[0] \in T
  OBVIOUS
<1>2. PICK S \in [0 .. N -> SUBSET Result(T)] : IsReplay(txns, w[0], S)
  BY <1>1, ReplaySteps
<1> DEFINE G == {i \in 0 .. N : S[i] = {E(i)}}
<1>3. 0 \in G
  BY <1>1, <1>2 DEF IsReplay, Arrival
<1>4. ASSUME NEW i \in 1 .. N, i - 1 \in G PROVE i \in G
  <2>1. S[i] = Outcomes(txns[i], E(i - 1))
    <3>1. S[i - 1] = {E(i - 1)}
      BY <1>4
    <3>2. S[i] = AllOutcomes(txns[i], {E(i - 1)})
      <4> HIDE DEF E
      <4> QED BY <1>2, <3>1 DEF IsReplay
    <3> HIDE DEF E
    <3> QED BY <3>2 DEF AllOutcomes
  <2>2. Outcomes(txns[i], E(i - 1)) = {E(i)}
    <3>1. txns[i].pre = E(i - 1).text /\ txns[i].post = w[i]
      BY DEF Arrival
    <3>2. [text |-> txns[i].post, ok |-> TRUE] = E(i)
      BY <3>1 DEF Arrival
    <3> HIDE DEF E
    <3> QED BY <3>1, <3>2 DEF Outcomes
  <2>3. i \in 0 .. N
    BY <1>1
  <2> QED BY <2>1, <2>2, <2>3
<1>5. \A i \in 0 .. N : i \in G
  <2> HIDE DEF G, N
  <2> QED BY <1>1, <1>3, <1>4, IntervalInduction
<1>6. S[N] = {E(N)}
  BY <1>1, <1>5
<1> QED BY <1>2, <1>6 DEF IsReplay

-----------------------------------------------------------------------------
(* Routes. *)

UpAndDown(h, a, p, b, q) ==
    [i \in 1 .. p + q |-> IF i <= p THEN Inversion(h.rev[Climb(h, a)[i - 1]])
                                   ELSE Transaction(h.rev[Climb(h, b)[p + q - i]])]

\* A route goes up one climb and down the other, from where they meet.
LEMMA RouteIsTwoClimbs ==
    ASSUME NEW h, IsTree(h), NEW a \in Indices(h), NEW b \in Indices(h)
    PROVE  \E p, q \in 0 .. h.len :
              /\ Climb(h, a)[p] = Climb(h, b)[q]
              /\ Route(h, a, b) = UpAndDown(h, a, p, b, q)
<1> DEFINE lca == lowest_common_ancestor(h, a, b)
           up == path_up(h, a, lca)
           down == path_up(h, b, lca)
<1>1. PICK i, j \in 0 .. h.len : lca = Climb(h, a)[i] /\ lca = Climb(h, b)[j]
  BY LcaOnBothClimbs
<1>2. PICK p \in 0 .. h.len : /\ Climb(h, a)[p] = lca
                              /\ up = FirstSteps(h, a, p)
  <2> HIDE DEF lca
  <2> QED BY <1>1, PathUpIsClimb
<1>3. PICK q \in 0 .. h.len : /\ Climb(h, b)[q] = lca
                              /\ down = FirstSteps(h, b, q)
  <2> HIDE DEF lca
  <2> QED BY <1>1, PathUpIsClimb
<1>4. p \in Nat /\ q \in Nat
  BY DEF IsTree
<1>5. Len(up) = p /\ Len(down) = q
  <2> HIDE DEF up, down
  <2> QED BY <1>2, <1>3, <1>4 DEF FirstSteps
<1>6. Route(h, a, b) = [k \in 1 .. p + q |->
          IF k <= p THEN Inversion(h.rev[up[k]])
                    ELSE Transaction(h.rev[down[p + q + 1 - k]])]
  BY <1>5 DEF Route
<1> HIDE DEF up, down, lca
<1>7. ASSUME NEW k \in 1 .. p + q
      PROVE  (IF k <= p THEN Inversion(h.rev[up[k]])
                        ELSE Transaction(h.rev[down[p + q + 1 - k]]))
             = (IF k <= p THEN Inversion(h.rev[Climb(h, a)[k - 1]])
                          ELSE Transaction(h.rev[Climb(h, b)[p + q - k]]))
  <2>1. CASE k <= p
    <3>1. up[k] = Climb(h, a)[k - 1]
      BY <1>2, <1>4, <2>1 DEF FirstSteps
    <3> QED BY <2>1, <3>1
  <2>2. CASE ~(k <= p)
    <3>1. p + q + 1 - k \in 1 .. q /\ (p + q + 1 - k) - 1 = p + q - k
      BY <1>4, <2>2
    <3>2. down[p + q + 1 - k] = Climb(h, b)[p + q - k]
      BY <1>3, <3>1 DEF FirstSteps
    <3> QED BY <2>2, <3>2
  <2> QED BY <2>1, <2>2
<1>8. Route(h, a, b) = UpAndDown(h, a, p, b, q)
  BY <1>6, <1>7 DEF UpAndDown
<1> QED BY <1>2, <1>3, <1>8

\* The texts of a history.
TextsIn(h, T) == \A i \in Indices(h) : h.rev[i].pre \in T /\ h.rev[i].post \in T

\* A route is a list of transactions over the texts of the history.
LEMMA RouteTyped ==
    ASSUME NEW h, IsTree(h), NEW T, TextsIn(h, T),
           NEW a \in Indices(h), NEW b \in Indices(h)
    PROVE  Route(h, a, b) \in Seq(Txn(T))
<1>1. PICK p, q \in 0 .. h.len :
        Route(h, a, b) = UpAndDown(h, a, p, b, q)
  BY RouteIsTwoClimbs
<1>2. p \in Nat /\ q \in Nat /\ h.len \in Nat
  BY DEF IsTree
<1>3. /\ Climb(h, a) \in [0 .. h.len -> Indices(h)]
      /\ Climb(h, b) \in [0 .. h.len -> Indices(h)]
  BY ClimbSteps
<1>4. \A i \in Indices(h) : Inversion(h.rev[i]) \in Txn(T) /\ Transaction(h.rev[i]) \in Txn(T)
  BY DEF TextsIn, Inversion, Transaction, Txn
<1>5. ASSUME NEW i \in 1 .. p + q
      PROVE  (IF i <= p THEN Inversion(h.rev[Climb(h, a)[i - 1]])
                        ELSE Transaction(h.rev[Climb(h, b)[p + q - i]])) \in Txn(T)
  <2>1. CASE i <= p
    <3>1. Climb(h, a)[i - 1] \in Indices(h)
      BY <1>2, <1>3, <2>1
    <3> QED BY <1>4, <2>1, <3>1
  <2>2. CASE ~(i <= p)
    <3>1. Climb(h, b)[p + q - i] \in Indices(h)
      BY <1>2, <1>3, <2>2
    <3> QED BY <1>4, <2>2, <3>1
  <2> QED BY <2>1, <2>2
<1> QED BY <1>1, <1>2, <1>5 DEF UpAndDown

\* In a chained history, the route between any two revisions, replayed on the
\* text of the first, is accepted throughout and gives the text of the second.
THEOREM RouteExact ==
    ASSUME NEW h, IsTree(h), Chained(h), NEW T, Garbled \in T, TextsIn(h, T),
           NEW a \in Indices(h), NEW b \in Indices(h)
    PROVE  /\ Replay(Route(h, a, b), h.rev[a].post)
                = {Arrival(h.rev[b].post, Len(Route(h, a, b)))}
           /\ Len(Route(h, a, b)) = 0 => a = b
<1> DEFINE ca == Climb(h, a)
           cb == Climb(h, b)
           R == Route(h, a, b)
<1>0. PICK p, q \in 0 .. h.len : ca[p] = cb[q] /\ R = UpAndDown(h, a, p, b, q)
  BY RouteIsTwoClimbs
<1>1. /\ ca[p] = cb[q]
      /\ R = [i \in 1 .. p + q |-> IF i <= p THEN Inversion(h.rev[ca[i - 1]])
                                             ELSE Transaction(h.rev[cb[p + q - i]])]
  BY <1>0 DEF UpAndDown
<1>2. p \in Nat /\ q \in Nat /\ h.len \in Nat
  BY DEF IsTree
<1>3. /\ ca \in [0 .. h.len -> Indices(h)] /\ ca[0] = a
      /\ \A k \in 1 .. h.len : ca[k] = h.rev[ca[k - 1]].parent
      /\ cb \in [0 .. h.len -> Indices(h)] /\ cb[0] = b
      /\ \A k \in 1 .. h.len : cb[k] = h.rev[cb[k - 1]].parent
  BY ClimbSteps
<1>4. R \in Seq(Txn(T))
  BY RouteTyped
<1> HIDE DEF ca, cb, R
<1>5. Len(R) = p + q
  BY <1>1, <1>2
<1> DEFINE w == [i \in 0 .. p + q |-> IF i <= p THEN h.rev[ca[i]].post
                                               ELSE h.rev[cb[p + q - i]].post]
<1>6. w \in [0 .. p + q -> T]
  <2>1. ASSUME NEW i \in 0 .. p + q
        PROVE (IF i <= p THEN h.rev[ca[i]].post ELSE h.rev[cb[p + q - i]].post) \in T
    <3>1. CASE i <= p
      BY <1>2, <1>3, <3>1 DEF TextsIn
    <3>2. CASE ~(i <= p)
      <4>1. p + q - i \in 0 .. h.len
        BY <1>2, <3>2
      <4> QED BY <1>3, <3>2, <4>1 DEF TextsIn
    <3> QED BY <3>1, <3>2
  <2> QED BY <2>1
<1>7. \A n \in Indices(h) : h.rev[n].pre = h.rev[h.rev[n].parent].post
  BY DEF Chained, Indices
<1>8. ASSUME NEW i \in 1 .. p + q PROVE R[i].pre = w[i - 1] /\ R[i].post = w[i]
  <2>1. CASE i <= p
    <3>1. i - 1 \in 0 .. h.len /\ i \in 1 .. h.len /\ ca[i - 1] \in Indices(h)
      BY <1>2, <1>3, <2>1
    <3>2. R[i] = Inversion(h.rev[ca[i - 1]])
      BY <1>1, <2>1
    <3>3. w[i - 1] = h.rev[ca[i - 1]].post /\ w[i] = h.rev[ca[i]].post
      BY <1>2, <2>1
    <3>4. h.rev[ca[i - 1]].pre = h.rev[ca[i]].post
      BY <1>3, <1>7, <3>1
    <3> HIDE DEF w
    <3> QED BY <3>2, <3>3, <3>4 DEF Inversion
  <2>2. CASE ~(i <= p)
    <3> DEFINE k == p + q - i
    <3>1. k \in 0 .. h.len /\ k + 1 \in 1 .. h.len /\ k = (k + 1) - 1
      BY <1>2, <2>2
    <3>2. R[i] = Transaction(h.rev[cb[k]])
      BY <1>1, <2>2
    <3>3. w[i] = h.rev[cb[k]].post
      BY <2>2
    <3>4. h.rev[cb[k]].pre = h.rev[cb[k + 1]].post
      <4>1. cb[k] \in Indices(h) /\ cb[k + 1] = h.rev[cb[k]].parent
        <5> HIDE DEF k
        <5>1. cb[k + 1] = h.rev[cb[(k + 1) - 1]].parent
          BY <1>3, <3>1
        <5> QED BY <1>3, <3>1, <5>1
      <4> HIDE DEF k
      <4> QED BY <4>1, <1>7
    <3>5. w[i - 1] = h.rev[cb[k + 1]].post
      <4>1. CASE i - 1 <= p
        <5>1. i - 1 = p /\ k + 1 = q
          BY <1>2, <2>2, <4>1
        <5>2. w[p] = h.rev[ca[p]].post
          BY <1>2
        <5> HIDE DEF w, k
        <5> QED BY <1>0, <5>1, <5>2
      <4>2. CASE ~(i - 1 <= p)
        <5>1. i - 1 \in 0 .. p + q /\ p + q - (i - 1) = k + 1
          BY <1>2, <4>2
        <5>2. w[i - 1] = h.rev[cb[p + q - (i - 1)]].post
          BY <4>2, <5>1
        <5> QED BY <5>1, <5>2
      <4> QED BY <4>1, <4>2
    <3> HIDE DEF w, k
    <3> QED BY <3>2, <3>3, <3>4, <3>5 DEF Transaction
  <2> QED BY <2>1, <2>2
<1>9. w[0] = h.rev[a].post /\ w[p + q] = h.rev[b].post
  <2>1. w[0] = h.rev[a].post
    BY <1>2, <1>3
  <2>2. CASE q = 0
    BY <1>1, <1>2, <1>3, <2>1, <2>2
  <2>3. CASE q # 0
    <3>1. ~(p + q <= p) /\ p + q - (p + q) = 0 /\ p + q \in 0 .. p + q
      BY <1>2, <2>3
    <3> QED BY <1>3, <2>1, <3>1
  <2> QED BY <2>2, <2>3
<1>10. Replay(R, w[0]) = {Arrival(w[p + q], p + q)}
  <2> HIDE DEF w
  <2> QED BY <1>4, <1>5, <1>6, <1>8, ReplayExact
<1>11. p + q = 0 => a = b
  BY <1>1, <1>2, <1>3
<1> HIDE DEF w
<1> QED BY <1>5, <1>9, <1>10, <1>11 DEF R

-----------------------------------------------------------------------------
(* What the operations on a history preserve. *)

\* A well-formed history is a tree by index over the texts, with a current
\* revision in it.
LEMMA HistoryIsTree ==
    ASSUME NEW T, NEW h, IsHistory(h, T)
    PROVE  IsTree(h) /\ TextsIn(h, T) /\ h.current \in Indices(h)
BY DEF IsHistory, WellFormed, IsTree, TextsIn, Indices, Revision

\* History::default, the root alone, is well formed and chained.
LEMMA NewHistoryTyped ==
    ASSUME NEW T, NEW t \in T, NEW now \in Nat
    PROVE  IsHistory(NewHistory(t, now), T) /\ Chained(NewHistory(t, now))
BY DEF IsHistory, WellFormed, NewHistory, Revision, None, Children, Chained

\* WithChild changes the last child and nothing else.
LEMMA WithChildFields ==
    ASSUME NEW T, NEW r \in Revision(T), NEW c \in Nat
    PROVE  /\ WithChild(r, c) \in Revision(T) /\ WithChild(r, c).parent = r.parent
           /\ WithChild(r, c).last_child = c /\ WithChild(r, c).pre = r.pre
           /\ WithChild(r, c).post = r.post
BY DEF WithChild, Revision

\* Joined leaves a revision's place in the tree alone; a change that fits moves
\* the text the revision leaves, and not the one it starts from.
LEMMA JoinedFields ==
    ASSUME NEW T, NEW r \in Revision(T), NEW x \in Txn(T), NEW now \in Nat
    PROVE  /\ Joined(r, x, now).parent = r.parent
           /\ Joined(r, x, now).last_child = r.last_child
           /\ Garbled \in T => Joined(r, x, now) \in Revision(T)
           /\ r.post = x.pre => /\ Joined(r, x, now).pre = r.pre
                                /\ Joined(r, x, now).post = x.post
BY DEF Joined, Revision, Txn

\* RootBefore gives the root a first child.
LEMMA RootBeforeFields ==
    ASSUME NEW T, NEW r \in Revision(T), NEW first \in Revision(T)
    PROVE  /\ RootBefore(r, first) \in Revision(T) /\ RootBefore(r, first).parent = r.parent
           /\ RootBefore(r, first).last_child = 1
BY DEF RootBefore, Revision

ShiftedChild(r, drop) == IF r.last_child = None THEN None ELSE r.last_child - drop

\* Reindexed shifts the links of a revision and keeps its texts.
LEMMA ReindexedFields ==
    ASSUME NEW T, NEW r \in Revision(T), NEW drop \in Nat,
           ShiftedChild(r, drop) \in Nat
    PROVE  /\ Reindexed(r, drop) \in Revision(T)
           /\ Reindexed(r, drop).parent = SatSub(r.parent, drop)
           /\ Reindexed(r, drop).last_child = ShiftedChild(r, drop)
<1>1. Reindexed(r, drop) = [r EXCEPT !.parent = SatSub(r.parent, drop),
                                     !.last_child = ShiftedChild(r, drop)]
  BY DEF Reindexed, ShiftedChild
<1>2. SatSub(r.parent, drop) \in Nat
  BY DEF SatSub, Revision
<1> QED BY <1>1, <1>2 DEF Revision

\* What is known of the parts of a history.
LEMMA HistoryParts ==
    ASSUME NEW T, NEW h, IsHistory(h, T)
    PROVE  /\ h.len \in Nat \ {0} /\ h.current \in 0 .. h.len - 1
           /\ \A i \in 0 .. h.len - 1 : h.rev[i] \in Revision(T)
           /\ h.rev[0].parent = 0
           /\ \A i \in 1 .. h.len - 1 : h.rev[i].parent \in 0 .. i - 1
           /\ \A i \in 0 .. h.len - 1 :
                 \/ h.rev[i].last_child = None
                 \/ /\ h.rev[i].last_child \in i + 1 .. h.len - 1
                    /\ h.rev[h.rev[i].last_child].parent = i
<1>1. /\ h.len \in Nat \ {0} /\ h.current \in 0 .. h.len - 1
      /\ \A i \in 0 .. h.len - 1 : h.rev[i] \in Revision(T)
      /\ h.rev[0].parent = 0
      /\ \A i \in 1 .. h.len - 1 : h.rev[i].parent \in 0 .. i - 1
  BY DEF IsHistory, WellFormed
<1>2. \A i \in 0 .. h.len - 1 :
        h.rev[i].last_child = None \/ h.rev[i].last_child \in Children(h, i)
  BY DEF IsHistory, WellFormed
<1>3. ASSUME NEW i \in 0 .. h.len - 1, h.rev[i].last_child # None
      PROVE  /\ h.rev[i].last_child \in i + 1 .. h.len - 1
             /\ h.rev[h.rev[i].last_child].parent = i
  <2>1. /\ h.rev[i].last_child \in 1 .. h.len - 1
        /\ h.rev[h.rev[i].last_child].parent = i
    BY <1>2, <1>3 DEF Children
  <2>2. h.rev[h.rev[i].last_child].parent \in 0 .. h.rev[i].last_child - 1
    BY <1>1, <2>1
  <2> QED BY <1>1, <2>1, <2>2
<1> QED BY <1>1, <1>3

\* What commit_revision_at_timestamp pushes: one revision at the end, below the
\* current one, and no other revision's transaction touched.
LEMMA PushedParts ==
    ASSUME NEW T, NEW h, IsHistory(h, T), NEW x \in Txn(T), NEW now \in Nat, NEW g,
           g = Pushed(h, x, now)
    PROVE  /\ g = [len |-> g.len, current |-> g.current, rev |-> g.rev]
           /\ g.len = h.len + 1 /\ g.current = h.len
           /\ g.rev \in [0 .. h.len -> Revision(T)]
           /\ \A i \in 0 .. h.len - 1 :
                 /\ g.rev[i].parent = h.rev[i].parent
                 /\ g.rev[i].pre = h.rev[i].pre /\ g.rev[i].post = h.rev[i].post
                 /\ i # h.current => g.rev[i].last_child = h.rev[i].last_child
           /\ g.rev[h.current].last_child = h.len
           /\ g.rev[h.len].parent = h.current /\ g.rev[h.len].last_child = None
           /\ g.rev[h.len].pre = x.pre /\ g.rev[h.len].post = x.post
<1> DEFINE new == [parent |-> h.current, last_child |-> None,
                   pre |-> x.pre, post |-> x.post, timestamp |-> now]
<1>1. /\ h.len \in Nat \ {0} /\ h.current \in 0 .. h.len - 1
      /\ \A i \in 0 .. h.len - 1 : h.rev[i] \in Revision(T)
  BY HistoryParts
<1>2. new \in Revision(T) /\ new.parent = h.current /\ new.last_child = None
      /\ new.pre = x.pre /\ new.post = x.post
  BY <1>1 DEF Revision, Txn, None
<1>3. g = [len |-> g.len, current |-> g.current, rev |-> g.rev]
      /\ g.len = h.len + 1 /\ g.current = h.len
      /\ g.rev = [i \in 0 .. h.len |->
                    IF i = h.len THEN new
                    ELSE IF i = h.current THEN WithChild(h.rev[i], h.len) ELSE h.rev[i]]
  BY DEF Pushed
<1>4. /\ WithChild(h.rev[h.current], h.len) \in Revision(T)
      /\ WithChild(h.rev[h.current], h.len).parent = h.rev[h.current].parent
      /\ WithChild(h.rev[h.current], h.len).pre = h.rev[h.current].pre
      /\ WithChild(h.rev[h.current], h.len).post = h.rev[h.current].post
      /\ WithChild(h.rev[h.current], h.len).last_child = h.len
  <2> DEFINE r == h.rev[h.current]  n == h.len
  <2>1. r \in Revision(T) /\ n \in Nat
    BY <1>1
  <2> HIDE DEF r, n
  <2>2. /\ WithChild(r, n) \in Revision(T) /\ WithChild(r, n).parent = r.parent
        /\ WithChild(r, n).pre = r.pre /\ WithChild(r, n).post = r.post
        /\ WithChild(r, n).last_child = n
    BY <2>1, WithChildFields
  <2> QED BY <2>2 DEF r, n
<1> HIDE DEF new
<1>5. g.rev[h.len] = new /\ g.rev[h.current] = WithChild(h.rev[h.current], h.len)
  BY <1>1, <1>3
<1>6. \A i \in 0 .. h.len - 1 : i # h.current => g.rev[i] = h.rev[i]
  BY <1>1, <1>3
<1>7. \A i \in 0 .. h.len : g.rev[i] \in Revision(T)
  <2>1. \A i \in 0 .. h.len : i = h.len \/ i \in 0 .. h.len - 1
    BY <1>1
  <2> QED BY <1>1, <1>2, <1>4, <1>5, <1>6, <2>1
<1>8. g.rev \in [0 .. h.len -> Revision(T)]
  <2>1. g.rev = [i \in 0 .. h.len |-> g.rev[i]]
    BY <1>3
  <2> QED BY <1>7, <2>1
<1>9. ASSUME NEW i \in 0 .. h.len - 1
      PROVE  /\ g.rev[i].parent = h.rev[i].parent
             /\ g.rev[i].pre = h.rev[i].pre /\ g.rev[i].post = h.rev[i].post
             /\ i # h.current => g.rev[i].last_child = h.rev[i].last_child
  <2>1. CASE i = h.current
    BY <1>4, <1>5, <2>1
  <2>2. CASE i # h.current
    BY <1>6, <2>2
  <2> QED BY <2>1, <2>2
<1> QED BY <1>2, <1>3, <1>4, <1>5, <1>8, <1>9

LinkOK(h, i) ==
    \/ h.rev[i].last_child = None
    \/ /\ h.rev[i].last_child \in 1 .. h.len - 1
       /\ h.rev[h.rev[i].last_child].parent = i

\* The parts that make a history.
LEMMA MakesHistory ==
    ASSUME NEW T, NEW g,
           g = [len |-> g.len, current |-> g.current, rev |-> g.rev],
           g.len \in Nat \ {0}, g.current \in 0 .. g.len - 1,
           g.rev \in [0 .. g.len - 1 -> Revision(T)],
           g.rev[0].parent = 0,
           \A i \in 1 .. g.len - 1 : g.rev[i].parent \in 0 .. i - 1,
           \A i \in 0 .. g.len - 1 : LinkOK(g, i)
    PROVE  IsHistory(g, T)
<1>1. ASSUME NEW i \in 0 .. g.len - 1
      PROVE  g.rev[i].last_child = None \/ g.rev[i].last_child \in Children(g, i)
  BY DEF LinkOK, Children
<1>2. WellFormed(g)
  BY <1>1 DEF WellFormed
<1> QED BY <1>2 DEF IsHistory

\* Committing a change keeps the tree a tree.
LEMMA PushedTyped ==
    ASSUME NEW T, NEW h, IsHistory(h, T), NEW x \in Txn(T), NEW now \in Nat
    PROVE  IsHistory(Pushed(h, x, now), T)
<1> DEFINE g == Pushed(h, x, now)
<1>1. /\ g = [len |-> g.len, current |-> g.current, rev |-> g.rev]
      /\ g.len = h.len + 1 /\ g.current = h.len
      /\ g.rev \in [0 .. h.len -> Revision(T)]
      /\ \A i \in 0 .. h.len - 1 :
            /\ g.rev[i].parent = h.rev[i].parent
            /\ i # h.current => g.rev[i].last_child = h.rev[i].last_child
      /\ g.rev[h.current].last_child = h.len
      /\ g.rev[h.len].parent = h.current /\ g.rev[h.len].last_child = None
  BY PushedParts
<1> HIDE DEF g
<1>2. /\ h.len \in Nat \ {0} /\ h.current \in 0 .. h.len - 1
      /\ h.rev[0].parent = 0
      /\ \A i \in 1 .. h.len - 1 : h.rev[i].parent \in 0 .. i - 1
      /\ \A i \in 0 .. h.len - 1 :
            \/ h.rev[i].last_child = None
            \/ /\ h.rev[i].last_child \in i + 1 .. h.len - 1
               /\ h.rev[h.rev[i].last_child].parent = i
  BY HistoryParts
<1>3. g.rev[0].parent = 0
  BY <1>1, <1>2
<1>4. ASSUME NEW i \in 1 .. g.len - 1 PROVE g.rev[i].parent \in 0 .. i - 1
  <2>1. CASE i = h.len
    BY <1>1, <1>2, <2>1
  <2>2. CASE i # h.len
    <3>1. i \in 1 .. h.len - 1 /\ i \in 0 .. h.len - 1
      BY <1>1, <1>2, <2>2
    <3>2. g.rev[i].parent = h.rev[i].parent
      BY <1>1, <3>1
    <3> QED BY <1>2, <3>1, <3>2
  <2> QED BY <2>1, <2>2
<1>5. ASSUME NEW i \in 0 .. g.len - 1 PROVE LinkOK(g, i)
  <2>1. CASE i = h.len
    BY <1>1, <2>1 DEF LinkOK
  <2>2. CASE i = h.current
    <3>1. h.len \in 1 .. g.len - 1 /\ g.rev[h.len].parent = i
      BY <1>1, <1>2, <2>2
    <3> QED BY <1>1, <2>2, <3>1 DEF LinkOK
  <2>3. CASE i # h.len /\ i # h.current
    <3>1. i \in 0 .. h.len - 1
      BY <1>1, <1>2, <2>3
    <3>2. g.rev[i].last_child = h.rev[i].last_child
      BY <1>1, <2>3, <3>1
    <3>3. CASE h.rev[i].last_child # None
      <4>1. /\ h.rev[i].last_child \in i + 1 .. h.len - 1
            /\ h.rev[h.rev[i].last_child].parent = i
        BY <1>2, <3>1, <3>3
      <4>2. h.rev[i].last_child \in 0 .. h.len - 1 /\ h.rev[i].last_child \in 1 .. g.len - 1
        BY <1>1, <1>2, <3>1, <4>1
      <4>3. g.rev[h.rev[i].last_child].parent = i
        BY <1>1, <4>1, <4>2
      <4> QED BY <3>2, <4>2, <4>3 DEF LinkOK
    <3> QED BY <3>2, <3>3 DEF LinkOK
  <2> QED BY <2>1, <2>2, <2>3
<1>6. g.len \in Nat \ {0} /\ g.current \in 0 .. g.len - 1
      /\ g.rev \in [0 .. g.len - 1 -> Revision(T)]
  BY <1>1, <1>2
<1>7. IsHistory(g, T)
  BY <1>1, <1>3, <1>4, <1>5, <1>6, MakesHistory
<1> QED BY <1>7 DEF g

\* A change made to the text of the current revision keeps the chain.
LEMMA PushedChained ==
    ASSUME NEW T, NEW h, IsHistory(h, T), NEW x \in Txn(T), NEW now \in Nat,
           Chained(h), x.pre = h.rev[h.current].post
    PROVE  /\ Chained(Pushed(h, x, now))
           /\ Pushed(h, x, now).rev[Pushed(h, x, now).current].post = x.post
<1> DEFINE g == Pushed(h, x, now)
<1>1. /\ g.len = h.len + 1 /\ g.current = h.len
      /\ \A i \in 0 .. h.len - 1 :
            /\ g.rev[i].parent = h.rev[i].parent
            /\ g.rev[i].pre = h.rev[i].pre /\ g.rev[i].post = h.rev[i].post
      /\ g.rev[h.len].parent = h.current
      /\ g.rev[h.len].pre = x.pre /\ g.rev[h.len].post = x.post
  BY PushedParts
<1> HIDE DEF g
<1>2. /\ h.len \in Nat \ {0} /\ h.current \in 0 .. h.len - 1
      /\ h.rev[0].parent = 0
      /\ \A i \in 1 .. h.len - 1 : h.rev[i].parent \in 0 .. i - 1
  BY HistoryParts
<1>3. ASSUME NEW i \in 0 .. g.len - 1
      PROVE  g.rev[i].pre = g.rev[g.rev[i].parent].post
  <2>1. CASE i = h.len
    BY <1>1, <1>2, <2>1
  <2>2. CASE i # h.len
    <3>1. i \in 0 .. h.len - 1
      BY <1>1, <1>2, <2>2
    <3>2. h.rev[i].parent \in 0 .. h.len - 1
      BY <1>2, <3>1
    <3>3. h.rev[i].pre = h.rev[h.rev[i].parent].post
      BY <3>1 DEF Chained
    <3> QED BY <1>1, <3>1, <3>2, <3>3
  <2> QED BY <2>1, <2>2
<1>4. Chained(g) /\ g.rev[g.current].post = x.post
  BY <1>1, <1>3 DEF Chained
<1> QED BY <1>4 DEF g

\* Dropping the oldest revisions, as far as the current one allows, leaves a
\* tree: what hung below a dropped revision hangs below the root.
LEMMA DropOldestTyped ==
    ASSUME NEW T, NEW h, IsHistory(h, T), NEW drop \in Nat,
           drop # 0, drop < h.current
    PROVE  IsHistory(DropOldest(h, drop), T)
<1> DEFINE g == DropOldest(h, drop)
           old(i) == h.rev[i + drop]
           first == RootBefore(h.rev[0], h.rev[drop + 1])
<1>1. /\ g = [len |-> g.len, current |-> g.current, rev |-> g.rev]
      /\ g.len = h.len - drop /\ g.current = h.current - drop
      /\ g.rev = [i \in 0 .. h.len - drop - 1 |->
                    IF i = 0 THEN first ELSE Reindexed(old(i), drop)]
  BY DEF DropOldest
<1>2. /\ h.len \in Nat \ {0} /\ h.current \in 0 .. h.len - 1
      /\ \A i \in 0 .. h.len - 1 : h.rev[i] \in Revision(T)
      /\ h.rev[0].parent = 0
      /\ \A i \in 1 .. h.len - 1 : h.rev[i].parent \in 0 .. i - 1
      /\ \A i \in 0 .. h.len - 1 :
            \/ h.rev[i].last_child = None
            \/ /\ h.rev[i].last_child \in i + 1 .. h.len - 1
               /\ h.rev[h.rev[i].last_child].parent = i
  BY HistoryParts
<1>3. first \in Revision(T) /\ first.parent = 0 /\ first.last_child = 1
  <2>1. h.rev[0] \in Revision(T) /\ h.rev[drop + 1] \in Revision(T)
    BY <1>2
  <2> QED BY <1>2, <2>1, RootBeforeFields
<1>4. ASSUME NEW i \in 1 .. g.len - 1
      PROVE  /\ i + drop \in 0 .. h.len - 1 /\ i + drop \in 1 .. h.len - 1
             /\ old(i) \in Revision(T) /\ ShiftedChild(old(i), drop) \in Nat
             /\ old(i).parent \in 0 .. i + drop - 1
  <2> HIDE DEF g
  <2>1. i + drop \in 0 .. h.len - 1 /\ i + drop \in 1 .. h.len - 1
    BY <1>1, <1>2
  <2>2. old(i) \in Revision(T) /\ old(i).parent \in 0 .. i + drop - 1
    BY <1>2, <2>1
  <2>3. old(i).last_child = None \/ old(i).last_child \in i + drop + 1 .. h.len - 1
    BY <1>2, <2>1
  <2>4. ShiftedChild(old(i), drop) \in Nat
    BY <1>2, <2>3 DEF ShiftedChild, None
  <2> QED BY <2>1, <2>2, <2>4
<1> HIDE DEF g, first
<1>5. g.len \in Nat /\ g.len >= 2 /\ g.current \in 0 .. g.len - 1
  BY <1>1, <1>2
<1>6. g.rev[0] = first
  BY <1>1, <1>5
<1>7. ASSUME NEW i \in 1 .. g.len - 1
      PROVE  /\ g.rev[i] \in Revision(T)
             /\ g.rev[i].parent = SatSub(old(i).parent, drop)
             /\ g.rev[i].last_child = ShiftedChild(old(i), drop)
  <2>1. g.rev[i] = Reindexed(old(i), drop)
    BY <1>1, <1>2
  <2>2. old(i) \in Revision(T) /\ ShiftedChild(old(i), drop) \in Nat
    BY <1>4
  <2> HIDE DEF old
  <2> QED BY <2>1, <2>2, ReindexedFields
<1>8. g.rev \in [0 .. g.len - 1 -> Revision(T)]
  <2>1. \A i \in 0 .. g.len - 1 : i = 0 \/ i \in 1 .. g.len - 1
    BY <1>5
  <2>2. \A i \in 0 .. g.len - 1 : g.rev[i] \in Revision(T)
    <3> HIDE DEF old
    <3> QED BY <1>3, <1>6, <1>7, <2>1
  <2>3. g.rev = [i \in 0 .. g.len - 1 |-> g.rev[i]]
    BY <1>1
  <2> QED BY <2>2, <2>3
<1>9. ASSUME NEW i \in 1 .. g.len - 1 PROVE g.rev[i].parent \in 0 .. i - 1
  BY <1>4, <1>7 DEF SatSub
<1>10. LinkOK(g, 0)
  <2>1. 1 \in 1 .. g.len - 1
    BY <1>5
  <2>2. g.rev[1].parent \in 0 .. 1 - 1
    BY <1>9, <2>1
  <2>3. g.rev[1].parent = 0
    BY <2>2
  <2> QED BY <1>3, <1>6, <2>1, <2>3 DEF LinkOK
<1>11. ASSUME NEW i \in 1 .. g.len - 1 PROVE LinkOK(g, i)
  <2> DEFINE c == old(i).last_child
  <2>1. CASE c = None
    BY <1>7, <2>1 DEF LinkOK, ShiftedChild
  <2>2. CASE c # None
    <3>1. c \in i + drop + 1 .. h.len - 1 /\ h.rev[c].parent = i + drop
      BY <1>2, <1>4, <2>2
    <3>2. g.rev[i].last_child = c - drop
      BY <1>7, <2>2 DEF ShiftedChild
    <3> HIDE DEF c
    <3>3. c - drop \in 1 .. g.len - 1 /\ (c - drop) + drop = c
      BY <1>1, <1>2, <3>1
    <3>4. g.rev[c - drop].parent = SatSub(i + drop, drop)
      BY <1>7, <3>1, <3>3
    <3>5. SatSub(i + drop, drop) = i
      BY DEF SatSub
    <3> QED BY <3>2, <3>3, <3>4, <3>5 DEF LinkOK
  <2> QED BY <2>1, <2>2
<1>12. \A i \in 0 .. g.len - 1 : LinkOK(g, i)
  <2>1. \A i \in 0 .. g.len - 1 : i = 0 \/ i \in 1 .. g.len - 1
    BY <1>5
  <2> QED BY <1>10, <1>11, <2>1
<1>13. g.len \in Nat \ {0} /\ g.rev[0].parent = 0
  BY <1>3, <1>5, <1>6
<1>14. IsHistory(g, T)
  <2>1. g = [len |-> g.len, current |-> g.current, rev |-> g.rev]
    BY <1>1
  <2> QED BY <2>1, <1>5, <1>8, <1>9, <1>12, <1>13, MakesHistory
<1> QED BY <1>14 DEF g

\* Trimming to undolevels keeps the tree a tree.
LEMMA TrimTyped ==
    ASSUME NEW T, NEW h, IsHistory(h, T), NEW max \in Nat
    PROVE  IsHistory(trim_to_undo_levels(h, max), T)
<1> DEFINE real == h.len - 1
           drop == Least(real - max, SatSub(h.current, 1))
<1>1. h.len \in Nat \ {0} /\ h.current \in 0 .. h.len - 1
  BY HistoryParts
<1>2. trim_to_undo_levels(h, max)
        = IF max = 0 \/ real <= max \/ drop = 0 THEN h ELSE DropOldest(h, drop)
  BY DEF trim_to_undo_levels
<1>3. CASE max = 0 \/ real <= max \/ drop = 0
  BY <1>2, <1>3
<1>4. CASE ~(max = 0 \/ real <= max \/ drop = 0)
  <2>1. drop \in Nat /\ drop # 0 /\ drop < h.current
    BY <1>1, <1>4 DEF Least, SatSub
  <2> HIDE DEF drop
  <2> QED BY <1>2, <1>4, <2>1, DropOldestTyped
<1> QED BY <1>3, <1>4

\* A commit keeps the tree a tree, whatever undolevels is.
LEMMA CommitTyped ==
    ASSUME NEW T, NEW h, IsHistory(h, T), NEW x \in Txn(T), NEW now \in Nat,
           NEW max \in Nat
    PROVE  IsHistory(commit_revision(h, x, now, max), T)
BY PushedTyped, TrimTyped DEF commit_revision

\* So does :undojoin.
LEMMA MergeTyped ==
    ASSUME NEW T, NEW h, IsHistory(h, T), NEW x \in Txn(T), NEW now \in Nat,
           NEW max \in Nat, Garbled \in T
    PROVE  IsHistory(merge_last_revision(h, x, now, max), T)
<1>1. CASE h.current = 0
  BY <1>1, CommitTyped DEF merge_last_revision
<1>2. CASE h.current # 0
  <2> DEFINE g == merge_last_revision(h, x, now, max)
             j == Joined(h.rev[h.current], x, now)
  <2>1. /\ h.len \in Nat \ {0} /\ h.current \in 0 .. h.len - 1
        /\ \A i \in 0 .. h.len - 1 : h.rev[i] \in Revision(T)
        /\ h.rev[0].parent = 0
        /\ \A i \in 1 .. h.len - 1 : h.rev[i].parent \in 0 .. i - 1
        /\ \A i \in 0 .. h.len - 1 :
              \/ h.rev[i].last_child = None
              \/ /\ h.rev[i].last_child \in i + 1 .. h.len - 1
                 /\ h.rev[h.rev[i].last_child].parent = i
    BY HistoryParts
  <2>2. /\ h = [len |-> h.len, current |-> h.current, rev |-> h.rev]
        /\ h.rev \in [0 .. h.len - 1 -> Revision(T)]
    BY DEF IsHistory
  <2>3. j \in Revision(T) /\ j.parent = h.rev[h.current].parent
        /\ j.last_child = h.rev[h.current].last_child
    <3>1. h.rev[h.current] \in Revision(T)
      BY <2>1
    <3> QED BY <3>1, JoinedFields
  <2>4. g = [h EXCEPT !.rev = [h.rev EXCEPT ![h.current] = j]]
    BY <1>2 DEF merge_last_revision
  <2> HIDE DEF g, j
  <2>5. /\ g = [len |-> g.len, current |-> g.current, rev |-> g.rev]
        /\ g.len = h.len /\ g.current = h.current
        /\ g.rev = [h.rev EXCEPT ![h.current] = j]
    BY <2>2, <2>4
  <2>6. /\ g.rev \in [0 .. g.len - 1 -> Revision(T)]
        /\ \A i \in 0 .. h.len - 1 : /\ g.rev[i].parent = h.rev[i].parent
                                     /\ g.rev[i].last_child = h.rev[i].last_child
    BY <2>1, <2>2, <2>3, <2>5
  <2>7. ASSUME NEW i \in 0 .. g.len - 1 PROVE LinkOK(g, i)
    <3>1. CASE h.rev[i].last_child # None
      <4>1. /\ h.rev[i].last_child \in i + 1 .. h.len - 1
            /\ h.rev[h.rev[i].last_child].parent = i
        BY <2>1, <2>5, <3>1
      <4>2. /\ h.rev[i].last_child \in 0 .. h.len - 1
            /\ h.rev[i].last_child \in 1 .. h.len - 1
        BY <2>1, <2>5, <4>1
      <4> QED BY <2>5, <2>6, <4>1, <4>2 DEF LinkOK
    <3> QED BY <2>5, <2>6, <3>1 DEF LinkOK
  <2>8. /\ g.rev[0].parent = 0
        /\ \A i \in 1 .. g.len - 1 : g.rev[i].parent \in 0 .. i - 1
    <3>1. 0 \in 0 .. h.len - 1 /\ \A i \in 1 .. h.len - 1 : i \in 0 .. h.len - 1
      BY <2>1
    <3>2. g.rev[0].parent = 0
      BY <2>1, <2>6, <3>1
    <3>3. \A i \in 1 .. h.len - 1 : g.rev[i].parent = h.rev[i].parent
      BY <2>6, <3>1
    <3>4. \A i \in 1 .. h.len - 1 : g.rev[i].parent \in 0 .. i - 1
      BY <2>1, <3>3
    <3> QED BY <2>5, <3>2, <3>4
  <2>9. IsHistory(g, T)
    BY <2>1, <2>5, <2>6, <2>7, <2>8, MakesHistory
  <2> QED BY <2>9 DEF g
<1> QED BY <1>1, <1>2

-----------------------------------------------------------------------------
(* Moves. *)

AtRevision(h, r) == [h EXCEPT !.current = r]

\* Standing at another revision changes nothing else of a history.
LEMMA AtTyped ==
    ASSUME NEW T, NEW h, IsHistory(h, T), NEW r \in Indices(h)
    PROVE  /\ IsHistory(AtRevision(h, r), T)
           /\ AtRevision(h, r).len = h.len /\ AtRevision(h, r).rev = h.rev /\ AtRevision(h, r).current = r
<1> DEFINE g == AtRevision(h, r)
<1>1. /\ h = [len |-> h.len, current |-> h.current, rev |-> h.rev]
      /\ h.len \in Nat \ {0}
      /\ h.rev \in [0 .. h.len - 1 -> Revision(T)]
      /\ WellFormed(h)
  BY DEF IsHistory
<1>2. /\ g = [len |-> g.len, current |-> g.current, rev |-> g.rev]
      /\ g.len = h.len /\ g.rev = h.rev /\ g.current = r
  BY <1>1 DEF AtRevision
<1> HIDE DEF g
<1>3. \A i \in 0 .. g.len - 1 : Children(g, i) = Children(h, i)
  BY <1>2 DEF Children
<1>4. WellFormed(g)
  <2>1. r \in 0 .. g.len - 1
    BY <1>2 DEF Indices
  <2> QED BY <1>1, <1>2, <1>3, <2>1 DEF WellFormed
<1>5. IsHistory(g, T)
  BY <1>1, <1>2, <1>4 DEF IsHistory
<1> QED BY <1>2, <1>5 DEF g

\* A move goes to some revision and hands out transactions over the texts.
TypedMove(h, m, T) ==
    /\ IsHistory(m.history, T)
    /\ m.history.len = h.len /\ m.history.rev = h.rev
    /\ m.txns \in Seq(Txn(T))

\* Its transactions, replayed on the text of the current revision, are all
\* accepted and give the text of the revision it goes to.
ExactMove(h, m) ==
    /\ Replay(m.txns, h.rev[h.current].post)
         = {Arrival(h.rev[m.history.current].post, Len(m.txns))}
    /\ Len(m.txns) = 0 => m.history.current = h.current

\* No transactions leave a text as it is.
LEMMA ReplayNone ==
    ASSUME NEW T, Garbled \in T, NEW t \in T
    PROVE  Replay(<< >>, t) = {Arrival(t, 0)}
<1> DEFINE w == [i \in 0 .. 0 |-> t]
<1>1. << >> \in Seq(Txn(T)) /\ Len(<< >>) = 0
  OBVIOUS
<1>2. w \in [0 .. 0 -> T] /\ w[0] = t
  OBVIOUS
<1>3. w \in [0 .. Len(<< >>) -> T]
  BY <1>1, <1>2
<1> HIDE DEF w
<1>4. Replay(<< >>, w[0]) = {Arrival(w[Len(<< >>)], Len(<< >>))}
  BY <1>1, <1>3, ReplayExact
<1> QED BY <1>1, <1>2, <1>4

\* One transaction applied to the text it was made for.
LEMMA ReplayOne ==
    ASSUME NEW T, Garbled \in T, NEW x \in Txn(T)
    PROVE  Replay(<<x>>, x.pre) = {Arrival(x.post, 1)}
<1> DEFINE w == [i \in 0 .. 1 |-> IF i = 0 THEN x.pre ELSE x.post]
           s == <<x>>
<1>1. s \in Seq(Txn(T)) /\ Len(s) = 1 /\ s[1] = x
  OBVIOUS
<1>2. x.pre \in T /\ x.post \in T
  BY DEF Txn
<1>3. w \in [0 .. 1 -> T] /\ w[0] = x.pre /\ w[1] = x.post
  BY <1>2
<1> HIDE DEF w, s
<1>4. w \in [0 .. Len(s) -> T]
  BY <1>1, <1>3
<1>5. \A i \in 1 .. Len(s) : s[i].pre = w[i - 1] /\ s[i].post = w[i]
  BY <1>1, <1>3
<1>6. Replay(s, w[0]) = {Arrival(w[Len(s)], Len(s))}
  BY <1>1, <1>4, <1>5, ReplayExact
<1> QED BY <1>1, <1>3, <1>6 DEF s

\* Staying where one is, for undo at the root and redo at a leaf.
LEMMA StayMoves ==
    ASSUME NEW T, Garbled \in T, NEW h, IsHistory(h, T), NEW m,
           m = [history |-> h, txns |-> << >>]
    PROVE  TypedMove(h, m, T) /\ ExactMove(h, m)
<1>1. h.rev[h.current].post \in T
  BY HistoryIsTree DEF TextsIn
<1>2. m.history = h /\ m.txns = << >> /\ Len(m.txns) = 0 /\ m.txns \in Seq(Txn(T))
  OBVIOUS
<1>3. TypedMove(h, m, T)
  BY <1>2 DEF TypedMove
<1>4. ExactMove(h, m)
  BY <1>1, <1>2, ReplayNone DEF ExactMove
<1> QED BY <1>3, <1>4

\* Going to revision r by the one transaction x.
LEMMA OneStepMoves ==
    ASSUME NEW T, Garbled \in T, NEW h, IsHistory(h, T), NEW r \in Indices(h),
           NEW x \in Txn(T), NEW m, m = [history |-> AtRevision(h, r), txns |-> <<x>>]
    PROVE  /\ TypedMove(h, m, T)
           /\ x.pre = h.rev[h.current].post /\ x.post = h.rev[r].post
                => ExactMove(h, m)
<1>1. /\ IsHistory(AtRevision(h, r), T)
      /\ AtRevision(h, r).len = h.len /\ AtRevision(h, r).rev = h.rev /\ AtRevision(h, r).current = r
  BY AtTyped
<1>2. m.history = AtRevision(h, r) /\ m.txns = <<x>> /\ Len(m.txns) = 1 /\ m.txns \in Seq(Txn(T))
  OBVIOUS
<1>3. TypedMove(h, m, T)
  BY <1>1, <1>2 DEF TypedMove
<1>4. Replay(<<x>>, x.pre) = {Arrival(x.post, 1)}
  BY ReplayOne
<1>5. ASSUME x.pre = h.rev[h.current].post, x.post = h.rev[r].post PROVE ExactMove(h, m)
  BY <1>1, <1>2, <1>4, <1>5 DEF ExactMove
<1> QED BY <1>3, <1>5

\* Undo goes one revision up, exactly.
LEMMA UndoMoves ==
    ASSUME NEW T, Garbled \in T, NEW h, IsHistory(h, T)
    PROVE  TypedMove(h, undo(h), T) /\ (Chained(h) => ExactMove(h, undo(h)))
<1> DEFINE r == h.rev[h.current]
           x == Inversion(r)
<1>1. /\ h.len \in Nat \ {0} /\ h.current \in 0 .. h.len - 1
      /\ \A i \in 0 .. h.len - 1 : h.rev[i] \in Revision(T)
      /\ \A i \in 1 .. h.len - 1 : h.rev[i].parent \in 0 .. i - 1
  BY HistoryParts
<1>2. CASE h.current = 0
  BY <1>2, StayMoves DEF undo
<1>3. CASE h.current # 0
  <2>1. r \in Revision(T) /\ r.parent \in Indices(h)
    BY <1>1, <1>3 DEF Indices
  <2>2. x \in Txn(T) /\ x.pre = r.post /\ x.post = r.pre
    BY <2>1 DEF Inversion, Revision, Txn
  <2>3. undo(h) = [history |-> AtRevision(h, r.parent), txns |-> <<x>>]
    BY <1>3 DEF undo, AtRevision
  <2>4. Chained(h) => r.pre = h.rev[r.parent].post
    BY <1>1 DEF Chained
  <2> HIDE DEF r, x
  <2>5. /\ TypedMove(h, undo(h), T)
        /\ x.pre = h.rev[h.current].post /\ x.post = h.rev[r.parent].post
             => ExactMove(h, undo(h))
    BY <2>1, <2>2, <2>3, OneStepMoves
  <2> QED BY <2>2, <2>4, <2>5 DEF r
<1> QED BY <1>2, <1>3

\* Redo goes to the last child, exactly.
LEMMA RedoMoves ==
    ASSUME NEW T, Garbled \in T, NEW h, IsHistory(h, T)
    PROVE  TypedMove(h, redo(h), T) /\ (Chained(h) => ExactMove(h, redo(h)))
<1> DEFINE c == h.rev[h.current].last_child
           x == Transaction(h.rev[c])
<1>1. /\ h.len \in Nat \ {0} /\ h.current \in 0 .. h.len - 1
      /\ \A i \in 0 .. h.len - 1 : h.rev[i] \in Revision(T)
      /\ \A i \in 0 .. h.len - 1 :
            \/ h.rev[i].last_child = None
            \/ /\ h.rev[i].last_child \in i + 1 .. h.len - 1
               /\ h.rev[h.rev[i].last_child].parent = i
  BY HistoryParts
<1>2. CASE c = None
  <2>1. redo(h) = [history |-> h, txns |-> << >>]
    BY <1>2 DEF redo
  <2> QED BY <2>1, StayMoves
<1>3. CASE c # None
  <2>1. c \in Indices(h) /\ c \in 0 .. h.len - 1 /\ h.rev[c].parent = h.current
    BY <1>1, <1>3 DEF Indices
  <2>2. redo(h) = [history |-> AtRevision(h, c), txns |-> <<x>>]
    BY <1>3 DEF redo, AtRevision
  <2> HIDE DEF c
  <2>3. x \in Txn(T) /\ x.pre = h.rev[c].pre /\ x.post = h.rev[c].post
    BY <1>1, <2>1 DEF Transaction, Revision, Txn
  <2>4. Chained(h) => h.rev[c].pre = h.rev[h.current].post
    BY <2>1 DEF Chained
  <2> HIDE DEF x
  <2>5. /\ TypedMove(h, redo(h), T)
        /\ x.pre = h.rev[h.current].post /\ x.post = h.rev[c].post
             => ExactMove(h, redo(h))
    BY <2>1, <2>2, <2>3, OneStepMoves
  <2> QED BY <2>3, <2>4, <2>5
<1> QED BY <1>2, <1>3

\* A jump goes to the revision asked for, exactly, across branches.
LEMMA JumpMoves ==
    ASSUME NEW T, Garbled \in T, NEW h, IsHistory(h, T), NEW r \in Indices(h)
    PROVE  TypedMove(h, jump_to(h, r), T) /\ (Chained(h) => ExactMove(h, jump_to(h, r)))
<1> DEFINE m == jump_to(h, r)
<1>1. IsTree(h) /\ TextsIn(h, T) /\ h.current \in Indices(h)
  BY HistoryIsTree
<1>2. /\ IsHistory(AtRevision(h, r), T)
      /\ AtRevision(h, r).len = h.len /\ AtRevision(h, r).rev = h.rev /\ AtRevision(h, r).current = r
  BY AtTyped
<1>3. m.history = AtRevision(h, r) /\ m.txns = Route(h, h.current, r)
  BY DEF jump_to, AtRevision
<1>4. m.txns \in Seq(Txn(T))
  BY <1>1, <1>3, RouteTyped
<1>5. TypedMove(h, m, T)
  <2> HIDE DEF m
  <2> QED BY <1>2, <1>3, <1>4 DEF TypedMove
<1>6. ASSUME Chained(h) PROVE ExactMove(h, m)
  <2>1. /\ Replay(Route(h, h.current, r), h.rev[h.current].post)
             = {Arrival(h.rev[r].post, Len(Route(h, h.current, r)))}
        /\ Len(Route(h, h.current, r)) = 0 => h.current = r
    BY <1>1, <1>6, RouteExact
  <2> HIDE DEF m
  <2> QED BY <1>2, <1>3, <2>1 DEF ExactMove
<1> QED BY <1>5, <1>6

\* Time travel picks a revision that exists.
LEMMA InstantTyped ==
    ASSUME NEW T, NEW h, IsHistory(h, T), NEW instant \in Int
    PROVE  jump_instant(h, instant) \subseteq Indices(h)
<1> DEFINE Earlier == {i \in 0 .. h.len - 1 : h.rev[i].timestamp < instant}
           ip == Cardinality(Earlier)
<1>1. h.len \in Nat \ {0}
  BY HistoryParts
<1>2. ip \in 0 .. h.len
  <2>1. IsFiniteSet(0 .. h.len - 1) /\ Cardinality(0 .. h.len - 1) = h.len
    <3>1. 0 \in Int /\ h.len - 1 \in Int /\ ~(0 > h.len - 1) /\ (h.len - 1) - 0 + 1 = h.len
      BY <1>1
    <3> DEFINE n == h.len - 1
    <3> HIDE DEF n
    <3>2. n \in Int => /\ IsFiniteSet(0 .. n)
                       /\ Cardinality(0 .. n) = IF 0 > n THEN 0 ELSE n - 0 + 1
      BY <3>1, FS_Interval
    <3> QED BY <3>1, <3>2 DEF n
  <2>2. Earlier \subseteq 0 .. h.len - 1
    OBVIOUS
  <2> HIDE DEF Earlier
  <2>3. IsFiniteSet(Earlier) /\ Cardinality(Earlier) <= h.len
    BY <2>1, <2>2, FS_Subset
  <2>4. Cardinality(Earlier) \in Nat
    BY <2>3, FS_CardinalityType
  <2> QED BY <1>1, <2>3, <2>4
<1> HIDE DEF ip
<1>3. ip # 0 /\ ip # h.len => revision_closer_to_instant(h, ip, instant) \in Indices(h)
  BY <1>1, <1>2 DEF revision_closer_to_instant, Indices
<1> DEFINE exact == {i \in 0 .. h.len - 1 : h.rev[i].timestamp = instant}
           back == \E i \in 1 .. h.len - 1 : h.rev[i].timestamp < h.rev[i - 1].timestamp
<1>4. jump_instant(h, instant)
        = IF back THEN 0 .. h.len - 1
          ELSE IF exact # {} THEN exact
          ELSE IF ip = 0     THEN {0}
          ELSE IF ip = h.len THEN {h.len - 1}
          ELSE {revision_closer_to_instant(h, ip, instant)}
  BY DEF jump_instant, ip
<1>5. exact \subseteq Indices(h) /\ 0 \in Indices(h) /\ h.len - 1 \in Indices(h)
      /\ 0 .. h.len - 1 \subseteq Indices(h)
  BY <1>1 DEF Indices
<1> HIDE DEF exact, back
<1> QED BY <1>3, <1>4, <1>5
-----------------------------------------------------------------------------
(* What a commit does to the revisions that stay. *)

\* RootBefore and Reindexed keep the texts and times they should.
LEMMA KeptFields ==
    ASSUME NEW T, NEW r \in Revision(T), NEW first \in Revision(T), NEW drop \in Nat
    PROVE  /\ RootBefore(r, first).pre = first.pre /\ RootBefore(r, first).post = first.pre
           /\ RootBefore(r, first).timestamp = r.timestamp
           /\ Reindexed(r, drop).pre = r.pre /\ Reindexed(r, drop).post = r.post
           /\ Reindexed(r, drop).timestamp = r.timestamp
           /\ Reindexed(r, drop).parent = SatSub(r.parent, drop)
BY DEF RootBefore, Reindexed, Revision

\* Dropping the oldest revisions shifts the kept ones; the root takes the text
\* the oldest kept one starts from.
LEMMA DropOldestParts ==
    ASSUME NEW T, NEW h, IsHistory(h, T), NEW drop \in Nat,
           drop # 0, drop < h.current, NEW g, g = DropOldest(h, drop)
    PROVE  /\ g.len = h.len - drop /\ g.current = h.current - drop
           /\ g.rev[0].parent = 0 /\ g.rev[0].timestamp = h.rev[0].timestamp
           /\ g.rev[0].pre = h.rev[drop + 1].pre /\ g.rev[0].post = h.rev[drop + 1].pre
           /\ \A i \in 1 .. g.len - 1 :
                 /\ g.rev[i].parent = SatSub(h.rev[i + drop].parent, drop)
                 /\ g.rev[i].pre = h.rev[i + drop].pre
                 /\ g.rev[i].post = h.rev[i + drop].post
                 /\ g.rev[i].timestamp = h.rev[i + drop].timestamp
<1>1. /\ g.len = h.len - drop /\ g.current = h.current - drop
      /\ g.rev = [i \in 0 .. h.len - drop - 1 |->
                    IF i = 0 THEN RootBefore(h.rev[0], h.rev[drop + 1])
                             ELSE Reindexed(h.rev[i + drop], drop)]
  BY DEF DropOldest
<1>2. /\ h.len \in Nat \ {0} /\ h.current \in 0 .. h.len - 1
      /\ \A i \in 0 .. h.len - 1 : h.rev[i] \in Revision(T)
  BY HistoryParts
<1>3. IsHistory(g, T)
  BY DropOldestTyped
<1>4. g.rev[0].parent = 0
  BY <1>3, HistoryParts
<1>5. g.rev[0] = RootBefore(h.rev[0], h.rev[drop + 1])
  BY <1>1, <1>2
<1>6. h.rev[0] \in Revision(T) /\ h.rev[drop + 1] \in Revision(T)
  BY <1>2
<1>7. /\ g.rev[0].timestamp = h.rev[0].timestamp
      /\ g.rev[0].pre = h.rev[drop + 1].pre /\ g.rev[0].post = h.rev[drop + 1].pre
  BY <1>5, <1>6, KeptFields
<1>8. ASSUME NEW i \in 1 .. g.len - 1
      PROVE  /\ g.rev[i].parent = SatSub(h.rev[i + drop].parent, drop)
             /\ g.rev[i].pre = h.rev[i + drop].pre
             /\ g.rev[i].post = h.rev[i + drop].post
             /\ g.rev[i].timestamp = h.rev[i + drop].timestamp
  <2>1. g.rev[i] = Reindexed(h.rev[i + drop], drop)
    BY <1>1, <1>2
  <2>2. h.rev[i + drop] \in Revision(T)
    BY <1>1, <1>2
  <2> QED BY <2>1, <2>2, KeptFields
<1> QED BY <1>1, <1>4, <1>7, <1>8

\* Trimming leaves the history alone or drops some of its oldest revisions,
\* never the current one.
LEMMA TrimDrops ==
    ASSUME NEW T, NEW h, IsHistory(h, T), NEW max \in Nat
    PROVE  \/ trim_to_undo_levels(h, max) = h
           \/ \E drop \in Nat : /\ drop # 0 /\ drop < h.current
                                /\ trim_to_undo_levels(h, max) = DropOldest(h, drop)
<1> DEFINE drop == Least(h.len - 1 - max, SatSub(h.current, 1))
<1>1. h.len \in Nat \ {0} /\ h.current \in 0 .. h.len - 1
  BY HistoryParts
<1>2. trim_to_undo_levels(h, max)
        = IF max = 0 \/ h.len - 1 <= max \/ drop = 0 THEN h ELSE DropOldest(h, drop)
  BY DEF trim_to_undo_levels
<1>3. CASE max = 0 \/ h.len - 1 <= max \/ drop = 0
  BY <1>2, <1>3
<1>4. CASE ~(max = 0 \/ h.len - 1 <= max \/ drop = 0)
  <2>1. drop \in Nat /\ drop # 0 /\ drop < h.current
    BY <1>1, <1>4 DEF Least, SatSub
  <2> HIDE DEF drop
  <2> QED BY <1>2, <1>4, <2>1
<1> QED BY <1>3, <1>4

\* A commit at an unbounded undolevels drops nothing.
LEMMA UnboundedCommit ==
    ASSUME NEW h, NEW x, NEW now
    PROVE  commit_revision(h, x, now, 0) = Pushed(h, x, now)
BY DEF commit_revision, trim_to_undo_levels

\* A commit at undolevels max leaves max revisions, or drops nothing.
LEMMA CommitLength ==
    ASSUME NEW T, NEW h, IsHistory(h, T), NEW x \in Txn(T), NEW now \in Nat,
           NEW max \in Nat
    PROVE  commit_revision(h, x, now, max).len
             = IF max = 0 \/ h.len <= max THEN h.len + 1 ELSE max + 1
<1> DEFINE p == Pushed(h, x, now)
           drop == Least(p.len - 1 - max, SatSub(p.current, 1))
<1>1. h.len \in Nat \ {0} /\ p.len = h.len + 1 /\ p.current = h.len
  BY HistoryParts, PushedParts
<1>2. commit_revision(h, x, now, max)
        = IF max = 0 \/ p.len - 1 <= max \/ drop = 0 THEN p ELSE DropOldest(p, drop)
  BY DEF commit_revision, trim_to_undo_levels
<1> HIDE DEF p
<1>3. CASE max = 0 \/ h.len <= max
  BY <1>1, <1>2, <1>3
<1>4. CASE ~(max = 0 \/ h.len <= max)
  <2>1. drop = h.len - max /\ drop # 0 /\ ~(p.len - 1 <= max)
    BY <1>1, <1>4 DEF Least, SatSub
  <2>2. commit_revision(h, x, now, max).len = p.len - drop
    BY <1>2, <1>4, <2>1 DEF DropOldest
  <2> QED BY <1>1, <1>4, <2>1, <2>2
<1> QED BY <1>3, <1>4

\* So it never leaves more than max.
LEMMA CommitBounded ==
    ASSUME NEW T, NEW h, IsHistory(h, T), NEW x \in Txn(T), NEW now \in Nat,
           NEW max \in Nat, max # 0
    PROVE  commit_revision(h, x, now, max).len - 1 <= max
<1>1. h.len \in Nat
  BY HistoryParts
<1> QED BY <1>1, CommitLength

\* :undojoin changes nothing but the texts and the time of the current revision.
LEMMA MergedParts ==
    ASSUME NEW T, NEW h, IsHistory(h, T), NEW x \in Txn(T), NEW now \in Nat, NEW max \in Nat,
           h.current # 0, NEW g, g = merge_last_revision(h, x, now, max)
    PROVE  /\ g.len = h.len /\ g.current = h.current
           /\ \A i \in 0 .. h.len - 1 : /\ g.rev[i].parent = h.rev[i].parent
                                        /\ g.rev[i].last_child = h.rev[i].last_child
                                        /\ i # h.current => g.rev[i] = h.rev[i]
           /\ h.rev[h.current].post = x.pre =>
                /\ g.rev[h.current].pre = h.rev[h.current].pre
                /\ g.rev[h.current].post = x.post
<1> DEFINE j == Joined(h.rev[h.current], x, now)
<1>1. /\ h = [len |-> h.len, current |-> h.current, rev |-> h.rev]
      /\ h.rev \in [0 .. h.len - 1 -> Revision(T)]
      /\ h.current \in 0 .. h.len - 1
  BY HistoryParts DEF IsHistory
<1>2. /\ j.parent = h.rev[h.current].parent
      /\ j.last_child = h.rev[h.current].last_child
      /\ h.rev[h.current].post = x.pre => /\ j.pre = h.rev[h.current].pre
                                          /\ j.post = x.post
  <2>1. h.rev[h.current] \in Revision(T)
    BY <1>1
  <2> QED BY <2>1, JoinedFields
<1>3. g = [h EXCEPT !.rev = [h.rev EXCEPT ![h.current] = j]]
  BY DEF merge_last_revision
<1> HIDE DEF j
<1>4. g.len = h.len /\ g.current = h.current /\ g.rev = [h.rev EXCEPT ![h.current] = j]
  BY <1>1, <1>3
<1> QED BY <1>1, <1>2, <1>4

\* Joining a change that fits keeps a history exact if nothing hangs below the
\* current revision.
LEMMA MergedChained ==
    ASSUME NEW T, NEW h, IsHistory(h, T), NEW x \in Txn(T), NEW now \in Nat, NEW max \in Nat,
           h.current # 0, Chained(h), x.pre = h.rev[h.current].post,
           Children(h, h.current) = {}, NEW g, g = merge_last_revision(h, x, now, max)
    PROVE  Chained(g) /\ g.rev[g.current].post = x.post
<1>1. /\ g.len = h.len /\ g.current = h.current
      /\ \A i \in 0 .. h.len - 1 : /\ g.rev[i].parent = h.rev[i].parent
                                   /\ i # h.current => g.rev[i] = h.rev[i]
      /\ g.rev[h.current].pre = h.rev[h.current].pre
      /\ g.rev[h.current].post = x.post
  BY MergedParts
<1>2. /\ h.len \in Nat \ {0} /\ h.current \in 0 .. h.len - 1 /\ h.rev[0].parent = 0
      /\ \A i \in 1 .. h.len - 1 : h.rev[i].parent \in 0 .. i - 1
  BY HistoryParts
<1>3. ASSUME NEW i \in 0 .. h.len - 1 PROVE g.rev[i].pre = g.rev[g.rev[i].parent].post
  <2>1. h.rev[i].parent \in 0 .. h.len - 1 /\ h.rev[i].parent # h.current
    BY <1>2 DEF Children
  <2>2. g.rev[i].pre = h.rev[i].pre /\ h.rev[i].pre = h.rev[h.rev[i].parent].post
    BY <1>1 DEF Chained
  <2>3. g.rev[i].parent = h.rev[i].parent /\ g.rev[h.rev[i].parent] = h.rev[h.rev[i].parent]
    BY <1>1, <2>1
  <2> QED BY <2>2, <2>3
<1> QED BY <1>1, <1>3 DEF Chained

-----------------------------------------------------------------------------
(* Redo and branches. *)

\* Redo leads to the branch made last.
NewestBranch(h) ==
    \A i \in 0 .. h.len - 1 :
        LET c == Children(h, i)
        IN  IF c = {} THEN h.rev[i].last_child = None
                      ELSE /\ h.rev[i].last_child \in c
                           /\ \A j \in c : j <= h.rev[i].last_child

\* The root of a new history has no branch.
LEMMA NewHistoryNewestBranch ==
    ASSUME NEW t, NEW now
    PROVE  NewestBranch(NewHistory(t, now))
BY DEF NewestBranch, NewHistory, Children, None

\* A commit makes a branch, the newest one of the current revision.
LEMMA PushedNewestBranch ==
    ASSUME NEW T, NEW h, IsHistory(h, T), NEW x \in Txn(T), NEW now \in Nat, NewestBranch(h)
    PROVE  NewestBranch(Pushed(h, x, now))
<1> DEFINE g == Pushed(h, x, now)
<1>1. /\ g.len = h.len + 1
      /\ \A i \in 0 .. h.len - 1 :
            /\ g.rev[i].parent = h.rev[i].parent
            /\ i # h.current => g.rev[i].last_child = h.rev[i].last_child
      /\ g.rev[h.current].last_child = h.len
      /\ g.rev[h.len].parent = h.current /\ g.rev[h.len].last_child = None
  BY PushedParts
<1> HIDE DEF g
<1>2. /\ h.len \in Nat \ {0} /\ h.current \in 0 .. h.len - 1
      /\ \A i \in 1 .. h.len - 1 : h.rev[i].parent \in 0 .. i - 1
  BY HistoryParts
<1>3. ASSUME NEW i \in 0 .. h.len - 1
      PROVE  Children(g, i) = Children(h, i) \cup {j \in {h.len} : i = h.current}
  BY <1>1, <1>2 DEF Children
<1>4. Children(g, h.len) = {}
  <2>1. ASSUME NEW j \in 1 .. g.len - 1, g.rev[j].parent = h.len PROVE FALSE
    <3>1. CASE j = h.len
      BY <1>1, <1>2, <2>1, <3>1
    <3>2. CASE j # h.len
      <4>1. j \in 1 .. h.len - 1 /\ j \in 0 .. h.len - 1
        BY <1>1, <1>2, <3>2
      <4>2. h.rev[j].parent \in 0 .. j - 1 /\ h.rev[j].parent = h.len
        BY <1>1, <1>2, <2>1, <4>1
      <4> QED BY <1>2, <4>1, <4>2
    <3> QED BY <3>1, <3>2
  <2> QED BY <2>1 DEF Children
<1>5. ASSUME NEW i \in 0 .. g.len - 1
      PROVE  LET c == Children(g, i)
             IN  IF c = {} THEN g.rev[i].last_child = None
                           ELSE /\ g.rev[i].last_child \in c
                                /\ \A j \in c : j <= g.rev[i].last_child
  <2>1. CASE i = h.len
    BY <1>1, <1>4, <2>1
  <2>2. CASE i = h.current
    <3>1. Children(g, i) = Children(h, i) \cup {h.len}
      BY <1>2, <1>3, <2>2
    <3>2. \A j \in Children(h, i) : j <= h.len
      BY <1>2 DEF Children
    <3> QED BY <1>1, <1>2, <2>2, <3>1, <3>2
  <2>3. CASE i # h.len /\ i # h.current
    <3>1. h.len \in Nat /\ g.len = h.len + 1
      BY <1>1, <1>2, Zenon
    <3>2. i \in 0 .. h.len - 1
      BY <2>3, <3>1
    <3>3. g.rev[i].last_child = h.rev[i].last_child
      BY <1>1, <2>3, <3>2, Zenon
    <3>4. Children(g, i) = Children(h, i)
      BY <1>3, <2>3, <3>2
    <3> QED BY <3>2, <3>3, <3>4 DEF NewestBranch
  <2> QED BY <2>1, <2>2, <2>3
<1>6. NewestBranch(g)
  BY <1>5 DEF NewestBranch
<1> QED BY <1>6 DEF g

\* So does a commit merged into the current revision by :undojoin, if at all.
LEMMA MergedNewestBranch ==
    ASSUME NEW T, NEW h, IsHistory(h, T), NEW x \in Txn(T), NEW now \in Nat, NewestBranch(h)
    PROVE  NewestBranch(merge_last_revision(h, x, now, 0))
<1>1. CASE h.current = 0
  BY <1>1, UnboundedCommit, PushedNewestBranch DEF merge_last_revision
<1>2. CASE h.current # 0
  <2> DEFINE g == merge_last_revision(h, x, now, 0)
  <2>1. /\ g.len = h.len
        /\ \A i \in 0 .. h.len - 1 : /\ g.rev[i].parent = h.rev[i].parent
                                     /\ g.rev[i].last_child = h.rev[i].last_child
    BY <1>2, MergedParts
  <2> HIDE DEF g
  <2>2. \A i \in 0 .. h.len - 1 : Children(g, i) = Children(h, i)
    BY <2>1 DEF Children
  <2>3. NewestBranch(g)
    BY <2>1, <2>2 DEF NewestBranch
  <2> QED BY <2>3 DEF g
<1> QED BY <1>1, <1>2
-----------------------------------------------------------------------------
(* Trimming a history without branches. *)

\* When every revision dropped is behind the current one on a single line, the
\* kept ones still start where their parents leave off.
LEMMA DropOldestChained ==
    ASSUME NEW T, NEW h, IsHistory(h, T), Chained(h),
           NEW drop \in Nat, drop # 0, drop < h.current,
           NEW g, g = DropOldest(h, drop), Linear(g)
    PROVE  Chained(g) /\ g.rev[g.current].post = h.rev[h.current].post
<1>1. /\ g.len = h.len - drop /\ g.current = h.current - drop
      /\ g.rev[0].parent = 0 /\ g.rev[0].pre = h.rev[drop + 1].pre
      /\ g.rev[0].post = h.rev[drop + 1].pre
      /\ \A i \in 1 .. g.len - 1 :
            /\ g.rev[i].parent = SatSub(h.rev[i + drop].parent, drop)
            /\ g.rev[i].pre = h.rev[i + drop].pre
            /\ g.rev[i].post = h.rev[i + drop].post
  BY DropOldestParts
<1>2. /\ h.len \in Nat \ {0} /\ h.current \in 0 .. h.len - 1
      /\ \A i \in 1 .. h.len - 1 : h.rev[i].parent \in 0 .. i - 1
  BY HistoryParts
<1>3. g.current \in 1 .. g.len - 1 /\ g.current + drop = h.current
  BY <1>1, <1>2
<1>4. ASSUME NEW i \in 0 .. g.len - 1 PROVE g.rev[i].pre = g.rev[g.rev[i].parent].post
  <2>1. CASE i = 0
    BY <1>1, <2>1
  <2>2. CASE i = 1
    <3>1. g.rev[i].parent = 0
      BY <1>1, <1>2, <2>2 DEF Linear
    <3> QED BY <1>1, <2>2, <3>1
  <2>3. CASE i # 0 /\ i # 1
    <3>1. /\ i \in 1 .. g.len - 1 /\ i - 1 \in 1 .. g.len - 1
          /\ i + drop \in 1 .. h.len - 1 /\ i + drop \in 0 .. h.len - 1
          /\ (i - 1) + drop = i + drop - 1
      BY <1>1, <1>2, <2>3
    <3>2. g.rev[i].parent = i - 1 /\ g.rev[i].parent = SatSub(h.rev[i + drop].parent, drop)
      BY <1>1, <3>1 DEF Linear
    <3>3. h.rev[i + drop].parent \in Nat
      BY <1>2, <3>1
    <3>4. h.rev[i + drop].parent = i + drop - 1
      BY <3>1, <3>2, <3>3 DEF SatSub
    <3>5. h.rev[i + drop].pre = h.rev[i + drop - 1].post
      BY <3>1, <3>4 DEF Chained
    <3>6. g.rev[i].pre = h.rev[i + drop].pre /\ g.rev[i - 1].post = h.rev[(i - 1) + drop].post
      BY <1>1, <3>1
    <3> QED BY <3>1, <3>2, <3>5, <3>6
  <2> QED BY <2>1, <2>2, <2>3
<1> QED BY <1>1, <1>3, <1>4 DEF Chained

-----------------------------------------------------------------------------
(* Time travel. *)

\* Revisions are in the order of their commits, none of them after now.
Ordered(h, now) ==
    /\ \A i, j \in 0 .. h.len - 1 : i <= j => h.rev[i].timestamp <= h.rev[j].timestamp
    /\ \A i \in 0 .. h.len - 1 : h.rev[i].timestamp <= now

\* A commit is stamped with the present, and no other stamp changes.
LEMMA PushedTimes ==
    ASSUME NEW T, NEW h, IsHistory(h, T), NEW x \in Txn(T), NEW now \in Nat,
           NEW g, g = Pushed(h, x, now)
    PROVE  /\ g.rev[h.len].timestamp = now
           /\ \A i \in 0 .. h.len - 1 : g.rev[i].timestamp = h.rev[i].timestamp
<1> DEFINE new == [parent |-> h.current, last_child |-> None,
                   pre |-> x.pre, post |-> x.post, timestamp |-> now]
<1>1. /\ h.len \in Nat \ {0} /\ h.current \in 0 .. h.len - 1
      /\ \A i \in 0 .. h.len - 1 : h.rev[i] \in Revision(T)
  BY HistoryParts
<1>2. g.rev = [i \in 0 .. h.len |->
                    IF i = h.len THEN new
                    ELSE IF i = h.current THEN WithChild(h.rev[i], h.len) ELSE h.rev[i]]
  BY DEF Pushed
<1>3. new.timestamp = now
  OBVIOUS
<1>4. ASSUME NEW r \in Revision(T), NEW c \in Nat
      PROVE  WithChild(r, c).timestamp = r.timestamp
  BY DEF WithChild, Revision
<1> HIDE DEF new
<1>5. g.rev[h.len] = new
  BY <1>1, <1>2
<1>6. ASSUME NEW i \in 0 .. h.len - 1 PROVE g.rev[i].timestamp = h.rev[i].timestamp
  <2>1. g.rev[i] = IF i = h.current THEN WithChild(h.rev[i], h.len) ELSE h.rev[i]
    BY <1>1, <1>2
  <2> QED BY <1>1, <1>4, <2>1
<1> QED BY <1>3, <1>5, <1>6

\* Commits keep the order of time, also when undolevels drops the oldest ones.
LEMMA CommitOrdered ==
    ASSUME NEW T, NEW h, IsHistory(h, T), NEW x \in Txn(T), NEW now \in Nat,
           NEW max \in Nat, Ordered(h, now)
    PROVE  Ordered(commit_revision(h, x, now, max), now)
<1> DEFINE p == Pushed(h, x, now)
           c == commit_revision(h, x, now, max)
<1>1. /\ IsHistory(p, T) /\ p.len = h.len + 1 /\ h.len \in Nat \ {0}
      /\ p.rev[h.len].timestamp = now
      /\ \A i \in 0 .. h.len - 1 : p.rev[i].timestamp = h.rev[i].timestamp
  <2>1. IsHistory(p, T) /\ h.len \in Nat \ {0}
    BY HistoryParts, PushedTyped
  <2>2. p.len = h.len + 1
    BY PushedParts
  <2>3. /\ p.rev[h.len].timestamp = now
        /\ \A i \in 0 .. h.len - 1 : p.rev[i].timestamp = h.rev[i].timestamp
    BY PushedTimes
  <2> QED BY <2>1, <2>2, <2>3
<1>2. c = p \/ \E drop \in Nat : /\ drop # 0 /\ drop < p.current /\ c = DropOldest(p, drop)
  BY <1>1, TrimDrops DEF commit_revision
<1> HIDE DEF p, c
<1>3. Ordered(p, now)
  <2>1. \A i \in 0 .. p.len - 1 : i \in 0 .. h.len - 1 \/ i = h.len
    BY <1>1
  <2>2. \A i \in 0 .. p.len - 1 : p.rev[i].timestamp <= now
    BY <1>1, <2>1 DEF Ordered
  <2>3. ASSUME NEW i \in 0 .. p.len - 1, NEW j \in 0 .. p.len - 1, i <= j
        PROVE  p.rev[i].timestamp <= p.rev[j].timestamp
    <3>1. CASE j = h.len
      BY <1>1, <2>2, <3>1
    <3>2. CASE j # h.len
      <4>1. i \in 0 .. h.len - 1 /\ j \in 0 .. h.len - 1
        BY <1>1, <2>3, <3>2
      <4> QED BY <1>1, <2>3, <4>1 DEF Ordered
    <3> QED BY <3>1, <3>2
  <2> QED BY <2>2, <2>3 DEF Ordered
<1>4. ASSUME NEW drop \in Nat, drop # 0, drop < p.current, c = DropOldest(p, drop)
      PROVE  Ordered(c, now)
  <2>1. /\ c.len = p.len - drop
        /\ c.rev[0].timestamp = p.rev[0].timestamp
        /\ \A i \in 1 .. c.len - 1 : c.rev[i].timestamp = p.rev[i + drop].timestamp
    BY <1>1, <1>4, DropOldestParts
  <2>2. p.len \in Nat /\ p.current \in 0 .. p.len - 1
    BY <1>1, HistoryParts
  <2> DEFINE was(i) == IF i = 0 THEN 0 ELSE i + drop
  <2>3. ASSUME NEW i \in 0 .. c.len - 1
        PROVE  was(i) \in 0 .. p.len - 1 /\ c.rev[i].timestamp = p.rev[was(i)].timestamp
    <3>1. CASE i = 0
      BY <2>1, <2>2, <3>1
    <3>2. CASE i # 0
      BY <2>1, <2>2, <3>2
    <3> QED BY <3>1, <3>2
  <2>4. \A i, j \in 0 .. c.len - 1 : i <= j => was(i) <= was(j)
    OBVIOUS
  <2> HIDE DEF was
  <2> QED BY <1>3, <2>3, <2>4 DEF Ordered
<1>5. Ordered(c, now)
  BY <1>2, <1>3, <1>4
<1> QED BY <1>5 DEF c

\* In a history in the order of time, the revisions from before an instant are
\* the first ones.
LEMMA EarlierAreFirst ==
    ASSUME NEW T, NEW h, IsHistory(h, T), NEW now, Ordered(h, now), NEW instant \in Int,
           NEW E, E = {i \in 0 .. h.len - 1 : h.rev[i].timestamp < instant}
    PROVE  /\ Cardinality(E) \in 0 .. h.len
           /\ \A i \in 0 .. h.len - 1 : h.rev[i].timestamp < instant <=> i < Cardinality(E)
<1>1. /\ h.len \in Nat \ {0}
      /\ \A i \in 0 .. h.len - 1 : h.rev[i].timestamp \in Nat
  BY HistoryParts DEF Revision
<1>2. PICK m \in 0 .. h.len : /\ m = h.len \/ m \notin E
                              /\ \A i \in 0 .. m - 1 : i \in E
  <2> DEFINE S == {i \in 0 .. h.len : i = h.len \/ i \notin E}
  <2>1. h.len \in S
    BY <1>1
  <2>2. S \in SUBSET (0 .. h.len)
    OBVIOUS
  <2>3. PICK k \in 0 .. h.len : k \in S /\ \A j \in 0 .. k - 1 : j \notin S
    <3> HIDE DEF S
    <3> QED BY <1>1, <2>1, <2>2, LeastIndex
  <2>4. \A i \in 0 .. k - 1 : i \in E
    BY <1>1, <2>3
  <2> QED BY <2>3, <2>4
<1>3. ASSUME NEW i \in 0 .. h.len - 1, i >= m PROVE i \notin E
  <2>1. m \in 0 .. h.len - 1 /\ m \notin E
    BY <1>1, <1>2, <1>3
  <2>2. h.rev[m].timestamp <= h.rev[i].timestamp
    BY <1>3, <2>1 DEF Ordered
  <2>3. ~(h.rev[m].timestamp < instant)
    BY <2>1
  <2> QED BY <1>1, <2>1, <2>2, <2>3
<1>4. E = 0 .. m - 1
  BY <1>1, <1>2, <1>3
<1>5. Cardinality(E) = m
  <2> DEFINE n == m - 1
  <2>1. n \in Int /\ 0 \in Int /\ E = 0 .. n
    BY <1>1, <1>4
  <2>2. Cardinality(0 .. n) = IF 0 > n THEN 0 ELSE n - 0 + 1
    <3> HIDE DEF n
    <3> QED BY <2>1, FS_Interval
  <2>3. Cardinality(E) = Cardinality(0 .. n)
    BY <2>1, Zenon
  <2>4. Cardinality(0 .. n) = m
    BY <1>1, <2>1, <2>2
  <2> QED BY <2>3, <2>4
<1>6. \A i \in 0 .. h.len - 1 : i \in E <=> i < m
  BY <1>1, <1>4
<1>7. \A i \in 0 .. h.len - 1 : i \in E <=> h.rev[i].timestamp < instant
  OBVIOUS
<1> QED BY <1>5, <1>6, <1>7
=============================================================================
