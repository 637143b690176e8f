--------------------------- MODULE DataInduction ---------------------------
(***************************************************************************)
(* Induction over numbers and sequences, stated with sets where the        *)
(* library's theorems take a predicate as a parameter, and the existence   *)
(* of what a loop computes.  The recursive functions of the models are     *)
(* loops in this sense: f[n] is the loop's variable after n rounds.        *)
(***************************************************************************)
EXTENDS Integers, Sequences, WellFoundedInduction, TLAPS

\* A set of natural numbers that is not empty has a least element.
LEMMA Least ==
    ASSUME NEW T \in SUBSET Nat, T # {}
    PROVE  \E n \in T : \A m \in T : n <= m
<1> DEFINE R == OpToRel(<, Nat)
<1>1. IsWellFoundedOn(R, Nat)
  BY NatLessThanWellFounded, Zenon
<1>2. \A m, n \in Nat : <<m, n>> \in R <=> m < n
  BY DEF OpToRel
<1> HIDE DEF R
<1>3. PICK n \in T : \A m \in T : ~(<<m, n>> \in R)
  BY <1>1, WFMin, Zenon
<1>4. \A m \in T : ~(m < n)
  BY <1>2, <1>3
<1>5. \A m \in T : n <= m
  BY <1>4
<1>6. QED
  BY <1>5

\* Induction over the natural numbers, told with a set instead of a predicate.
LEMMA SetInduction ==
    ASSUME NEW T, 0 \in T, \A n \in Nat : n \in T => n + 1 \in T
    PROVE  \A n \in Nat : n \in T
<1> SUFFICES ASSUME \E n \in Nat : n \notin T PROVE FALSE
  OBVIOUS
<1> DEFINE M == {n \in Nat : n \notin T}
<1>1. M \in SUBSET Nat /\ M # {}
  OBVIOUS
<1> HIDE DEF M
<1>2. PICK n \in M : \A m \in M : n <= m
  BY <1>1, Least
<1>3. n \in Nat /\ n \notin T /\ n # 0
  BY <1>2 DEF M
<1>4. n - 1 \in Nat /\ n - 1 \notin M
  BY <1>2, <1>3
<1>5. n - 1 \in T
  BY <1>4 DEF M
<1>6. (n - 1) + 1 \in T
  BY <1>4, <1>5
<1>7. QED
  BY <1>3, <1>6

\* Induction up to a bound.
LEMMA BoundedInduction ==
    ASSUME NEW N \in Nat, NEW T, 0 \in T, \A n \in 1..N : n - 1 \in T => n \in T
    PROVE  \A n \in 0..N : n \in T
<1> DEFINE U == {n \in Nat : n <= N => n \in T}
<1>1. 0 \in U
  OBVIOUS
<1>2. ASSUME NEW n \in Nat, n \in U PROVE n + 1 \in U
  <2>1. CASE n + 1 <= N
    <3>1. n \in T /\ n + 1 \in 1..N /\ (n + 1) - 1 = n
      BY <1>2, <2>1
    <3>2. QED
      BY <3>1
  <2>2. CASE ~(n + 1 <= N)
    BY <2>2
  <2>3. QED
    BY <2>1, <2>2
<1> HIDE DEF U
<1>3. \A n \in Nat : n \in U
  BY <1>1, <1>2, SetInduction
<1>4. QED
  BY <1>3 DEF U

\* A loop of N steps over values of S, from a: what its variable is after each step.
IsTrace(g, S, a, N, step) ==
    /\ g \in [0..N -> S]
    /\ g[0] = a
    /\ \A n \in 1..N : g[n] = step[n][g[n - 1]]

\* A loop of N steps, the n-th of which takes v to step[n][v], has a trace: what its variable is
\* after each step.
LEMMA TraceExists ==
    ASSUME NEW S, NEW a \in S, NEW N \in Nat, NEW step \in [1..N -> [S -> S]]
    PROVE  \E g : IsTrace(g, S, a, N, step)
<1> DEFINE Is(g, m) == g[0] = a /\ \A n \in 1..m : g[n] = step[n][g[n - 1]]
           T == {m \in 0..N : \E g \in [0..m -> S] : Is(g, m)}
<1> HIDE DEF T, Is
<1>1. 0 \in T
  <2> DEFINE g == [n \in 0..0 |-> a]
  <2>1. g \in [0..0 -> S] /\ g[0] = a
    OBVIOUS
  <2> HIDE DEF g
  <2>2. Is(g, 0)
    BY <2>1 DEF Is
  <2>3. QED
    BY <2>1, <2>2 DEF T
<1>2. ASSUME NEW m \in 1..N, m - 1 \in T PROVE m \in T
  <2>1. PICK g \in [0..m - 1 -> S] : Is(g, m - 1)
    BY <1>2 DEF T
  <2>2. m - 1 \in 0..m - 1 /\ g[m - 1] \in S
    OBVIOUS
  <2>3. step[m][g[m - 1]] \in S
    BY <2>2
  <2> DEFINE h == [n \in 0..m |-> IF n = m THEN step[m][g[m - 1]] ELSE g[n]]
  <2>4. \A n \in 0..m : h[n] \in S
    BY <2>3
  <2>5. h[m] = step[m][g[m - 1]] /\ \A n \in 0..m - 1 : h[n] = g[n]
    OBVIOUS
  <2>6. h \in [0..m -> S]
    BY <2>4
  <2> HIDE DEF h
  <2>7. \A n \in 1..m : h[n] = step[n][h[n - 1]]
    <3> TAKE n \in 1..m
    <3>1. CASE n = m
      BY <3>1, <2>2, <2>5
    <3>2. CASE n # m
      <4>1. n \in 1..m - 1 /\ n \in 0..m - 1 /\ n - 1 \in 0..m - 1
        BY <3>2
      <4>2. QED
        BY <4>1, <2>1, <2>5 DEF Is
    <3>3. QED
      BY <3>1, <3>2
  <2>8. h[0] = a
    BY <2>1, <2>5 DEF Is
  <2>9. Is(h, m)
    BY <2>7, <2>8 DEF Is
  <2>10. QED
    BY <2>6, <2>9 DEF T
<1>3. \A m \in 0..N : m \in T
  BY <1>1, <1>2, BoundedInduction, Zenon
<1>4. N \in T
  BY <1>3
<1>5. QED
  BY <1>4 DEF T, Is, IsTrace

\* Two traces that start alike and go on alike.
SameSteps(f, g, N) == f[0] = g[0] /\ \A n \in 1..N : f[n - 1] = g[n - 1] => f[n] = g[n]

\* What a loop's trace is depends on its start and its steps only.
LEMMA TraceUnique ==
    ASSUME NEW N \in Nat, NEW f, NEW g, SameSteps(f, g, N)
    PROVE  \A n \in 0..N : f[n] = g[n]
<1> DEFINE T == {n \in 0..N : f[n] = g[n]}
<1>1. 0 \in T
  BY DEF SameSteps
<1>2. \A n \in 1..N : n - 1 \in T => n \in T
  BY DEF SameSteps
<1> HIDE DEF T
<1>3. \A n \in 0..N : n \in T
  BY <1>1, <1>2, BoundedInduction, Zenon
<1>4. QED
  BY <1>3 DEF T

\* Induction over sequences: from the empty one, by adding an element at the end.
LEMMA SequenceInduction ==
    ASSUME NEW S, NEW T, <<>> \in T,
           \A s \in Seq(S) : \A e \in S : s \in T => Append(s, e) \in T
    PROVE  \A s \in Seq(S) : s \in T
<1> DEFINE L == {n \in Nat : \A s \in Seq(S) : Len(s) = n => s \in T}
<1>1. 0 \in L
  BY DEF L
<1>2. ASSUME NEW n \in Nat, n \in L PROVE n + 1 \in L
  <2>1. ASSUME NEW s \in Seq(S), Len(s) = n + 1 PROVE s \in T
    <3> DEFINE r == SubSeq(s, 1, n)
               e == s[n + 1]
    <3>1. r \in Seq(S) /\ Len(r) = n /\ e \in S
      BY <2>1
    <3>2. s = Append(r, e)
      BY <2>1
    <3>3. r \in T
      BY <1>2, <3>1
    <3> HIDE DEF r, e
    <3>4. QED
      BY <3>1, <3>2, <3>3
  <2>2. QED
    BY <2>1
<1> HIDE DEF L
<1>3. \A n \in Nat : n \in L
  BY <1>1, <1>2, SetInduction
<1>4. QED
  BY <1>3 DEF L
=============================================================================
