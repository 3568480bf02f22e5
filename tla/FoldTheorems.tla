---------------------------- MODULE FoldTheorems ----------------------------
(***************************************************************************)
(* What FoldLeft computes, for any operation: the two equations by which a *)
(* loop over a list builds its result.  FoldLeft is a recursive function   *)
(* on the subsets of the positions; that there is such a function, and     *)
(* that it does not matter of which sequence a prefix is the prefix, is    *)
(* proved here by induction on the length.                                 *)
(*                                                                         *)
(* A proof about a loop instantiates this module with the loop's body.     *)
(***************************************************************************)
EXTENDS SequencesExt, FiniteSetTheorems, SequenceTheorems, TLAPS

CONSTANTS Op(_, _),  \* one turn of the loop
          Base       \* what it begins with

\* A set of numbers has a least element: the strict subset ordering of the
\* intervals that end in it is well-founded.
LEMMA LeastMember ==
    ASSUME NEW I \in SUBSET Nat, I # {}
    PROVE  \E m \in I : \A k \in I : m <= k
  <1> DEFINE T == {0 .. k : k \in I}
             R == StrictSubsetOrdering(Nat)
  <1>1. T # {} /\ T \subseteq FiniteSubsetsOf(Nat)
    <2>1. ASSUME NEW k \in I PROVE 0 .. k \in FiniteSubsetsOf(Nat)
      <3>1. IsFiniteSet(0 .. k)
        BY FS_Interval
      <3> QED
        BY <3>1 DEF FiniteSubsetsOf
    <2> QED
      BY <2>1
  <1>2. PICK x \in T : \A y \in T : <<y, x>> \notin R
    <2> HIDE DEF T, R
    <2>1. IsWellFoundedOn(R, FiniteSubsetsOf(Nat))
      BY FS_StrictSubsetOrderingWellFounded DEF R
    <2> QED
      BY <1>1, <2>1, WFMin
  <1>3. PICK m \in I : x = 0 .. m
    OBVIOUS
  <1>4. ASSUME NEW k \in I PROVE m <= k
    <2>1. <<0 .. k, 0 .. m>> \notin R
      BY <1>2, <1>3
    <2>2. 0 .. k \in SUBSET Nat /\ 0 .. m \in SUBSET Nat
      OBVIOUS
    <2>3. ~(0 .. k \subseteq 0 .. m /\ 0 .. k # 0 .. m)
      BY <2>1, <2>2 DEF StrictSubsetOrdering
    <2>4. k < m => 0 .. k \subseteq 0 .. m /\ m \notin 0 .. k /\ m \in 0 .. m
      OBVIOUS
    <2> QED
      BY <2>3, <2>4
  <1> QED
    BY <1>4

\* Induction, for a set of numbers instead of a predicate.
LEMMA SetInduction ==
    ASSUME NEW I \in SUBSET Nat, 0 \in I, \A n \in I : n + 1 \in I
    PROVE  I = Nat
  <1> SUFFICES ASSUME I # Nat PROVE FALSE
    OBVIOUS
  <1>1. PICK m \in Nat \ I : \A k \in Nat \ I : m <= k
    <2>1. Nat \ I \in SUBSET Nat /\ Nat \ I # {}
      OBVIOUS
    <2> QED
      BY <2>1, LeastMember
  <1>2. m # 0 /\ m - 1 \in Nat
    OBVIOUS
  <1>3. m - 1 \in I
    BY <1>1, <1>2
  <1>4. (m - 1) + 1 = m
    OBVIOUS
  <1> QED
    BY <1>3, <1>4

----------------------------------------------------------------------------
\* The equation of FoldLeft's recursive function, for the positions 1..n of s.
Turn(s, f, S) == IF S = {} THEN Base ELSE Op(f[S \ {Max(S)}], s[Max(S)])

Folds(s, n, f) == f = [S \in SUBSET (1 .. n) |-> Turn(s, f, S)]

LEMMA MaxIsMember ==
    ASSUME NEW n \in Nat, NEW S \in SUBSET (1 .. n), S # {}
    PROVE  Max(S) \in S /\ \A k \in S : k <= Max(S)
  <1> DEFINE I == {n - k : k \in S}
  <1>a. \A k \in S : k \in Nat /\ k <= n
    OBVIOUS
  <1>1. I \in SUBSET Nat /\ I # {}
    <2>1. \A k \in S : n - k \in Nat
      BY <1>a
    <2> QED
      BY <2>1
  <1>2. PICK m \in I : \A j \in I : m <= j
    <2> HIDE DEF I
    <2> QED
      BY <1>1, LeastMember
  <1>3. PICK k \in S : m = n - k
    BY <1>2
  <1>4. ASSUME NEW j \in S PROVE k >= j
    <2>1. n - j \in I
      OBVIOUS
    <2> HIDE DEF I
    <2>2. n - k <= n - j
      BY <1>2, <1>3, <2>1
    <2> QED
      BY <1>a, <2>2
  <1> QED
    BY <1>4 DEF Max

LEMMA MaxOfInterval ==
    ASSUME NEW n \in Nat
    PROVE  /\ Max(1 .. n + 1) = n + 1 /\ (1 .. n + 1) \ {n + 1} = 1 .. n
           /\ 1 .. n + 1 \in SUBSET (1 .. n + 1) /\ 1 .. n + 1 # {}
  <1>1. n + 1 \in 1 .. n + 1 /\ \A k \in 1 .. n + 1 : n + 1 >= k
    OBVIOUS
  <1>2. n + 1 \in Nat /\ 1 .. n + 1 \in SUBSET (1 .. n + 1) /\ 1 .. n + 1 # {}
    BY <1>1
  <1>3. Max(1 .. n + 1) \in 1 .. n + 1 /\ \A k \in 1 .. n + 1 : k <= Max(1 .. n + 1)
    BY <1>2, MaxIsMember
  <1>4. Max(1 .. n + 1) = n + 1
    <2> DEFINE m == Max(1 .. n + 1)
    <2>1. m \in 1 .. n + 1 /\ n + 1 <= m
      BY <1>1, <1>3
    <2> HIDE DEF m
    <2>2. m = n + 1
      BY <2>1
    <2> QED
      BY <2>2 DEF m
  <1> QED
    BY <1>2, <1>4

\* There is such a function: one for n + 1 positions is built from one for n.
LEMMA FoldExists ==
    ASSUME NEW s, NEW n \in Nat
    PROVE  \E f : Folds(s, n, f)
  <1> DEFINE I == {k \in Nat : \E f : Folds(s, k, f)}
  <1>1. 0 \in I
    <2> DEFINE f == [S \in SUBSET (1 .. 0) |-> Base]
    <2>1. \A S \in SUBSET (1 .. 0) : S = {}
      OBVIOUS
    <2>2. Folds(s, 0, f)
      BY <2>1 DEF Folds, Turn
    <2> QED
      BY <2>2
  <1>2. ASSUME NEW k \in I PROVE k + 1 \in I
    <2>1. PICK f : Folds(s, k, f)
      OBVIOUS
    <2> DEFINE g == [S \in SUBSET (1 .. k + 1) |->
                       IF k + 1 \in S THEN Op(f[S \ {k + 1}], s[k + 1]) ELSE f[S]]
    <2>2. k \in Nat
      OBVIOUS
    <2>3. ASSUME NEW S \in SUBSET (1 .. k + 1) PROVE g[S] = Turn(s, g, S)
      <3>1. CASE k + 1 \in S
        <4>1. Max(S) = k + 1
          <5> DEFINE m == Max(S)
          <5>1. k + 1 \in Nat /\ S # {}
            BY <2>2, <3>1
          <5>2. m \in S /\ \A j \in S : j <= m
            BY <5>1, MaxIsMember
          <5>3. m \in 1 .. k + 1 /\ k + 1 <= m
            BY <3>1, <5>2
          <5> HIDE DEF m
          <5>4. m = k + 1
            BY <2>2, <5>3
          <5> QED
            BY <5>4 DEF m
        <4>2. S \ {k + 1} \in SUBSET (1 .. k + 1) /\ k + 1 \notin S \ {k + 1} /\ S # {}
          BY <3>1
        <4>3. g[S \ {k + 1}] = f[S \ {k + 1}]
          BY <4>2
        <4>4. g[S] = Op(f[S \ {k + 1}], s[k + 1])
          BY <3>1
        <4> QED
          BY <4>1, <4>2, <4>3, <4>4 DEF Turn
      <3>2. CASE k + 1 \notin S
        <4>1. S \in SUBSET (1 .. k)
          BY <2>2, <3>2
        <4>2. g[S] = f[S]
          BY <3>2
        <4>3. f[S] = Turn(s, f, S)
          BY <2>1, <4>1 DEF Folds
        <4>4. S # {} => g[S \ {Max(S)}] = f[S \ {Max(S)}]
          BY <3>2
        <4> QED
          BY <4>2, <4>3, <4>4 DEF Turn
      <3> QED
        BY <3>1, <3>2
    <2>4. Folds(s, k + 1, g)
      <3>1. g = [S \in SUBSET (1 .. k + 1) |-> g[S]]
        OBVIOUS
      <3> HIDE DEF g
      <3> QED
        BY <2>3, <3>1 DEF Folds
    <2> QED
      BY <2>2, <2>4
  <1> HIDE DEF I
  <1>3. I = Nat
    <2>1. I \in SUBSET Nat
      BY DEF I
    <2> QED
      BY <1>1, <1>2, <2>1, SetInduction
  <1> QED
    BY <1>3 DEF I

\* Its equation for a set that has a largest position.
LEMMA LargestLast ==
    ASSUME NEW s, NEW n \in Nat, NEW f, Folds(s, n, f),
           NEW S \in SUBSET (1 .. n), S # {}, NEW m, NEW T, Max(S) = m, S \ {m} = T
    PROVE  f[S] = Op(f[T], s[m])
  <1>1. f[S] = Turn(s, f, S)
    BY DEF Folds
  <1> QED
    BY <1>1 DEF Turn

\* What a function of that kind is on a prefix depends on the prefix only.
LEMMA FoldOnPrefix ==
    ASSUME NEW s, NEW t, NEW m \in Nat, NEW n \in Nat, NEW f, NEW g,
           Folds(s, m, f), Folds(t, n, g),
           NEW l \in Nat, l <= m, l <= n, \A i \in 1 .. l : s[i] = t[i]
    PROVE  f[1 .. l] = g[1 .. l]
  <1> DEFINE I == {k \in Nat : k <= l => f[1 .. k] = g[1 .. k]}
  <1>1. 0 \in I
    <2>1. 1 .. 0 = {} /\ {} \in SUBSET (1 .. m) /\ {} \in SUBSET (1 .. n)
      OBVIOUS
    <2>2. f[{}] = Base /\ g[{}] = Base
      BY <2>1 DEF Folds, Turn
    <2> QED
      BY <2>1, <2>2
  <1>2. ASSUME NEW k \in I PROVE k + 1 \in I
    <2>1. k \in Nat
      OBVIOUS
    <2>2. SUFFICES ASSUME k + 1 <= l PROVE f[1 .. k + 1] = g[1 .. k + 1]
      BY <2>1
    <2> DEFINE P == 1 .. k + 1
    <2>3. P \in SUBSET (1 .. m) /\ P \in SUBSET (1 .. n) /\ P # {}
      BY <2>1, <2>2
    <2>4. Max(P) = k + 1 /\ P \ {k + 1} = 1 .. k
      BY <2>1, MaxOfInterval
    <2>5. f[1 .. k] = g[1 .. k] /\ s[k + 1] = t[k + 1]
      BY <2>1, <2>2
    <2> HIDE DEF P
    <2>6. f[P] = Op(f[1 .. k], s[k + 1])
      BY <2>3, <2>4, LargestLast
    <2>7. g[P] = Op(g[1 .. k], t[k + 1])
      BY <2>3, <2>4, LargestLast
    <2> QED
      BY <2>5, <2>6, <2>7 DEF P
  <1> HIDE DEF I
  <1>3. I = Nat
    <2>1. I \in SUBSET Nat
      BY DEF I
    <2> QED
      BY <1>1, <1>2, <2>1, SetInduction
  <1> QED
    BY <1>3 DEF I

\* FoldLeft is the value of such a function.
LEMMA FoldLeftFolds ==
    ASSUME NEW s, NEW n \in Nat, DOMAIN s = 1 .. n
    PROVE  \E f : Folds(s, n, f) /\ FoldLeft(Op, Base, s) = f[1 .. n]
  <1> DEFINE F == CHOOSE f : Folds(s, n, f)
  <1>1. Folds(s, n, F)
    BY FoldExists
  <1>2. FoldLeft(Op, Base, s) = F[1 .. n]
    BY DEF FoldLeft, MapThenFoldSet, Folds, Turn
  <1> QED
    BY <1>1, <1>2

\* A loop that is not entered.
THEOREM FoldNothing == FoldLeft(Op, Base, <<>>) = Base
  <1>1. DOMAIN <<>> = 1 .. 0
    OBVIOUS
  <1>2. PICK f : Folds(<<>>, 0, f) /\ FoldLeft(Op, Base, <<>>) = f[1 .. 0]
    BY <1>1, FoldLeftFolds
  <1>3. 1 .. 0 = {}
    OBVIOUS
  <1> QED
    BY <1>2, <1>3 DEF Folds, Turn

\* The last turn of the loop: it takes what the turns before have made.
THEOREM FoldOneMore ==
    ASSUME NEW s, NEW t, NEW n \in Nat, DOMAIN s = 1 .. n, DOMAIN t = 1 .. n + 1,
           \A i \in 1 .. n : t[i] = s[i]
    PROVE  FoldLeft(Op, Base, t) = Op(FoldLeft(Op, Base, s), t[n + 1])
  <1>1. PICK f : Folds(s, n, f) /\ FoldLeft(Op, Base, s) = f[1 .. n]
    BY FoldLeftFolds
  <1>2. PICK g : Folds(t, n + 1, g) /\ FoldLeft(Op, Base, t) = g[1 .. n + 1]
    BY FoldLeftFolds
  <1>3. g[1 .. n] = f[1 .. n]
    BY <1>1, <1>2, FoldOnPrefix
  <1>4. g[1 .. n + 1] = Op(g[1 .. n], t[n + 1])
    <2> DEFINE P == 1 .. n + 1
    <2>1. P \in SUBSET (1 .. n + 1) /\ P # {} /\ Max(P) = n + 1 /\ P \ {n + 1} = 1 .. n
      BY MaxOfInterval
    <2>2. n + 1 \in Nat
      OBVIOUS
    <2> HIDE DEF P
    <2>3. g[P] = Op(g[1 .. n], t[n + 1])
      BY <1>2, <2>1, <2>2, LargestLast DEF P
    <2> QED
      BY <2>3 DEF P
  <1> QED
    BY <1>1, <1>2, <1>3, <1>4
=============================================================================
