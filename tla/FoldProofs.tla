------------------------------ MODULE FoldProofs ------------------------------
(***************************************************************************)
(* What a fold over a sequence comes to.  FoldLeft is a recursive function  *)
(* over sets of indices: that it exists, and what holds of its value for a  *)
(* sequence of any length, is shown from the least length at which it       *)
(* would fail.                                                              *)
(***************************************************************************)
EXTENDS Integers, Sequences, SequencesExt, WellFoundedInduction, TLAPS

LEMMA LeastOf == ASSUME NEW T, T \subseteq Nat, T # {} PROVE \E x \in T : \A y \in T : x <= y
<1> DEFINE R == {ss \in Nat \X Nat : ss[1] < ss[2]}
<1>1. IsWellFoundedOn(R, Nat)
  BY NatLessThanWellFounded DEF OpToRel
<1>2. \A x, y \in Nat : x < y => <<x, y>> \in R
  OBVIOUS
<1> HIDE DEF R
<1>3. PICK x \in T : \A y \in T : ~ (<<y, x>> \in R)
  BY <1>1, WFMin
<1>4. ASSUME NEW y \in T PROVE x <= y
  <2>1. x \in Nat /\ y \in Nat /\ ~(<<y, x>> \in R)
    BY <1>3
  <2> QED BY <1>2, <2>1
<1> QED BY <1>4

LEMMA LargestOf ==
    ASSUME NEW N \in Nat, NEW T, T \subseteq 1 .. N, T # {}
    PROVE  Max(T) \in T /\ Max(T) \in 1 .. N /\ \A x \in T : x <= Max(T)
<1> DEFINE U == {n \in Nat : \A x \in T : x <= n}
<1>1. N \in U /\ U \subseteq Nat
  OBVIOUS
<1> HIDE DEF U
<1>2. PICK m \in U : \A n \in U : m <= n
  BY <1>1, LeastOf
<1> USE DEF U
<1>3. m \in T
  <2>1. SUFFICES ASSUME m \notin T PROVE FALSE
    OBVIOUS
  <2>2. PICK x \in T : TRUE
    OBVIOUS
  <2>3. m # 0
    <3>1. x <= m /\ x >= 1
      BY <1>2
    <3> QED BY <1>2, <3>1
  <2>4. m - 1 \in U
    BY <1>2, <2>1, <2>3
  <2> QED BY <1>2, <2>4
<1>4. \E x \in T : \A y \in T : x >= y
  BY <1>2, <1>3
<1> QED BY <1>4 DEF Max

\* What holds of the first of a sequence of values, and of each if of the one before it,
\* holds of all.
LEMMA Climbs ==
    ASSUME NEW N \in Nat, NEW f, NEW S, f[0] \in S,
           \A n \in 1 .. N : f[n - 1] \in S => f[n] \in S
    PROVE  \A n \in 0 .. N : f[n] \in S
<1> DEFINE T == {n \in 0 .. N : f[n] \notin S}
<1>1. SUFFICES ASSUME T # {} PROVE FALSE
  OBVIOUS
<1>2. PICK n \in T : \A m \in T : n <= m
  <2>1. T \subseteq Nat
    OBVIOUS
  <2> HIDE DEF T
  <2> QED BY <1>1, <2>1, LeastOf
<1>3. n \in 1 .. N /\ n - 1 \in 0 .. N /\ n - 1 \notin T
  BY <1>2
<1> QED BY <1>2, <1>3

LEMMA UpTo ==
    ASSUME NEW N \in Nat, N # 0
    PROVE  /\ 1 .. N # {} /\ Max(1 .. N) = N /\ (1 .. N) \ {N} = 1 .. N - 1
           /\ 1 .. N - 1 \in SUBSET (1 .. N) /\ 1 .. N \in SUBSET (1 .. N)
<1>1. N \in 1 .. N
  OBVIOUS
<1>2. Max(1 .. N) \in 1 .. N /\ N <= Max(1 .. N)
  BY <1>1, LargestOf
<1>3. Max(1 .. N) = N
  BY <1>2
<1>4. (1 .. N) \ {N} = 1 .. N - 1 /\ 1 .. N - 1 \in SUBSET (1 .. N)
  OBVIOUS
<1> QED BY <1>1, <1>3, <1>4

\* FoldLeft goes through the sets of indices from their largest down.  A step G that stays in
\* S has one such function.
FoldsWith(h, N, S, b, G) ==
    /\ h \in [SUBSET (1 .. N) -> S]
    /\ h[{}] = b
    /\ \A T \in SUBSET (1 .. N) : T # {} => h[T] = G[<<h[T \ {Max(T)}], Max(T)>>]

LEMMA FoldExists ==
    ASSUME NEW N \in Nat, NEW S, NEW b \in S, NEW G,
           \A x \in S, i \in 1 .. N : G[<<x, i>>] \in S
    PROVE  \E h : FoldsWith(h, N, S, b, G)
<1> DEFINE A == {n \in 0 .. N : \E h : FoldsWith(h, n, S, b, G)}
           one == [n \in 0 .. N |-> n]
<1>1. 0 \in A
  <2> DEFINE h == [T \in SUBSET (1 .. 0) |-> b]
  <2>1. SUBSET (1 .. 0) = {{}}
    OBVIOUS
  <2>2. FoldsWith(h, 0, S, b, G)
    BY <2>1 DEF FoldsWith
  <2> HIDE DEF h
  <2> QED BY <2>2
<1>2. ASSUME NEW n \in 1 .. N, n - 1 \in A PROVE n \in A
  <2>1. PICK h : FoldsWith(h, n - 1, S, b, G)
    BY <1>2
  <2>2. n \in Nat /\ n # 0 /\ n - 1 \in Nat
    OBVIOUS
  <2> DEFINE Rest(T) == T \ {Max(T)}
             g == [T \in SUBSET (1 .. n) |-> IF n \in T THEN G[<<h[T \ {n}], n>>] ELSE h[T]]
  <2>3. \A T \in SUBSET (1 .. n) : T \ {n} \in SUBSET (1 .. n - 1) /\ (n \notin T => T \in SUBSET (1 .. n - 1))
    BY <2>2
  <2>4. \A T \in SUBSET (1 .. n - 1) : h[T] \in S
    BY <2>1 DEF FoldsWith
  <2>5. g \in [SUBSET (1 .. n) -> S]
    <3>1. ASSUME NEW T \in SUBSET (1 .. n) PROVE (IF n \in T THEN G[<<h[T \ {n}], n>>] ELSE h[T]) \in S
      BY <2>3, <2>4
    <3> QED BY <3>1
  <2>6. g[{}] = b
    BY <2>1 DEF FoldsWith
  <2>7. ASSUME NEW T \in SUBSET (1 .. n), T # {} PROVE g[T] = G[<<g[T \ {Max(T)}], Max(T)>>]
    <3>1. Max(T) \in T /\ Max(T) \in 1 .. n /\ \A x \in T : x <= Max(T)
      BY <2>2, <2>7, LargestOf
    <3>2. CASE n \in T
      <4>1. Max(T) = n
        BY <2>2, <3>1, <3>2
      <4>2. T \ {n} \in SUBSET (1 .. n) /\ n \notin T \ {n}
        OBVIOUS
      <4>3. g[T \ {n}] = h[T \ {n}]
        BY <4>2
      <4> QED BY <3>2, <4>1, <4>3
    <3>3. CASE n \notin T
      <4>1. T \in SUBSET (1 .. n - 1) /\ T \ {Max(T)} \in SUBSET (1 .. n) /\ n \notin T \ {Max(T)}
        BY <2>3, <3>3
      <4>2. g[T] = h[T] /\ g[T \ {Max(T)}] = h[T \ {Max(T)}]
        BY <3>3, <4>1
      <4>3. h[T] = G[<<h[T \ {Max(T)}], Max(T)>>]
        BY <2>1, <2>7, <4>1 DEF FoldsWith
      <4> QED BY <4>2, <4>3
    <3> QED BY <3>2, <3>3
  <2> HIDE DEF g
  <2>8. FoldsWith(g, n, S, b, G)
    BY <2>5, <2>6, <2>7 DEF FoldsWith
  <2> QED BY <2>8
<1> HIDE DEF A
<1>3. \A n \in 1 .. N : one[n - 1] \in A => one[n] \in A
  <2>1. \A n \in 1 .. N : one[n - 1] = n - 1 /\ one[n] = n
    OBVIOUS
  <2> QED BY <1>2, <2>1
<1>4. \A n \in 0 .. N : one[n] \in A
  <2>1. one[0] \in A
    BY <1>1
  <2> HIDE DEF one
  <2> QED BY <1>3, <2>1, Climbs
<1>5. N \in A
  BY <1>4
<1> QED BY <1>5 DEF A

\* And what it comes to is in S.
LEMMA FoldStays ==
    ASSUME NEW N \in Nat, NEW f, NEW S, f[{}] \in S,
           \A n \in 1 .. N : f[1 .. n - 1] \in S => f[1 .. n] \in S
    PROVE  f[1 .. N] \in S
<1> DEFINE F == [n \in 0 .. N |-> f[1 .. n]]
<1>1. F[0] \in S
  <2>1. 1 .. 0 = {}
    OBVIOUS
  <2> QED BY <2>1
<1>2. \A n \in 1 .. N : F[n - 1] \in S => F[n] \in S
  OBVIOUS
<1>3. F[N] = f[1 .. N]
  OBVIOUS
<1> HIDE DEF F
<1> QED BY <1>1, <1>2, <1>3, Climbs

\* The same where what holds depends on how far the fold has come.
LEMMA FoldClimbs ==
    ASSUME NEW N \in Nat, NEW f, NEW Q, f[{}] \in Q[0],
           \A n \in 1 .. N : f[1 .. n - 1] \in Q[n - 1] => f[1 .. n] \in Q[n]
    PROVE  f[1 .. N] \in Q[N]
<1> DEFINE F == [n \in 0 .. N |-> <<n, f[1 .. n]>>]
           S == {F[n] : n \in {k \in 0 .. N : f[1 .. k] \in Q[k]}}
<1>1. F[0] \in S
  <2>1. 1 .. 0 = {}
    OBVIOUS
  <2> QED BY <2>1
<1>2. ASSUME NEW n \in 1 .. N, F[n - 1] \in S PROVE F[n] \in S
  <2>1. PICK k \in 0 .. N : F[n - 1] = F[k] /\ f[1 .. k] \in Q[k]
    BY <1>2
  <2>2. F[n - 1] = <<n - 1, f[1 .. n - 1]>> /\ F[k] = <<k, f[1 .. k]>>
    OBVIOUS
  <2>3. k = n - 1
    BY <2>1, <2>2
  <2>4. f[1 .. n] \in Q[n]
    BY <2>1, <2>3
  <2> QED BY <2>4
<1>3. F[N] \in S => f[1 .. N] \in Q[N]
  <2>1. SUFFICES ASSUME NEW k \in 0 .. N, F[N] = F[k], f[1 .. k] \in Q[k] PROVE f[1 .. N] \in Q[N]
    OBVIOUS
  <2>2. F[N] = <<N, f[1 .. N]>> /\ F[k] = <<k, f[1 .. k]>>
    OBVIOUS
  <2> QED BY <2>1, <2>2
<1>4. \A n \in 1 .. N : F[n - 1] \in S => F[n] \in S
  BY <1>2
<1> HIDE DEF F, S
<1> QED BY <1>1, <1>3, <1>4, Climbs
=============================================================================
