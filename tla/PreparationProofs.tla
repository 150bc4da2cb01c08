---------------------------- MODULE PreparationProofs ----------------------------
(***************************************************************************)
(* What is proved about the preparation of the guided rounds, for every set of *)
(* contracts: the sequences that derive_paths finds, the edges that are added  *)
(* between two of them, the functions that are given up, and the slots that    *)
(* the preprocessing collects.                                                 *)
(***************************************************************************)
EXTENDS Preparation, FiniteSetTheorems, SequenceTheorems, WellFoundedInduction, TLAPS

-------------------------------------------------------------------------------
(* Induction and recursion on the natural numbers *)

\* A set of natural numbers that is not empty has a least one.
LEMMA LeastNumber ==
  ASSUME NEW T, T \subseteq Nat, T # {}
  PROVE  \E x \in T : \A y \in T : x <= y
  <1>1. PICK x \in T : \A y \in T : ~(<<y, x>> \in OpToRel(<, Nat))
    BY NatLessThanWellFounded, WFMin
  <1>2. ASSUME NEW y \in T PROVE x <= y
    <2>1. <<y, x>> \in Nat \X Nat /\ <<y, x>>[1] = y /\ <<y, x>>[2] = x
      OBVIOUS
    <2>2. ~(y < x)
      BY <1>1, <2>1 DEF OpToRel
    <2>. QED
      BY <2>2
  <1>. QED
    BY <1>2

\* Induction, for a set of natural numbers.
LEMMA Inductive ==
  ASSUME NEW T, 0 \in T, \A n \in Nat : n \in T => n + 1 \in T
  PROVE  \A n \in Nat : n \in T
  <1> DEFINE Rest == {n \in Nat : n \notin T}
  <1> SUFFICES ASSUME Rest # {} PROVE FALSE
    OBVIOUS
  <1>1. PICK x \in Rest : \A y \in Rest : x <= y
    BY LeastNumber
  <1>2. x # 0 /\ x - 1 \in Nat /\ (x - 1) + 1 = x
    BY <1>1
  <1>3. x - 1 \in T
    BY <1>1, <1>2
  <1>. QED
    BY <1>1, <1>2, <1>3

\* What Max chooses.
LEMMA Largest ==
  ASSUME NEW N \in Nat, NEW T, T \subseteq 0..N, T # {}
  PROVE  Max(T) \in T /\ \A y \in T : y <= Max(T)
  <1> DEFINE U == {n \in Nat : \E x \in T : n = N - x}
  <1>1. U # {}
    <2>1. PICK x \in T : x \in 0..N
      OBVIOUS
    <2>2. N - x \in U
      BY <2>1
    <2>. QED
      BY <2>2
  <1>2. PICK u \in U : \A v \in U : u <= v
    <2>. HIDE DEF U
    <2>1. U \subseteq Nat
      BY DEF U
    <2>. QED
      BY <1>1, <2>1, LeastNumber
  <1>3. PICK x \in T : u = N - x
    BY <1>2
  <1>4. ASSUME NEW y \in T PROVE x >= y
    <2>1. y \in 0..N /\ x \in 0..N /\ N - y \in U
      BY <1>3
    <2>2. N - x <= N - y
      BY <1>2, <1>3, <2>1
    <2>. QED
      BY <2>1, <2>2
  <1>5. Max(T) = CHOOSE z \in T : \A y \in T : z >= y
    BY DEF Max
  <1>6. \E z \in T : \A y \in T : z >= y
    BY <1>4
  <1>7. Max(T) \in T /\ \A y \in T : Max(T) >= y
    BY <1>5, <1>6
  <1>. QED
    BY <1>7

\* The domains of the recursive functions of the model: the numbers, or those up to one.
Prefix(D) == D \subseteq Nat /\ 0 \in D /\ \A n \in D : n # 0 => n - 1 \in D

LEMMA NumberPrefixes == Prefix(Nat) /\ \A n \in Nat : Prefix(0..n)
  <1>1. Prefix(Nat)
    BY DEF Prefix
  <1>2. ASSUME NEW n \in Nat PROVE Prefix(0..n)
    <2>1. \A m \in 0..n : m # 0 => m - 1 \in 0..n
      OBVIOUS
    <2>2. 0 \in 0..n /\ 0..n \subseteq Nat
      OBVIOUS
    <2>. QED
      BY <2>1, <2>2 DEF Prefix
  <1>. QED
    BY <1>1, <1>2

\* A recursive function.
Folds(f, D, a, step) == f = [n \in D |-> IF n = 0 THEN a ELSE step[<<n, f[n - 1]>>]]

\* The first values of such a function.
Begun(g, m, a, step) == g[0] = a /\ \A k \in Nat : k < m => g[k + 1] = step[<<k + 1, g[k]>>]

\* They exist for every length, and determine each other.
LEMMA Begins ==
  ASSUME NEW S, NEW a \in S, NEW step \in [Nat \X S -> S], NEW n \in Nat
  PROVE  \E g \in [Nat -> S] : Begun(g, n, a, step)
  <1> DEFINE T == {k \in Nat : \E g \in [Nat -> S] : Begun(g, k, a, step)}
  <1>1. 0 \in T
    <2>1. [k \in Nat |-> a] \in [Nat -> S] /\ Begun([k \in Nat |-> a], 0, a, step)
      BY DEF Begun
    <2>. QED
      BY <2>1
  <1>2. ASSUME NEW k \in Nat, k \in T PROVE k + 1 \in T
    <2>1. PICK g \in [Nat -> S] : Begun(g, k, a, step)
      BY <1>2
    <2> DEFINE v == step[<<k + 1, g[k]>>]
    <2>2. v \in S
      OBVIOUS
    <2> DEFINE h == [j \in Nat |-> IF j = k + 1 THEN v ELSE g[j]]
    <2>3. h \in [Nat -> S] /\ h[0] = a
      BY <2>1, <2>2 DEF Begun
    <2>4. ASSUME NEW j \in Nat, j < k + 1 PROVE h[j + 1] = step[<<j + 1, h[j]>>]
      <3>1. h[j] = g[j]
        BY <2>4
      <3>2. CASE j = k
        BY <3>1, <3>2
      <3>3. CASE j # k
        <4>1. j < k /\ h[j + 1] = g[j + 1]
          BY <2>4, <3>3
        <4>. QED
          BY <2>1, <3>1, <4>1 DEF Begun
      <3>. QED
        BY <3>2, <3>3
    <2>5. Begun(h, k + 1, a, step)
      <3>. HIDE DEF h
      <3>. QED
        BY <2>3, <2>4 DEF Begun
    <2>. QED
      BY <2>3, <2>5
  <1>. HIDE DEF T
  <1>3. n \in T
    BY <1>1, <1>2, Inductive
  <1>. QED
    BY <1>3 DEF T

LEMMA Folding ==
  ASSUME NEW D, Prefix(D), NEW S, NEW a \in S, NEW step \in [Nat \X S -> S]
  PROVE  \E f \in [D -> S] : Folds(f, D, a, step)
  <1> DEFINE G(n) == CHOOSE g \in [Nat -> S] : Begun(g, n, a, step)
  <1> DEFINE f == [n \in D |-> G(n)[n]]
  <1>1. ASSUME NEW n \in Nat PROVE G(n) \in [Nat -> S] /\ Begun(G(n), n, a, step)
    BY Begins
  <1>. HIDE DEF G
  <1>2. f \in [D -> S]
    BY <1>1 DEF Prefix
  <1>3. ASSUME NEW n \in D PROVE f[n] = IF n = 0 THEN a ELSE step[<<n, f[n - 1]>>]
    <2>1. n \in Nat
      BY DEF Prefix
    <2>2. CASE n = 0
      BY <1>1, <2>1, <2>2 DEF Begun
    <2>3. CASE n # 0
      <3>1. n - 1 \in Nat /\ n - 1 \in D /\ (n - 1) + 1 = n /\ n - 1 < n
        BY <2>1, <2>3 DEF Prefix
      <3>2. G(n)[n] = step[<<n, G(n)[n - 1]>>]
        BY <1>1, <2>1, <3>1 DEF Begun
      <3>3. G(n)[n - 1] = G(n - 1)[n - 1]
        <4>1. Begun(G(n), n, a, step) /\ Begun(G(n - 1), n - 1, a, step)
          BY <1>1, <2>1, <3>1
        <4> DEFINE T == {k \in Nat : k <= n - 1 => G(n)[k] = G(n - 1)[k]}
        <4>2. 0 \in T
          BY <4>1 DEF Begun
        <4>3. ASSUME NEW k \in Nat, k \in T PROVE k + 1 \in T
          <5> SUFFICES ASSUME k + 1 <= n - 1 PROVE G(n)[k + 1] = G(n - 1)[k + 1]
            OBVIOUS
          <5>1. k < n /\ k < n - 1 /\ G(n)[k] = G(n - 1)[k]
            BY <2>1, <4>3
          <5>2. G(n)[k + 1] = step[<<k + 1, G(n)[k]>>] /\ G(n - 1)[k + 1] = step[<<k + 1, G(n - 1)[k]>>]
            BY <4>1, <5>1 DEF Begun
          <5>. QED
            BY <5>1, <5>2
        <4>. HIDE DEF T
        <4>4. n - 1 \in T
          BY <3>1, <4>2, <4>3, Inductive
        <4>. QED
          BY <3>1, <4>4 DEF T
      <3>. QED
        BY <2>3, <3>1, <3>2, <3>3
    <2>. QED
      BY <2>2, <2>3
  <1>4. f = [n \in D |-> IF n = 0 THEN a ELSE step[<<n, f[n - 1]>>]]
    <2>. HIDE DEF f
    <2>1. f = [n \in D |-> f[n]]
      BY <1>2
    <2>. QED
      BY <1>3, <2>1
  <1>5. Folds(f, D, a, step)
    BY <1>4 DEF Folds
  <1>. QED
    BY <1>2, <1>5

-------------------------------------------------------------------------------
(* Sequences *)

\* ToSet, Contains, Append and \o of a sequence.
LEMMA Elements ==
  ASSUME NEW S, NEW s \in Seq(S)
  PROVE  /\ ToSet(s) = {s[i] : i \in 1..Len(s)} /\ ToSet(s) \subseteq S
         /\ \A e : Contains(s, e) <=> e \in ToSet(s)
         /\ \A e \in S : ToSet(Append(s, e)) = ToSet(s) \cup {e}
         /\ \A t \in Seq(S) : ToSet(s \o t) = ToSet(s) \cup ToSet(t)
  <1>1. DOMAIN s = 1..Len(s) /\ Len(s) \in Nat /\ \A i \in 1..Len(s) : s[i] \in S
    OBVIOUS
  <1>2. ToSet(s) = {s[i] : i \in 1..Len(s)} /\ ToSet(s) \subseteq S
    BY <1>1 DEF ToSet
  <1>3. \A e : Contains(s, e) <=> e \in ToSet(s)
    BY <1>2 DEF Contains
  <1>4. ASSUME NEW e \in S PROVE ToSet(Append(s, e)) = ToSet(s) \cup {e}
    <2> DEFINE t == Append(s, e)
    <2>1. t \in Seq(S) /\ DOMAIN t = 1..(Len(s) + 1) /\ t[Len(s) + 1] = e /\ \A i \in 1..Len(s) : t[i] = s[i]
      OBVIOUS
    <2>. HIDE DEF t
    <2>2. ToSet(t) = {t[i] : i \in 1..(Len(s) + 1)}
      BY <2>1 DEF ToSet
    <2>3. \A i \in 1..(Len(s) + 1) : i \in 1..Len(s) \/ i = Len(s) + 1
      BY <1>1
    <2>4. \A i \in 1..Len(s) : i \in 1..(Len(s) + 1)
      BY <1>1
    <2>5. Len(s) + 1 \in 1..(Len(s) + 1)
      BY <1>1
    <2>6. ToSet(t) = ToSet(s) \cup {e}
      BY <1>2, <2>1, <2>2, <2>3, <2>4, <2>5
    <2>. QED
      BY <2>6 DEF t
  <1>5. ASSUME NEW t \in Seq(S) PROVE ToSet(s \o t) = ToSet(s) \cup ToSet(t)
    <2> DEFINE u == s \o t
    <2>1. u \in Seq(S) /\ DOMAIN u = 1..(Len(s) + Len(t)) /\ Len(t) \in Nat
          /\ \A i \in 1..(Len(s) + Len(t)) : u[i] = IF i <= Len(s) THEN s[i] ELSE t[i - Len(s)]
      BY ConcatProperties
    <2>. HIDE DEF u
    <2>2. ToSet(u) = {u[i] : i \in 1..(Len(s) + Len(t))} /\ ToSet(t) = {t[i] : i \in 1..Len(t)}
      BY <2>1 DEF ToSet
    <2>3. ASSUME NEW i \in 1..(Len(s) + Len(t)) PROVE u[i] \in ToSet(s) \cup ToSet(t)
      <3>1. CASE i <= Len(s)
        BY <1>1, <1>2, <2>1, <3>1
      <3>2. CASE i > Len(s)
        <4>1. i - Len(s) \in 1..Len(t) /\ u[i] = t[i - Len(s)]
          BY <1>1, <2>1, <3>2
        <4>. QED
          BY <2>2, <4>1
      <3>. QED
        BY <1>1, <3>1, <3>2
    <2>4. ASSUME NEW i \in 1..Len(s) PROVE s[i] \in ToSet(u)
      <3>1. i \in 1..(Len(s) + Len(t)) /\ u[i] = s[i]
        BY <1>1, <2>1
      <3>. QED
        BY <2>2, <3>1
    <2>5. ASSUME NEW i \in 1..Len(t) PROVE t[i] \in ToSet(u)
      <3>1. i + Len(s) \in 1..(Len(s) + Len(t)) /\ ~(i + Len(s) <= Len(s)) /\ (i + Len(s)) - Len(s) = i
        BY <1>1, <2>1
      <3>2. u[i + Len(s)] = t[i]
        BY <2>1, <3>1
      <3>. QED
        BY <2>2, <3>1, <3>2
    <2>6. ToSet(u) = ToSet(s) \cup ToSet(t)
      BY <1>2, <2>2, <2>3, <2>4, <2>5
    <2>. QED
      BY <2>6 DEF u
  <1>. QED
    BY <1>2, <1>3, <1>4, <1>5

LEMMA Single ==
  ASSUME NEW S, NEW e \in S
  PROVE  <<e>> \in Seq(S) /\ Len(<<e>>) = 1 /\ ToSet(<<e>>) = {e} /\ ToSet(<<>>) = {}
  BY DEF ToSet

\* FlattenSeq is defined by a recursive function: it is a sequence of the elements of all.
LEMMA Flattened ==
  ASSUME NEW S, NEW n \in Nat, NEW ss \in [1..n -> Seq(S)]
  PROVE  FlattenSeq(ss) \in Seq(S) /\ ToSet(FlattenSeq(ss)) = UNION {ToSet(ss[i]) : i \in 1..n}
  <1>1. ss \in Seq(Seq(S)) /\ Len(ss) = n
    OBVIOUS
  <1>2. CASE n = 0
    <2>1. ss = <<>> /\ FlattenSeq(ss) = ss
      BY <1>1, <1>2 DEF FlattenSeq
    <2>2. ToSet(<<>>) = {} /\ <<>> \in Seq(S)
      BY DEF ToSet
    <2>3. 1..n = {}
      BY <1>2
    <2>4. UNION {ToSet(ss[i]) : i \in 1..n} = {}
      BY <2>3
    <2>. QED
      BY <2>1, <2>2, <2>4
  <1>3. CASE n # 0
    <2> DEFINE flatten[i \in 1..Len(ss)] == IF i = 1 THEN ss[i] ELSE flatten[i - 1] \o ss[i]
    <2>1. FlattenSeq(ss) = flatten[n]
      BY <1>1, <1>3 DEF FlattenSeq
    <2> DEFINE step == [z \in Nat \X Seq(S) |-> IF z[1] + 1 <= n THEN z[2] \o ss[z[1] + 1] ELSE z[2]]
    <2>2. step \in [Nat \X Seq(S) -> Seq(S)]
      <3>1. ASSUME NEW z \in Nat \X Seq(S), z[1] + 1 <= n PROVE z[2] \o ss[z[1] + 1] \in Seq(S)
        <4>1. z[1] + 1 \in 1..n /\ z[2] \in Seq(S)
          BY <3>1
        <4>2. ss[z[1] + 1] \in Seq(S)
          BY <4>1
        <4>. QED
          BY <4>1, <4>2
      <3>. QED
        BY <3>1
    <2>3. 1 \in 1..n /\ ss[1] \in Seq(S) /\ Prefix(Nat)
      BY <1>3, NumberPrefixes
    <2>4. PICK g \in [Nat -> Seq(S)] : Folds(g, Nat, ss[1], step)
      <3>. HIDE DEF step
      <3>. QED
        BY <2>2, <2>3, Folding
    <2>5. g[0] = ss[1] /\ \A k \in Nat : k # 0 /\ k + 1 <= n => g[k] = g[k - 1] \o ss[k + 1]
      <3>1. g = [k \in Nat |-> IF k = 0 THEN ss[1] ELSE step[<<k, g[k - 1]>>]]
        BY <2>4 DEF Folds
      <3>2. ASSUME NEW k \in Nat, k # 0, k + 1 <= n PROVE g[k] = g[k - 1] \o ss[k + 1]
        <4>0. k - 1 \in Nat
          BY <3>2
        <4>1. g[k - 1] \in Seq(S) /\ <<k, g[k - 1]>> \in Nat \X Seq(S)
          BY <2>4, <4>0
        <4>2. g[k] = step[<<k, g[k - 1]>>]
          BY <3>1, <3>2
        <4>. QED
          BY <3>2, <4>1, <4>2
      <3>. QED
        BY <3>1, <3>2
    <2>. HIDE DEF step
    <2> DEFINE h == [i \in 1..Len(ss) |-> g[i - 1]]
    <2>6. ASSUME NEW i \in 1..n PROVE h[i] = IF i = 1 THEN ss[i] ELSE h[i - 1] \o ss[i]
      <3>1. CASE i = 1
        BY <1>1, <2>3, <2>5, <3>1
      <3>2. CASE i # 1
        <4>1. i - 1 \in Nat /\ i - 1 # 0 /\ (i - 1) + 1 = i /\ i - 1 \in 1..n
          BY <3>2
        <4> DEFINE k == i - 1
        <4>2. k \in Nat /\ k # 0 /\ k + 1 <= n
          BY <4>1
        <4>3. g[k] = g[k - 1] \o ss[k + 1]
          BY <2>5, <4>2
        <4>. QED
          BY <1>1, <3>2, <4>1, <4>3
      <3>. QED
        BY <3>1, <3>2
    <2>7. h = [i \in 1..Len(ss) |-> IF i = 1 THEN ss[i] ELSE h[i - 1] \o ss[i]]
      <3>1. h = [i \in 1..Len(ss) |-> h[i]]
        OBVIOUS
      <3>. HIDE DEF h
      <3>. QED
        BY <1>1, <2>6, <3>1
    <2>. HIDE DEF h
    <2>8. flatten = [i \in 1..Len(ss) |-> IF i = 1 THEN ss[i] ELSE flatten[i - 1] \o ss[i]]
      BY <2>7
    <2>. HIDE DEF flatten
    <2> DEFINE Q(j) == flatten[j] \in Seq(S) /\ ToSet(flatten[j]) = UNION {ToSet(ss[i]) : i \in 1..j}
    <2> DEFINE T == {k \in Nat : k + 1 <= n => Q(k + 1)}
    <2>9. 0 \in T
      <3>1. flatten[1] = ss[1]
        BY <1>1, <2>3, <2>8
      <3>2. 1..(0 + 1) = {1} /\ 0 + 1 = 1
        OBVIOUS
      <3>3. UNION {ToSet(ss[i]) : i \in {1}} = ToSet(ss[1])
        OBVIOUS
      <3>. QED
        BY <2>3, <3>1, <3>2, <3>3
    <2>10. ASSUME NEW k \in Nat, k \in T PROVE k + 1 \in T
      <3> DEFINE m == k + 1
      <3>. HIDE DEF Q
      <3> SUFFICES ASSUME m + 1 <= n PROVE Q(m + 1)
        OBVIOUS
      <3>1. m \in 1..n /\ m + 1 \in 1..n /\ m + 1 # 1 /\ (m + 1) - 1 = m
        OBVIOUS
      <3>2. flatten[m] \in Seq(S) /\ ToSet(flatten[m]) = UNION {ToSet(ss[i]) : i \in 1..m}
        <4>1. Q(m)
          BY <2>10, <3>1
        <4>. QED
          BY <4>1 DEF Q
      <3>. HIDE DEF m
      <3>3. flatten[m + 1] = flatten[m] \o ss[m + 1] /\ ss[m + 1] \in Seq(S)
        BY <1>1, <2>8, <3>1
      <3>4. ToSet(flatten[m + 1]) = ToSet(flatten[m]) \cup ToSet(ss[m + 1])
        <4>1. flatten[m] \in Seq(S)
          BY <3>2
        <4>2. \A t \in Seq(S) : ToSet(flatten[m] \o t) = ToSet(flatten[m]) \cup ToSet(t)
          BY <4>1, Elements
        <4>. QED
          BY <3>3, <4>2
      <3>5. \A i \in 1..(m + 1) : i \in 1..m \/ i = m + 1
        BY <3>1
      <3>6. m + 1 \in 1..(m + 1) /\ \A i \in 1..m : i \in 1..(m + 1)
        BY <3>1
      <3>7. UNION {ToSet(ss[i]) : i \in 1..(m + 1)} = (UNION {ToSet(ss[i]) : i \in 1..m}) \cup ToSet(ss[m + 1])
        BY <3>5, <3>6
      <3>8. flatten[m + 1] \in Seq(S)
        BY <3>2, <3>3
      <3>9. ToSet(flatten[m + 1]) = UNION {ToSet(ss[i]) : i \in 1..(m + 1)}
        BY <3>2, <3>4, <3>7
      <3>. QED
        BY <3>8, <3>9 DEF Q
    <2>. HIDE DEF T
    <2>11. n - 1 \in Nat /\ (n - 1) + 1 = n
      BY <1>3
    <2>12. n - 1 \in T
      BY <2>9, <2>10, <2>11, Inductive
    <2>13. Q(n)
      <3>. HIDE DEF Q
      <3>1. (n - 1) + 1 <= n => Q((n - 1) + 1)
        BY <2>12 DEF T
      <3>. QED
        BY <2>11, <3>1
    <2>. QED
      BY <2>1, <2>13 DEF Q
  <1>. QED
    BY <1>2, <1>3

\* Distinct changes the order and the number of the elements, not which they are.
LEMMA DistinctIs ==
  ASSUME NEW S, NEW s \in Seq(S)
  PROVE  Distinct(s) \in Seq(S) /\ ToSet(Distinct(s)) = ToSet(s)
  <1> DEFINE N == Len(s)
  <1>1. N \in Nat /\ Prefix(0..N) /\ <<>> \in Seq(S) /\ \A n \in 1..N : s[n] \in S
    BY NumberPrefixes
  <1> DEFINE upto[n \in 0..N] ==
        IF n = 0 THEN <<>>
        ELSE LET t == upto[n - 1] IN IF Contains(t, s[n]) THEN t ELSE Append(t, s[n])
  <1>2. Distinct(s) = upto[N]
    BY DEF Distinct
  <1> DEFINE step == [z \in Nat \X Seq(S) |->
                       IF z[1] \in 1..N /\ ~Contains(z[2], s[z[1]]) THEN Append(z[2], s[z[1]]) ELSE z[2]]
  <1>. HIDE DEF N
  <1>3. step \in [Nat \X Seq(S) -> Seq(S)]
    BY <1>1
  <1>4. PICK g \in [0..N -> Seq(S)] : Folds(g, 0..N, <<>>, step)
    <2>. HIDE DEF step
    <2>. QED
      BY <1>1, <1>3, Folding
  <1>5. ASSUME NEW t \in Seq(S), NEW n \in 0..N, n # 0
        PROVE  step[<<n, t>>] = IF Contains(t, s[n]) THEN t ELSE Append(t, s[n])
    <2>1. <<n, t>> \in Nat \X Seq(S) /\ n \in 1..N
      BY <1>1, <1>5
    <2>. QED
      BY <2>1
  <1>6. g = [n \in 0..N |-> IF n = 0 THEN <<>> ELSE
               LET t == g[n - 1] IN IF Contains(t, s[n]) THEN t ELSE Append(t, s[n])]
    <2>1. \A n \in 0..N : n # 0 => g[n - 1] \in Seq(S)
      BY <1>1, <1>4 DEF Prefix
    <2>. HIDE DEF step
    <2>. QED
      BY <1>4, <1>5, <2>1 DEF Folds
  <1>7. upto = [n \in 0..N |-> IF n = 0 THEN <<>> ELSE
               LET t == upto[n - 1] IN IF Contains(t, s[n]) THEN t ELSE Append(t, s[n])]
    BY <1>6
  <1>. HIDE DEF upto
  <1> DEFINE T == {n \in Nat : n <= N => upto[n] \in Seq(S) /\ ToSet(upto[n]) = {s[i] : i \in 1..n}}
  <1>8. 0 \in T
    <2>1. upto[0] = <<>>
      BY <1>1, <1>7
    <2>2. ToSet(<<>>) = {} /\ {s[i] : i \in 1..0} = {}
      BY DEF ToSet
    <2>. QED
      BY <1>1, <2>1, <2>2
  <1>9. ASSUME NEW n \in Nat, n \in T PROVE n + 1 \in T
    <2> SUFFICES ASSUME n + 1 <= N
                 PROVE  upto[n + 1] \in Seq(S) /\ ToSet(upto[n + 1]) = {s[i] : i \in 1..(n + 1)}
      OBVIOUS
    <2> DEFINE t == upto[n]
    <2>1. t \in Seq(S) /\ ToSet(t) = {s[i] : i \in 1..n}
      BY <1>1, <1>9
    <2>2. n + 1 \in 0..N /\ n + 1 # 0 /\ (n + 1) - 1 = n /\ s[n + 1] \in S
      BY <1>1
    <2>3. upto[n + 1] = IF Contains(t, s[n + 1]) THEN t ELSE Append(t, s[n + 1])
      BY <1>7, <2>2
    <2>. HIDE DEF t
    <2>4. ToSet(upto[n + 1]) = ToSet(t) \cup {s[n + 1]} /\ upto[n + 1] \in Seq(S)
      <3>1. Contains(t, s[n + 1]) <=> s[n + 1] \in ToSet(t)
        BY <2>1, Elements
      <3>2. ToSet(Append(t, s[n + 1])) = ToSet(t) \cup {s[n + 1]}
        BY <2>1, <2>2, Elements
      <3>3. Append(t, s[n + 1]) \in Seq(S)
        BY <2>1, <2>2
      <3>. QED
        BY <2>1, <2>3, <3>1, <3>2, <3>3
    <2>5. \A i \in 1..(n + 1) : i \in 1..n \/ i = n + 1
      OBVIOUS
    <2>6. n + 1 \in 1..(n + 1) /\ \A i \in 1..n : i \in 1..(n + 1)
      OBVIOUS
    <2>. QED
      BY <2>1, <2>4, <2>5, <2>6
  <1>. HIDE DEF T
  <1>10. N \in T
    BY <1>1, <1>8, <1>9, Inductive
  <1>. QED
    <2>1. upto[N] \in Seq(S) /\ ToSet(upto[N]) = {s[i] : i \in 1..N}
      BY <1>1, <1>10 DEF T
    <2>2. ToSet(s) = {s[i] : i \in 1..N}
      BY Elements DEF N
    <2>. QED
      BY <1>2, <2>1, <2>2

-------------------------------------------------------------------------------
(* AcyclicPath *)

\* What comes behind the first function of a path.
Behind(q) == {q[i] : i \in 2..Len(q)}

\* The states of derive_paths.
PathStates(F) == [path : Seq(F), all : Seq(Seq(F)), derived : Seq(Seq(F))]

\* A path, or the one with the first function twice.
Forms(path, children) == {path} \cup {q \in {<<path[1], path[1]>>} : Len(path) = 1 /\ path[1] \in children}

\* A path with one more function.
LEMMA Appended ==
  ASSUME NEW F, NEW q \in Seq(F), q # <<>>, NEW c \in F
  PROVE  /\ Append(q, c) \in Seq(F) /\ Append(q, c) # <<>> /\ Append(q, c)[1] = q[1] /\ Last(Append(q, c)) = c
         /\ Behind(Append(q, c)) = Behind(q) \cup {c} /\ ToSet(Append(q, c)) = ToSet(q) \cup {c}
         /\ ToSet(q) = Behind(q) \cup {q[1]}
  <1> DEFINE t == Append(q, c)
  <1>1. t \in Seq(F) /\ Len(t) = Len(q) + 1 /\ t[Len(q) + 1] = c /\ (\A i \in 1..Len(q) : t[i] = q[i])
        /\ Len(q) \in Nat /\ Len(q) >= 1
    OBVIOUS
  <1>2. ToSet(t) = ToSet(q) \cup {c} /\ ToSet(q) = {q[i] : i \in 1..Len(q)}
    BY Elements
  <1>. HIDE DEF t
  <1>3. t # <<>> /\ t[1] = q[1] /\ Last(t) = c
    BY <1>1 DEF Last
  <1>4. \A i \in 2..(Len(q) + 1) : i \in 2..Len(q) \/ i = Len(q) + 1
    BY <1>1
  <1>5. \A i \in 2..Len(q) : i \in 2..(Len(q) + 1) /\ t[i] = q[i]
    BY <1>1
  <1>6. Len(q) + 1 \in 2..(Len(q) + 1)
    BY <1>1
  <1>7. Behind(t) = Behind(q) \cup {c}
    BY <1>1, <1>4, <1>5, <1>6 DEF Behind
  <1>8. \A i \in 1..Len(q) : i = 1 \/ i \in 2..Len(q)
    OBVIOUS
  <1>9. 1 \in 1..Len(q) /\ \A i \in 2..Len(q) : i \in 1..Len(q)
    BY <1>1
  <1>10. ToSet(q) = Behind(q) \cup {q[1]}
    BY <1>2, <1>8, <1>9 DEF Behind
  <1>. QED
    BY <1>1, <1>2, <1>3, <1>7, <1>10 DEF t

\* Doubling the first function of a path leaves its functions the same.
LEMMA FormsAre ==
  ASSUME NEW F, NEW path \in Seq(F), path # <<>>, NEW children, NEW q \in Forms(path, children)
  PROVE  /\ q \in Seq(F) /\ q # <<>> /\ q[1] = path[1] /\ ToSet(q) = ToSet(path)
         /\ Behind(path) \subseteq Behind(q)
         /\ Behind(q) \subseteq Behind(path) \cup (IF Len(path) = 1 THEN {path[1]} \cap children ELSE {})
  <1>1. CASE q = path
    BY <1>1
  <1>2. CASE q # path
    <2>1. q = <<path[1], path[1]>> /\ Len(path) = 1 /\ path[1] \in children /\ path[1] \in F
      BY <1>2 DEF Forms
    <2>2. q \in Seq(F) /\ Len(q) = 2 /\ q[1] = path[1] /\ q[2] = path[1] /\ q # <<>>
      BY <2>1
    <2>3. ToSet(q) = {q[i] : i \in 1..2} /\ ToSet(path) = {path[i] : i \in 1..1}
      <3>1. ToSet(q) = {q[i] : i \in 1..Len(q)}
        BY <2>2, Elements
      <3>2. ToSet(path) = {path[i] : i \in 1..Len(path)}
        BY Elements
      <3>. QED
        BY <2>1, <2>2, <3>1, <3>2
    <2>4. Behind(q) = {path[1]} /\ Behind(path) = {}
      <3>1. 2..2 = {2} /\ 2..1 = {}
        OBVIOUS
      <3>. QED
        BY <2>1, <2>2, <3>1 DEF Behind
    <2>5. ToSet(q) = ToSet(path)
      <3>1. 1..2 = {1, 2} /\ 1..1 = {1}
        OBVIOUS
      <3>. QED
        BY <2>2, <2>3, <3>1
    <2>. QED
      BY <2>1, <2>2, <2>4, <2>5
  <1>. QED
    BY <1>1, <1>2

\* A path state x becomes y with a child.
WithChild(x, c, y) ==
  /\ c \notin ToSet(x.path) =>
       y.path = x.path /\ y.all = x.all /\ ToSet(y.derived) = ToSet(x.derived) \cup {Append(x.path, c)}
  /\ c \in ToSet(x.path) =>
       /\ y.path = IF x.path = <<c>> THEN <<c, c>> ELSE x.path
       /\ y.derived = x.derived
       /\ ToSet(y.all) = ToSet(x.all) \cup {y.path}

LEMMA DeriveIs ==
  ASSUME NEW F, NEW p \in PathStates(F), p.path # <<>>, NEW c \in F
  PROVE  Derive(p, c) \in PathStates(F) /\ WithChild(p, c, Derive(p, c))
  <1>1. p.path \in Seq(F) /\ p.all \in Seq(Seq(F)) /\ p.derived \in Seq(Seq(F))
    BY DEF PathStates
  <1>2. CASE c \notin ToSet(p.path)
    <2>1. Append(p.path, c) \in Seq(F)
      BY <1>1
    <2>2. Derive(p, c) = [p EXCEPT !.derived = Append(@, Append(p.path, c))]
      BY <1>2 DEF Derive
    <2>3. Append(p.derived, Append(p.path, c)) \in Seq(Seq(F))
      BY <1>1, <2>1
    <2>4. ToSet(Append(p.derived, Append(p.path, c))) = ToSet(p.derived) \cup {Append(p.path, c)}
      <3>1. \A e \in Seq(F) : ToSet(Append(p.derived, e)) = ToSet(p.derived) \cup {e}
        BY <1>1, Elements
      <3>. QED
        BY <2>1, <3>1
    <2>. QED
      BY <1>2, <2>2, <2>3, <2>4 DEF PathStates, WithChild
  <1>3. CASE c \in ToSet(p.path)
    <2> DEFINE path == IF p.path = <<c>> THEN <<c, c>> ELSE p.path
    <2> DEFINE all == IF Contains(p.all, path) THEN p.all ELSE Append(p.all, path)
    <2>1. path \in Seq(F)
      BY <1>1
    <2>. HIDE DEF path
    <2>2. ToSet(all) = ToSet(p.all) \cup {path} /\ all \in Seq(Seq(F))
      <3>1. Contains(p.all, path) <=> path \in ToSet(p.all)
        BY <1>1, Elements
      <3>2. ToSet(Append(p.all, path)) = ToSet(p.all) \cup {path}
        BY <1>1, <2>1, Elements
      <3>. QED
        BY <1>1, <2>1, <3>1, <3>2
    <2>3. Derive(p, c) = [p EXCEPT !.path = path, !.all = all]
      BY <1>3 DEF Derive, path
    <2>. HIDE DEF all
    <2>4. Derive(p, c) \in PathStates(F) /\ Derive(p, c).path = path /\ Derive(p, c).all = all
          /\ Derive(p, c).derived = p.derived
      BY <2>1, <2>2, <2>3 DEF PathStates
    <2>. QED
      BY <1>3, <2>2, <2>4 DEF path, WithChild
  <1>. QED
    BY <1>2, <1>3

Children(fwrg, path) == Listed(fwrg, Last(path))

\* A path state x becomes y with the children of the paths of D.
Lengthened(fwrg, D, x, y) ==
  /\ ToSet(x.all) \subseteq ToSet(y.all)
  /\ \A q \in ToSet(y.all) : q \in ToSet(x.all) \/ \E d \in D : q \in Forms(d, Children(fwrg, d))
  /\ ToSet(x.derived) \subseteq ToSet(y.derived)
  /\ \A q \in ToSet(y.derived) : q \in ToSet(x.derived)
       \/ \E d \in D : \E form \in Forms(d, Children(fwrg, d)), c \in Children(fwrg, d) \ ToSet(d) : q = Append(form, c)
  /\ \A d \in D : \A c \in Children(fwrg, d) \ ToSet(d) :
       \E form \in Forms(d, Children(fwrg, d)) : Append(form, c) \in ToSet(y.derived)
  /\ \A d \in D : Children(fwrg, d) \subseteq ToSet(d) =>
       \E form \in Forms(d, Children(fwrg, d)) : form \in ToSet(y.all)
  /\ \A d \in D : \A c \in Children(fwrg, d) : d = <<c>> => <<c, c>> \in ToSet(y.all)

\* One path is lengthened by its children, in the order of the functions: each child that is
\* new gives a path, a child on the path gives back the path in one of its forms.
LEMMA DeriveAllIs ==
  ASSUME NEW N \in Nat, NEW fwrg, NEW p \in PathStates(1..N), NEW path \in Seq(1..N), path # <<>>,
         Children(fwrg, path) \subseteq 1..N
  PROVE  /\ DeriveAll(fwrg, p, path) \in PathStates(1..N)
         /\ Lengthened(fwrg, {path}, p, DeriveAll(fwrg, p, path))
  <1> DEFINE F == 1..N
  <1> DEFINE children == Children(fwrg, path)
  <1> DEFINE forms == Forms(path, children)
  <1> DEFINE new == DeriveAll(fwrg, p, path)
  <1> DEFINE start == [p EXCEPT !.path = path]
  <1>1. p.path \in Seq(F) /\ p.all \in Seq(Seq(F)) /\ p.derived \in Seq(Seq(F))
    BY DEF PathStates
  <1>2. start \in PathStates(F) /\ start.path = path /\ start.all = p.all /\ start.derived = p.derived
    BY DEF PathStates
  <1>3. path \in forms /\ (\A c \in children : path = <<c>> => <<c, c>> \in forms)
    BY DEF Forms
  <1>4. CASE children = {}
    <2> DEFINE all == IF Contains(p.all, path) THEN p.all ELSE Append(p.all, path)
    <2>1. new = [p EXCEPT !.all = all]
      BY <1>4 DEF DeriveAll, Children
    <2>2. ToSet(all) = ToSet(p.all) \cup {path} /\ all \in Seq(Seq(F))
      <3>1. Contains(p.all, path) <=> path \in ToSet(p.all)
        BY <1>1, Elements
      <3>2. path \in Seq(F) /\ \A e \in Seq(F) : ToSet(Append(p.all, e)) = ToSet(p.all) \cup {e}
        BY <1>1, Elements
      <3>3. ToSet(Append(p.all, path)) = ToSet(p.all) \cup {path} /\ Append(p.all, path) \in Seq(Seq(F))
        <4>. HIDE DEF F
        <4>. QED
          BY <1>1, <3>2
      <3>. HIDE DEF F
      <3>. QED
        BY <1>1, <3>1, <3>3
    <2>. HIDE DEF all
    <2>3. new \in PathStates(F) /\ new.all = all /\ new.derived = p.derived
      BY <2>1, <2>2 DEF PathStates
    <2>. HIDE DEF new, forms
    <2>. QED
      BY <1>3, <1>4, <2>2, <2>3 DEF new, forms, Lengthened
  <1>5. CASE children # {}
    <2> DEFINE upto[g \in Nat] ==
          IF g = 0 THEN start ELSE IF g \in children THEN Derive(upto[g - 1], g) ELSE upto[g - 1]
    <2>1. new = upto[Max(children)]
      BY <1>5 DEF DeriveAll, Children
    <2> DEFINE S == {x \in PathStates(F) : x.path # <<>>}
    <2> DEFINE step == [z \in Nat \X S |-> IF z[1] \in children THEN Derive(z[2], z[1]) ELSE z[2]]
    <2>2. step \in [Nat \X S -> S]
      <3>1. ASSUME NEW x \in S, NEW g \in children PROVE Derive(x, g) \in S
        <4>1. x \in PathStates(F) /\ x.path # <<>> /\ g \in F
          OBVIOUS
        <4>2. Derive(x, g) \in PathStates(F) /\ Derive(x, g).path # <<>>
          <5>. HIDE DEF F
          <5>1. <<g, g>> # <<>>
            OBVIOUS
          <5>2. Derive(x, g) \in PathStates(F) /\ WithChild(x, g, Derive(x, g))
            BY <4>1, DeriveIs
          <5>. QED
            BY <4>1, <5>1, <5>2 DEF WithChild
        <4>. QED
          BY <4>2
      <3>. QED
        BY <3>1
    <2>3. start \in S
      BY <1>2
    <2>4. PICK f \in [Nat -> S] : Folds(f, Nat, start, step)
      <3>. HIDE DEF S, start, step
      <3>. QED
        BY <2>2, <2>3, NumberPrefixes, Folding
    <2>5. ASSUME NEW x \in S, NEW g \in Nat
          PROVE  step[<<g, x>>] = IF g \in children THEN Derive(x, g) ELSE x
      <3>1. <<g, x>> \in Nat \X S
        OBVIOUS
      <3>. QED
        BY <3>1
    <2>. HIDE DEF step, start
    <2>6. f = [g \in Nat |-> IF g = 0 THEN start ELSE
                 IF g \in children THEN Derive(f[g - 1], g) ELSE f[g - 1]]
      <3>1. \A g \in Nat : g # 0 => f[g - 1] \in S
        <4>. HIDE DEF S
        <4>. QED
          BY <2>4
      <3>. HIDE DEF S
      <3>. QED
        BY <2>4, <2>5, <3>1 DEF Folds
    <2>7. upto = [g \in Nat |-> IF g = 0 THEN start ELSE
                    IF g \in children THEN Derive(upto[g - 1], g) ELSE upto[g - 1]]
      BY <2>6
    <2>. HIDE DEF upto, forms
    <2> DEFINE J(g, x) ==
          /\ x \in S /\ x.path \in forms
          /\ ToSet(p.all) \subseteq ToSet(x.all) /\ ToSet(x.all) \subseteq ToSet(p.all) \cup forms
          /\ ToSet(p.derived) \subseteq ToSet(x.derived)
          /\ \A q \in ToSet(x.derived) : q \in ToSet(p.derived)
               \/ \E form \in forms, c \in children \ ToSet(path) : q = Append(form, c)
          /\ \A c \in children \ ToSet(path) : c <= g => \E form \in forms : Append(form, c) \in ToSet(x.derived)
          /\ \A c \in children : c \in ToSet(path) /\ c <= g => \E form \in forms : form \in ToSet(x.all)
          /\ \A c \in children : path = <<c>> /\ c <= g => <<c, c>> \in ToSet(x.all)
          /\ \A c \in children : path = <<c>> /\ g < c => x.path = path
    <2> DEFINE T == {g \in Nat : J(g, upto[g])}
    <2>8. 0 \in T
      <3>1. upto[0] = start
        BY <2>7
      <3>2. \A c \in children : ~(c <= 0)
        OBVIOUS
      <3>3. J(0, start)
        <4>1. start \in S /\ start.path \in forms /\ start.path = path
          BY <1>2, <1>3, <2>3 DEF forms
        <4>. QED
          BY <1>2, <3>2, <4>1
      <3>. HIDE DEF J
      <3>. QED
        BY <3>1, <3>3
    <2>9. ASSUME NEW n \in Nat, n \in T PROVE n + 1 \in T
      <3> DEFINE g == n + 1
      <3> DEFINE x == upto[n]
      <3>1. J(n, x)
        <4>. HIDE DEF J
        <4>. QED
          BY <2>9
      <3>2. upto[g] = IF g \in children THEN Derive(x, g) ELSE x
        BY <2>7
      <3>3. g \in Nat /\ g = n + 1
        OBVIOUS
      <3>. HIDE DEF g, x
      <3>4. \A c \in children : (c <= g => c <= n \/ c = g) /\ (c <= n => c <= g) /\ (g < c => n < c)
        BY <3>3
      <3>5. ASSUME g \notin children PROVE J(g, x)
        <4>1. \A c \in children : (c <= g <=> c <= n) /\ (g < c => n < c)
          BY <3>4, <3>5
        <4>. HIDE DEF S
        <4>. QED
          BY <3>1, <4>1
      <3>6. ASSUME g \in children PROVE J(g, Derive(x, g))
        <4> DEFINE y == Derive(x, g)
        <4>1. x \in PathStates(F) /\ x.path # <<>> /\ g \in F /\ x.path \in forms
          BY <3>1, <3>6
        <4>2. y \in PathStates(F) /\ WithChild(x, g, y)
          <5>. HIDE DEF F
          <5>. QED
            BY <4>1, DeriveIs
        <4>3. ToSet(x.path) = ToSet(path)
          BY <4>1, FormsAre DEF forms
        <4>. HIDE DEF y
        <4>4. CASE g \notin ToSet(path)
          <5>1. y.path = x.path /\ y.all = x.all /\ ToSet(y.derived) = ToSet(x.derived) \cup {Append(x.path, g)}
                /\ y \in S
            BY <4>1, <4>2, <4>3, <4>4 DEF WithChild
          <5>2. \A c \in children : path = <<c>> => c # g
            <6>1. \A c \in children : path = <<c>> => c \in ToSet(path)
              BY Single
            <6>. QED
              BY <4>4, <6>1
          <5>. HIDE DEF S
          <5>. QED
            BY <3>1, <3>4, <3>6, <4>1, <4>4, <5>1, <5>2 DEF y
        <4>5. CASE g \in ToSet(path)
          <5>1. y.path = (IF x.path = <<g>> THEN <<g, g>> ELSE x.path) /\ y.derived = x.derived
                /\ ToSet(y.all) = ToSet(x.all) \cup {y.path}
            BY <4>2, <4>3, <4>5 DEF WithChild
          <5>2. y.path \in forms
            <6>1. ASSUME x.path = <<g>> PROVE <<g, g>> \in forms
              <7>1. x.path = path
                <8>1. Len(x.path) = 1
                  BY <6>1
                <8>2. Len(<<path[1], path[1]>>) = 2
                  OBVIOUS
                <8>. QED
                  BY <4>1, <8>1, <8>2 DEF forms, Forms
              <7>. QED
                BY <1>3, <3>6, <6>1, <7>1 DEF forms
            <6>. QED
              BY <4>1, <5>1, <6>1
          <5>3. y \in S
            <6>1. y.path # <<>>
              BY <5>2, FormsAre DEF forms
            <6>. QED
              BY <4>2, <6>1
          <5>4. path = <<g>> => x.path = path /\ y.path = <<g, g>>
            <6>1. n < g
              BY <3>3
            <6>. QED
              BY <3>1, <3>6, <5>1, <6>1
          <5>5. \A c \in children : path = <<c>> /\ g < c => FALSE
            <6>1. \A c \in children : path = <<c>> => ToSet(path) = {c}
              BY Single
            <6>. QED
              BY <3>3, <4>5, <6>1
          <5>. HIDE DEF S
          <5>6. \A c \in children : path = <<c>> /\ c <= g => <<c, c>> \in ToSet(y.all)
            BY <3>1, <3>4, <5>1, <5>4
          <5>7. \A c \in children : c \in ToSet(path) /\ c <= g => \E form \in forms : form \in ToSet(y.all)
            BY <5>1, <5>2
          <5>8. \A c \in children \ ToSet(path) : c <= g => \E form \in forms : Append(form, c) \in ToSet(y.derived)
            BY <3>1, <3>4, <4>5, <5>1
          <5>. QED
            BY <3>1, <5>1, <5>2, <5>3, <5>5, <5>6, <5>7, <5>8 DEF y
        <4>. QED
          BY <4>4, <4>5
      <3>7. J(g, upto[g])
        <4>. HIDE DEF J
        <4>. QED
          BY <3>2, <3>5, <3>6
      <3>. HIDE DEF J
      <3>. QED
        BY <3>3, <3>7
    <2>10. Max(children) \in children /\ (\A c \in children : c <= Max(children)) /\ Max(children) \in Nat
      <3>1. children \subseteq 0..N
        OBVIOUS
      <3>. HIDE DEF children
      <3>2. Max(children) \in children /\ \A c \in children : c <= Max(children)
        BY <1>5, <3>1, Largest
      <3>3. Max(children) \in 0..N
        BY <3>1, <3>2
      <3>. QED
        BY <3>2, <3>3
    <2>11. J(Max(children), new)
      <3>. HIDE DEF T
      <3>1. Max(children) \in T
        BY <2>8, <2>9, <2>10, Inductive
      <3>. HIDE DEF J, new
      <3>. QED
        BY <2>1, <3>1 DEF T
    <2>. HIDE DEF new
    <2>12. new \in PathStates(F)
      BY <2>11
    <2>13. children \subseteq ToSet(path) => \E form \in forms : form \in ToSet(new.all)
      BY <2>10, <2>11
    <2>. HIDE DEF S, children
    <2>. QED
      BY <2>10, <2>11, <2>12, <2>13 DEF new, forms, children, Lengthened
  <1>. QED
    BY <1>4, <1>5
LEMMA LengthenedAgain ==
  ASSUME NEW fwrg, NEW D, NEW d, NEW x, NEW y, NEW z,
         Lengthened(fwrg, D, x, y), Lengthened(fwrg, {d}, y, z)
  PROVE  Lengthened(fwrg, D \cup {d}, x, z)
  <1>1. ToSet(x.all) \subseteq ToSet(z.all) /\ ToSet(y.all) \subseteq ToSet(z.all)
        /\ ToSet(x.derived) \subseteq ToSet(z.derived) /\ ToSet(y.derived) \subseteq ToSet(z.derived)
    BY DEF Lengthened
  <1>2. ASSUME NEW q \in ToSet(z.all)
        PROVE  q \in ToSet(x.all) \/ \E e \in D \cup {d} : q \in Forms(e, Children(fwrg, e))
    BY DEF Lengthened
  <1>3. ASSUME NEW q \in ToSet(z.derived)
        PROVE  q \in ToSet(x.derived) \/ \E e \in D \cup {d} :
                 \E form \in Forms(e, Children(fwrg, e)), c \in Children(fwrg, e) \ ToSet(e) : q = Append(form, c)
    <2>1. CASE q \in ToSet(y.derived)
      BY <2>1 DEF Lengthened
    <2>2. CASE q \notin ToSet(y.derived)
      BY <2>2 DEF Lengthened
    <2>. QED
      BY <2>1, <2>2
  <1>4. ASSUME NEW e \in D \cup {d}
        PROVE  /\ \A c \in Children(fwrg, e) \ ToSet(e) :
                    \E form \in Forms(e, Children(fwrg, e)) : Append(form, c) \in ToSet(z.derived)
               /\ Children(fwrg, e) \subseteq ToSet(e) =>
                    \E form \in Forms(e, Children(fwrg, e)) : form \in ToSet(z.all)
               /\ \A c \in Children(fwrg, e) : e = <<c>> => <<c, c>> \in ToSet(z.all)
    <2>1. CASE e \in D
      BY <1>1, <2>1 DEF Lengthened
    <2>2. CASE e = d
      BY <2>2 DEF Lengthened
    <2>. QED
      BY <2>1, <2>2
  <1>. QED
    BY <1>1, <1>2, <1>3, <1>4 DEF Lengthened

\* So is each path of a round.
LEMMA LongerIs ==
  ASSUME NEW N \in Nat, NEW fwrg, \A f \in 1..N : Listed(fwrg, f) \subseteq 1..N,
         NEW p \in PathStates(1..N), \A q \in ToSet(p.derived) : q # <<>>
  PROVE  /\ Longer(fwrg, p) \in PathStates(1..N)
         /\ Lengthened(fwrg, ToSet(p.derived), [p EXCEPT !.derived = <<>>], Longer(fwrg, p))
  <1> DEFINE F == 1..N
  <1> DEFINE M == Len(p.derived)
  <1> DEFINE none == [p EXCEPT !.derived = <<>>]
  <1>1. p.derived \in Seq(Seq(F)) /\ M \in Nat /\ none \in PathStates(F)
    <2>. HIDE DEF F
    <2>1. p.path \in Seq(F) /\ p.all \in Seq(Seq(F)) /\ p.derived \in Seq(Seq(F))
      BY DEF PathStates, F
    <2>2. <<>> \in Seq(Seq(F)) /\ p \in PathStates(F)
      BY DEF F
    <2>3. none \in PathStates(F)
      BY <2>2 DEF PathStates
    <2>4. M \in Nat
      BY <2>1
    <2>. QED
      BY <2>1, <2>3, <2>4
  <1>2. ASSUME NEW n \in 1..M
        PROVE  p.derived[n] \in Seq(F) /\ p.derived[n] # <<>> /\ Children(fwrg, p.derived[n]) \subseteq F
    <2>1. p.derived[n] \in Seq(F) /\ p.derived[n] \in ToSet(p.derived)
      <3>1. ToSet(p.derived) = {p.derived[i] : i \in 1..M}
        <4>. HIDE DEF F
        <4>. QED
          BY <1>1, Elements
      <3>. QED
        BY <1>1, <3>1
    <2>2. Last(p.derived[n]) \in F
      BY <2>1 DEF Last
    <2>. QED
      BY <2>1, <2>2 DEF Children
  <1> DEFINE upto[n \in 0..M] == IF n = 0 THEN none ELSE DeriveAll(fwrg, upto[n - 1], p.derived[n])
  <1>3. Longer(fwrg, p) = upto[M]
    BY DEF Longer
  <1> DEFINE S == PathStates(F)
  <1> DEFINE step == [z \in Nat \X S |-> IF z[1] \in 1..M THEN DeriveAll(fwrg, z[2], p.derived[z[1]]) ELSE z[2]]
  <1>4. ASSUME NEW x \in S, NEW n \in 1..M
        PROVE  DeriveAll(fwrg, x, p.derived[n]) \in S
               /\ Lengthened(fwrg, {p.derived[n]}, x, DeriveAll(fwrg, x, p.derived[n]))
    BY <1>2, DeriveAllIs
  <1>. HIDE DEF M, none
  <1>5. step \in [Nat \X S -> S]
    BY <1>4
  <1>6. PICK f \in [0..M -> S] : Folds(f, 0..M, none, step)
    <2>. HIDE DEF step, S
    <2>. QED
      BY <1>1, <1>5, NumberPrefixes, Folding DEF S
  <1>7. ASSUME NEW x \in S, NEW n \in 0..M, n # 0
        PROVE  step[<<n, x>>] = DeriveAll(fwrg, x, p.derived[n])
    <2>1. <<n, x>> \in Nat \X S /\ n \in 1..M
      BY <1>1, <1>7
    <2>. QED
      BY <2>1
  <1>. HIDE DEF S, step
  <1>8. f = [n \in 0..M |-> IF n = 0 THEN none ELSE DeriveAll(fwrg, f[n - 1], p.derived[n])]
    <2>1. \A n \in 0..M : n # 0 => f[n - 1] \in S
      BY <1>1, <1>6
    <2>. QED
      BY <1>6, <1>7, <2>1 DEF Folds
  <1>9. upto = [n \in 0..M |-> IF n = 0 THEN none ELSE DeriveAll(fwrg, upto[n - 1], p.derived[n])]
    BY <1>8
  <1>. HIDE DEF upto
  <1> DEFINE D(n) == {p.derived[i] : i \in 1..n}
  <1> DEFINE T == {n \in Nat : n <= M => upto[n] \in S /\ Lengthened(fwrg, D(n), none, upto[n])}
  <1>10. 0 \in T
    <2>1. upto[0] = none
      BY <1>1, <1>9
    <2>2. D(0) = {}
      OBVIOUS
    <2>3. Lengthened(fwrg, {}, none, none)
      BY DEF Lengthened
    <2>. QED
      BY <1>1, <2>1, <2>2, <2>3 DEF S
  <1>11. ASSUME NEW n \in Nat, n \in T PROVE n + 1 \in T
    <2> SUFFICES ASSUME n + 1 <= M PROVE upto[n + 1] \in S /\ Lengthened(fwrg, D(n + 1), none, upto[n + 1])
      OBVIOUS
    <2>1. n + 1 \in 1..M /\ n + 1 \in 0..M /\ (n + 1) - 1 = n /\ n + 1 # 0
      BY <1>1
    <2>2. upto[n] \in S /\ Lengthened(fwrg, D(n), none, upto[n])
      BY <1>1, <1>11
    <2>3. upto[n + 1] = DeriveAll(fwrg, upto[n], p.derived[n + 1])
      BY <1>9, <2>1
    <2>4. upto[n + 1] \in S /\ Lengthened(fwrg, {p.derived[n + 1]}, upto[n], upto[n + 1])
      BY <1>4, <2>1, <2>2, <2>3
    <2>5. D(n + 1) = D(n) \cup {p.derived[n + 1]}
      <3>1. \A i \in 1..(n + 1) : i \in 1..n \/ i = n + 1
        OBVIOUS
      <3>2. n + 1 \in 1..(n + 1) /\ \A i \in 1..n : i \in 1..(n + 1)
        OBVIOUS
      <3>. QED
        BY <3>1, <3>2
    <2>. HIDE DEF D
    <2>6. Lengthened(fwrg, D(n) \cup {p.derived[n + 1]}, none, upto[n + 1])
      BY <2>2, <2>4, LengthenedAgain
    <2>. QED
      BY <2>4, <2>5, <2>6
  <1>. HIDE DEF T
  <1>12. M \in T
    BY <1>1, <1>10, <1>11, Inductive
  <1>13. upto[M] \in S /\ Lengthened(fwrg, D(M), none, upto[M])
    BY <1>1, <1>12 DEF T
  <1>14. D(M) = ToSet(p.derived)
    <2>1. ToSet(p.derived) = {p.derived[i] : i \in 1..M}
      <3>. HIDE DEF F
      <3>. QED
        BY <1>1, Elements DEF M
    <2>. QED
      BY <2>1
  <1>. HIDE DEF D
  <1>. QED
    BY <1>3, <1>13, <1>14 DEF S, none
\* The functions that chains of the graph lead to from s.
Level(U, fwrg, s) ==
  U[0] = {s} /\ \A n \in Nat : U[n + 1] = U[n] \cup UNION {Listed(fwrg, f) : f \in U[n]}

Found(x) == ToSet(x.all) \cup ToSet(x.derived)

\* The paths from s after n rounds.
Explored(N, fwrg, s, U, n, x) ==
  LET self == {s} \cap Listed(fwrg, s)
  IN  /\ x \in PathStates(1..N)
      /\ \A q \in Found(x) : q \in Seq(1..N) /\ q # <<>> /\ q[1] = s /\ Behind(q) \subseteq (U[n] \ {s}) \cup self
      /\ \A d \in U[n] \ {s} : \E q \in Found(x) : d \in Behind(q)
      /\ n # 0 => \A d \in self : \E q \in Found(x) : d \in Behind(q)
      /\ n = 0 => <<s>> \in ToSet(x.derived) /\ \A q \in Found(x) : Behind(q) = {}
      /\ \A d \in U[n] : (n # 0 => d \notin U[n - 1]) => \E q \in ToSet(x.derived) : Last(q) = d

\* What has been found after n rounds determines what is found after the next: the functions on
\* the paths are those that chains of n functions lead to.
LEMMA ExploredNext ==
  ASSUME NEW N \in Nat, NEW fwrg, \A f \in 1..N : Listed(fwrg, f) \subseteq 1..N, NEW s \in 1..N,
         NEW U \in [Nat -> SUBSET (1..N)], Level(U, fwrg, s), \A n \in Nat : s \in U[n],
         NEW n \in Nat, NEW x, Explored(N, fwrg, s, U, n, x)
  PROVE  Explored(N, fwrg, s, U, n + 1, Longer(fwrg, x))
  <1> DEFINE F == 1..N
  <1> DEFINE y == Longer(fwrg, x)
  <1> DEFINE self == {s} \cap Listed(fwrg, s)
  <1> DEFINE none == [x EXCEPT !.derived = <<>>]
  <1>1. x \in PathStates(F) /\ \A q \in ToSet(x.derived) : q # <<>>
    BY DEF Explored, Found
  <1>2. none.all = x.all /\ ToSet(none.derived) = {}
    BY <1>1, Single DEF PathStates
  <1>3. y \in PathStates(F) /\ Lengthened(fwrg, ToSet(x.derived), none, y)
    BY <1>1, LongerIs
  <1>. HIDE DEF y, none
  <1>4. ASSUME NEW q \in Found(x)
        PROVE  q \in Seq(F) /\ q # <<>> /\ q[1] = s /\ Behind(q) \subseteq (U[n] \ {s}) \cup self
    BY DEF Explored
  <1>5. ASSUME NEW q \in Found(x)
        PROVE  /\ ToSet(q) = Behind(q) \cup {s} /\ ToSet(q) \subseteq U[n] /\ Last(q) \in U[n] /\ Last(q) \in F
               /\ Len(q) = 1 => Last(q) = s
    <2>1. q \in Seq(F) /\ q # <<>> /\ q[1] = s
      BY <1>4
    <2>2. ToSet(q) = Behind(q) \cup {s} /\ ToSet(q) = {q[i] : i \in 1..Len(q)}
      <3>1. s \in F
        OBVIOUS
      <3>. HIDE DEF F
      <3>. QED
        BY <2>1, <3>1, Appended, Elements
    <2>3. Len(q) \in 1..Len(q) /\ q[Len(q)] \in F
      BY <2>1
    <2>. QED
      BY <1>4, <2>1, <2>2, <2>3 DEF Last
  <1>6. U[n + 1] = U[n] \cup UNION {Listed(fwrg, f) : f \in U[n]}
    BY DEF Level
  <1>7. ASSUME NEW q \in ToSet(x.derived), NEW form \in Forms(q, Children(fwrg, q))
        PROVE  /\ form \in Seq(F) /\ form # <<>> /\ form[1] = s /\ Behind(q) \subseteq Behind(form)
               /\ Behind(form) \subseteq (U[n] \ {s}) \cup self
    <2>1. q \in Found(x)
      BY DEF Found
    <2>2. q \in Seq(F) /\ q # <<>> /\ q[1] = s /\ Behind(q) \subseteq (U[n] \ {s}) \cup self
      BY <1>4, <2>1
    <2>3. /\ form \in Seq(F) /\ form # <<>> /\ form[1] = q[1] /\ Behind(q) \subseteq Behind(form)
          /\ Behind(form) \subseteq Behind(q) \cup (IF Len(q) = 1 THEN {q[1]} \cap Children(fwrg, q) ELSE {})
      <3>. HIDE DEF F
      <3>. QED
        BY <2>2, FormsAre
    <2>4. Len(q) = 1 => Children(fwrg, q) = Listed(fwrg, s)
      BY <1>5, <2>1 DEF Children
    <2>. QED
      BY <2>2, <2>3, <2>4
  <1>8. ASSUME NEW q \in ToSet(x.derived), NEW form \in Forms(q, Children(fwrg, q)),
               NEW c \in Children(fwrg, q) \ ToSet(q)
        PROVE  /\ Append(form, c) \in Seq(F) /\ Append(form, c) # <<>> /\ Append(form, c)[1] = s
               /\ Last(Append(form, c)) = c /\ Behind(Append(form, c)) = Behind(form) \cup {c}
               /\ c \in U[n + 1] /\ c # s
    <2>1. q \in Found(x)
      BY DEF Found
    <2>2. Last(q) \in U[n] /\ Last(q) \in F /\ s \in ToSet(q)
      BY <1>5, <2>1
    <2>3. c \in U[n + 1] /\ c # s /\ c \in F
      BY <1>6, <2>2 DEF Children
    <2>4. form \in Seq(F) /\ form # <<>> /\ form[1] = s
      BY <1>7
    <2>. HIDE DEF F
    <2>. QED
      BY <2>3, <2>4, Appended
  <1>9. ASSUME NEW q \in Found(y)
        PROVE  q \in Seq(F) /\ q # <<>> /\ q[1] = s /\ Behind(q) \subseteq (U[n + 1] \ {s}) \cup self
    <2>1. CASE q \in ToSet(x.all)
      <3>1. q \in Found(x)
        BY <2>1 DEF Found
      <3>. QED
        BY <1>4, <1>6, <3>1
    <2>2. CASE \E d \in ToSet(x.derived) : q \in Forms(d, Children(fwrg, d))
      BY <1>6, <1>7, <2>2
    <2>3. CASE \E d \in ToSet(x.derived) : \E form \in Forms(d, Children(fwrg, d)), c \in Children(fwrg, d) \ ToSet(d) :
                 q = Append(form, c)
      <3>0. PICK d \in ToSet(x.derived) :
              \E form \in Forms(d, Children(fwrg, d)), c \in Children(fwrg, d) \ ToSet(d) : q = Append(form, c)
        BY <2>3
      <3>1. PICK form \in Forms(d, Children(fwrg, d)), c \in Children(fwrg, d) \ ToSet(d) : q = Append(form, c)
        BY <3>0
      <3>2. Behind(form) \subseteq (U[n] \ {s}) \cup self
        BY <1>7
      <3>3. /\ q \in Seq(F) /\ q # <<>> /\ q[1] = s /\ Behind(q) = Behind(form) \cup {c}
            /\ c \in U[n + 1] /\ c # s
        BY <1>8, <3>1
      <3>. QED
        BY <1>6, <3>2, <3>3
    <2>4. q \in ToSet(y.all) \/ q \in ToSet(y.derived)
      BY DEF Found
    <2>. QED
      BY <1>2, <1>3, <2>1, <2>2, <2>3, <2>4 DEF Lengthened
  <1>10. ASSUME NEW q \in Found(x) PROVE \E r \in Found(y) : Behind(q) \subseteq Behind(r)
    <2>1. CASE q \in ToSet(x.all)
      <3>1. q \in ToSet(y.all)
        BY <1>2, <1>3, <2>1 DEF Lengthened
      <3>. QED
        BY <3>1 DEF Found
    <2>2. CASE q \in ToSet(x.derived) /\ Children(fwrg, q) \subseteq ToSet(q)
      <3>1. PICK form \in Forms(q, Children(fwrg, q)) : form \in ToSet(y.all)
        BY <1>3, <2>2 DEF Lengthened
      <3>. QED
        BY <1>7, <2>2, <3>1 DEF Found
    <2>3. CASE q \in ToSet(x.derived) /\ ~(Children(fwrg, q) \subseteq ToSet(q))
      <3>1. PICK c \in Children(fwrg, q) \ ToSet(q) : TRUE
        BY <2>3
      <3>2. PICK form \in Forms(q, Children(fwrg, q)) : Append(form, c) \in ToSet(y.derived)
        BY <1>3, <2>3 DEF Lengthened
      <3>3. Behind(Append(form, c)) = Behind(form) \cup {c} /\ Behind(q) \subseteq Behind(form)
        BY <1>7, <1>8, <2>3
      <3>. QED
        BY <3>2, <3>3 DEF Found
    <2>. QED
      BY <2>1, <2>2, <2>3 DEF Found
  <1>11. ASSUME NEW d \in U[n + 1], d \notin U[n]
         PROVE  \E q \in ToSet(y.derived) : Last(q) = d /\ d \in Behind(q)
    <2>1. PICK f \in U[n] : d \in Listed(fwrg, f)
      BY <1>6, <1>11
    <2>2. n # 0 => f \notin U[n - 1]
      <3> SUFFICES ASSUME n # 0, f \in U[n - 1] PROVE FALSE
        OBVIOUS
      <3>1. n - 1 \in Nat /\ (n - 1) + 1 = n
        OBVIOUS
      <3>2. U[n] = U[n - 1] \cup UNION {Listed(fwrg, e) : e \in U[n - 1]}
        BY <3>1 DEF Level
      <3>. QED
        BY <1>11, <2>1, <3>2
    <2>3. PICK q \in ToSet(x.derived) : Last(q) = f
      BY <2>1, <2>2 DEF Explored
    <2>4. q \in Found(x)
      BY DEF Found
    <2>5. d \in Children(fwrg, q) \ ToSet(q)
      BY <1>5, <1>11, <2>1, <2>3, <2>4 DEF Children
    <2>6. PICK form \in Forms(q, Children(fwrg, q)) : Append(form, d) \in ToSet(y.derived)
      BY <1>3, <2>5 DEF Lengthened
    <2>. QED
      BY <1>8, <2>5, <2>6
  <1>12. ASSUME NEW d \in U[n + 1] \ {s} PROVE \E q \in Found(y) : d \in Behind(q)
    <2>1. CASE d \in U[n]
      <3>1. PICK q \in Found(x) : d \in Behind(q)
        BY <2>1 DEF Explored
      <3>. QED
        BY <1>10, <3>1
    <2>2. CASE d \notin U[n]
      BY <1>11, <2>2 DEF Found
    <2>. QED
      BY <2>1, <2>2
  <1>13. ASSUME NEW d \in self PROVE \E q \in Found(y) : d \in Behind(q)
    <2>1. CASE n # 0
      <3>1. PICK q \in Found(x) : d \in Behind(q)
        BY <2>1 DEF Explored
      <3>. QED
        BY <1>10, <3>1
    <2>2. CASE n = 0
      <3>1. <<s>> \in ToSet(x.derived) /\ Children(fwrg, <<s>>) = Listed(fwrg, s)
        BY <2>2 DEF Explored, Children, Last
      <3>2. <<s, s>> \in ToSet(y.all)
        BY <1>3, <3>1 DEF Lengthened
      <3>3. s \in Behind(<<s, s>>)
        BY DEF Behind
      <3>. QED
        BY <3>2, <3>3 DEF Found
    <2>. QED
      BY <2>1, <2>2
  <1>14. n + 1 # 0 /\ (n + 1) - 1 = n
    OBVIOUS
  <1>. QED
    BY <1>3, <1>9, <1>11, <1>12, <1>13, <1>14 DEF Explored, y
\* The functions behind the first one on the paths are exactly those that the levels contain, and
\* the first one where it depends on itself and there is a round.
LEMMA PathsAre ==
  ASSUME NEW N \in Nat, NEW fwrg, \A f \in 1..N : Listed(fwrg, f) \subseteq 1..N, NEW s \in 1..N,
         NEW U \in [Nat -> SUBSET (1..N)], Level(U, fwrg, s), NEW rounds \in Nat
  PROVE  /\ Paths(fwrg, s, rounds) \in Seq(Seq(1..N))
         /\ \A q \in ToSet(Paths(fwrg, s, rounds)) : q # <<>>
         /\ \A d : (\E q \in ToSet(Paths(fwrg, s, rounds)) : d \in Behind(q))
                   <=> d \in U[rounds] \ {s} \/ (rounds # 0 /\ d = s /\ s \in Listed(fwrg, s))
  <1> DEFINE F == 1..N
  <1> DEFINE start == [path |-> <<>>, all |-> <<>>, derived |-> <<<<s>>>>]
  <1> DEFINE after[n \in Nat] == IF n = 0 THEN start ELSE Longer(fwrg, after[n - 1])
  <1> DEFINE S == {x \in PathStates(F) : \A q \in ToSet(x.derived) : q # <<>>}
  <1> DEFINE step == [z \in Nat \X S |-> Longer(fwrg, z[2])]
  <1>1. start \in S /\ ToSet(start.all) = {} /\ ToSet(start.derived) = {<<s>>}
    <2>1. <<s>> \in Seq(F) /\ <<<<s>>>> \in Seq(Seq(F)) /\ <<>> \in Seq(F) /\ <<>> \in Seq(Seq(F)) /\ <<s>> # <<>>
      OBVIOUS
    <2>. HIDE DEF F
    <2>2. ToSet(<<<<s>>>>) = {<<s>>} /\ ToSet(<<>>) = {}
      BY <2>1, Single
    <2>. QED
      BY <2>1, <2>2 DEF PathStates
  <1>2. ASSUME NEW x \in S PROVE Longer(fwrg, x) \in S
    <2> DEFINE none == [x EXCEPT !.derived = <<>>]
    <2>1. x \in PathStates(F) /\ \A q \in ToSet(x.derived) : q # <<>>
      OBVIOUS
    <2>2. Longer(fwrg, x) \in PathStates(F) /\ Lengthened(fwrg, ToSet(x.derived), none, Longer(fwrg, x))
      BY <2>1, LongerIs
    <2>3. ToSet(none.derived) = {}
      BY <2>1, Single DEF PathStates
    <2>. HIDE DEF none
    <2>4. ASSUME NEW q \in ToSet(Longer(fwrg, x).derived) PROVE q # <<>>
      <3>1. PICK d \in ToSet(x.derived) :
              \E form \in Forms(d, Children(fwrg, d)), c \in Children(fwrg, d) \ ToSet(d) : q = Append(form, c)
        BY <2>2, <2>3 DEF Lengthened
      <3>2. PICK form \in Forms(d, Children(fwrg, d)), c \in Children(fwrg, d) \ ToSet(d) : q = Append(form, c)
        BY <3>1
      <3>3. d \in Seq(F) /\ d # <<>>
        <4>1. x.derived \in Seq(Seq(F))
          BY <2>1 DEF PathStates
        <4>. HIDE DEF F
        <4>2. ToSet(x.derived) \subseteq Seq(F)
          BY <4>1, Elements
        <4>. QED
          BY <2>1, <4>2
      <3>4. form \in Seq(F)
        <4>. HIDE DEF F
        <4>. QED
          BY <3>3, FormsAre
      <3>5. Last(d) \in F
        BY <3>3 DEF Last
      <3>6. c \in F
        BY <3>5 DEF Children
      <3>. HIDE DEF F
      <3>. QED
        BY <3>2, <3>4, <3>6
    <2>. QED
      BY <2>2, <2>4
  <1>3. after = [n \in Nat |-> IF n = 0 THEN start ELSE Longer(fwrg, after[n - 1])]
    <2>. HIDE DEF S, start
    <2>1. step \in [Nat \X S -> S]
      BY <1>2
    <2>2. PICK f \in [Nat -> S] : Folds(f, Nat, start, step)
      <3>. HIDE DEF step
      <3>. QED
        BY <1>1, <2>1, NumberPrefixes, Folding
    <2>3. \A n \in Nat : n # 0 => f[n - 1] \in S /\ step[<<n, f[n - 1]>>] = Longer(fwrg, f[n - 1])
      OBVIOUS
    <2>. HIDE DEF step
    <2>4. f = [n \in Nat |-> IF n = 0 THEN start ELSE Longer(fwrg, f[n - 1])]
      BY <2>2, <2>3 DEF Folds
    <2>. QED
      BY <2>4
  <1>4. Paths(fwrg, s, rounds) = after[rounds].all \o after[rounds].derived
    BY DEF Paths
  <1>5. U[0] = {s} /\ \A n \in Nat : s \in U[n]
    <2> DEFINE T == {n \in Nat : s \in U[n]}
    <2>1. 0 \in T /\ \A n \in Nat : n \in T => n + 1 \in T
      BY DEF Level
    <2>. HIDE DEF T
    <2>2. \A n \in Nat : n \in T
      BY <2>1, Inductive
    <2>. QED
      BY <2>2 DEF T, Level
  <1>. HIDE DEF after
  <1> DEFINE T == {n \in Nat : Explored(N, fwrg, s, U, n, after[n])}
  <1>6. 0 \in T
    <2>1. after[0] = start
      BY <1>3
    <2>2. Found(start) = {<<s>>} /\ <<s>> \in Seq(F) /\ <<s>> # <<>> /\ <<s>>[1] = s /\ Behind(<<s>>) = {}
          /\ Last(<<s>>) = s
      BY <1>1 DEF Found, Behind, Last
    <2>3. start \in PathStates(F)
      BY <1>1
    <2>. HIDE DEF start
    <2>4. Explored(N, fwrg, s, U, 0, start)
      BY <1>1, <1>5, <2>2, <2>3 DEF Explored
    <2>. QED
      BY <2>1, <2>4
  <1>7. ASSUME NEW n \in Nat, n \in T PROVE n + 1 \in T
    <2>1. Explored(N, fwrg, s, U, n, after[n])
      BY <1>7
    <2>2. Explored(N, fwrg, s, U, n + 1, Longer(fwrg, after[n]))
      BY <1>5, <2>1, ExploredNext
    <2>3. after[n + 1] = Longer(fwrg, after[n])
      BY <1>3
    <2>. QED
      BY <2>2, <2>3
  <1>. HIDE DEF T
  <1>8. rounds \in T
    BY <1>6, <1>7, Inductive
  <1> DEFINE end == after[rounds]
  <1>9. Explored(N, fwrg, s, U, rounds, end)
    BY <1>8 DEF T
  <1>. HIDE DEF end
  <1>10. end \in PathStates(F)
    BY <1>9 DEF Explored
  <1>11. ToSet(end.all \o end.derived) = Found(end) /\ end.all \o end.derived \in Seq(Seq(F))
    <2>1. end.all \in Seq(Seq(F)) /\ end.derived \in Seq(Seq(F))
      BY <1>10 DEF PathStates
    <2>. HIDE DEF F
    <2>2. \A t \in Seq(Seq(F)) : ToSet(end.all \o t) = ToSet(end.all) \cup ToSet(t)
      BY <2>1, Elements
    <2>. QED
      BY <2>1, <2>2 DEF Found
  <1>12. Paths(fwrg, s, rounds) = end.all \o end.derived
    BY <1>4 DEF end
  <1>13. CASE rounds = 0
    <2>1. U[0] = {s} /\ \A q \in Found(end) : Behind(q) = {}
      BY <1>5, <1>9, <1>13 DEF Explored
    <2>2. \A q \in Found(end) : q # <<>>
      BY <1>9 DEF Explored
    <2>. QED
      BY <1>11, <1>12, <1>13, <2>1, <2>2
  <1>14. CASE rounds # 0
    BY <1>9, <1>11, <1>12, <1>14 DEF Explored
  <1>. QED
    BY <1>13, <1>14

\* Where a path is cut behind a deep function.
CutsOf(p, dk) == {SubSeq(p, 1, n) : n \in {k \in 2..Len(p) : p[k] = dk}}

\* The values of the places in K.
Selected(S, v, K, s) == s \in Seq(S) /\ ToSet(s) = {v[i] : i \in K}

LEMMA Selecting ==
  ASSUME NEW S, NEW n \in Nat, NEW v \in [1..n -> S], NEW K, K \subseteq 1..n,
         NEW ss, ss = [i \in 1..n |-> IF i \in K THEN <<v[i]>> ELSE <<>>]
  PROVE  Selected(S, v, K, FlattenSeq(ss))
  <1>1. ss \in [1..n -> Seq(S)]
    OBVIOUS
  <1>2. \A i \in 1..n : ToSet(ss[i]) = IF i \in K THEN {v[i]} ELSE {}
    <2>1. \A i \in 1..n : ToSet(<<v[i]>>) = {v[i]} /\ ToSet(<<>>) = {}
      BY Single
    <2>. QED
      BY <2>1
  <1>3. \A t \in [1..n -> Seq(S)] : FlattenSeq(t) \in Seq(S) /\ ToSet(FlattenSeq(t)) = UNION {ToSet(t[i]) : i \in 1..n}
    BY Flattened
  <1>4. UNION {ToSet(ss[i]) : i \in 1..n} = {v[i] : i \in K}
    <2>1. \A i \in K : i \in 1..n /\ v[i] \in ToSet(ss[i])
      BY <1>2
    <2>2. \A i \in 1..n : \A x \in ToSet(ss[i]) : i \in K /\ x = v[i]
      BY <1>2
    <2>3. \A x : x \in UNION {ToSet(ss[i]) : i \in 1..n} <=> \E i \in 1..n : x \in ToSet(ss[i])
      OBVIOUS
    <2>4. \A x : (\E i \in 1..n : x \in ToSet(ss[i])) <=> \E i \in K : x = v[i]
      BY <2>1, <2>2
    <2>. QED
      BY <2>3, <2>4
  <1>. QED
    BY <1>1, <1>3, <1>4 DEF Selected

LEMMA EmptySequence ==
  ASSUME NEW S, NEW s \in Seq(S)
  PROVE  s = <<>> <=> ToSet(s) = {}
  <1>1. ToSet(s) = {s[i] : i \in 1..Len(s)} /\ Len(s) \in Nat
    BY Elements
  <1>2. s # <<>> => 1 \in 1..Len(s)
    OBVIOUS
  <1>3. ToSet(<<>>) = {}
    BY Single
  <1>. QED
    BY <1>1, <1>2, <1>3

\* organize_paths orders the cuts; it loses none.
LEMMA OrganizedAre ==
  ASSUME NEW F, NEW paths \in Seq(Seq(F)), NEW dk
  PROVE  /\ organize_paths(paths, dk) \in Seq(Seq(F))
         /\ ToSet(organize_paths(paths, dk)) = UNION {CutsOf(p, dk) : p \in ToSet(paths)}
  <1> DEFINE Cuts(path) ==
        FlattenSeq([n \in DOMAIN path |-> IF n > 1 /\ path[n] = dk THEN <<SubSeq(path, 1, n)>> ELSE <<>>])
      all == FlattenSeq([n \in DOMAIN paths |-> Cuts(paths[n])])
      found == Distinct(all)
      lengths == Distinct([n \in DOMAIN found |-> Len(found[n])])
      OfLength(l) == FlattenSeq([n \in DOMAIN found |-> IF Len(found[n]) = l THEN <<found[n]>> ELSE <<>>])
      result == FlattenSeq([k \in DOMAIN lengths |-> OfLength(lengths[k])])
  <1>1. organize_paths(paths, dk) = result
    BY DEF organize_paths
  <1>2. ASSUME NEW p \in Seq(F) PROVE Cuts(p) \in Seq(Seq(F)) /\ ToSet(Cuts(p)) = CutsOf(p, dk)
    <2> DEFINE v == [n \in 1..Len(p) |-> SubSeq(p, 1, n)]
    <2> DEFINE K == {k \in 2..Len(p) : p[k] = dk}
    <2>1. v \in [1..Len(p) -> Seq(F)] /\ K \subseteq 1..Len(p) /\ Len(p) \in Nat
      OBVIOUS
    <2> DEFINE ss == [n \in DOMAIN p |-> IF n > 1 /\ p[n] = dk THEN <<SubSeq(p, 1, n)>> ELSE <<>>]
    <2>2. Cuts(p) = FlattenSeq(ss) /\ ss = [i \in 1..Len(p) |-> IF i \in K THEN <<v[i]>> ELSE <<>>]
      <3>1. DOMAIN p = 1..Len(p)
        OBVIOUS
      <3>2. \A i \in 1..Len(p) : v[i] = SubSeq(p, 1, i) /\ (i \in K <=> i > 1 /\ p[i] = dk)
        BY <2>1
      <3>. HIDE DEF v, K
      <3>3. ss = [i \in 1..Len(p) |-> IF i \in K THEN <<v[i]>> ELSE <<>>]
        BY <3>1, <3>2
      <3>. QED
        BY <3>3
    <2>3. CutsOf(p, dk) = {v[i] : i \in K}
      <3>1. \A n \in K : v[n] = SubSeq(p, 1, n)
        OBVIOUS
      <3>. HIDE DEF v
      <3>. QED
        BY <3>1 DEF CutsOf
    <2>. HIDE DEF v, K, Cuts, ss
    <2>4. Selected(Seq(F), v, K, FlattenSeq(ss))
      BY <2>1, <2>2, Selecting
    <2>. QED
      BY <2>2, <2>3, <2>4 DEF Selected
  <1>. HIDE DEF Cuts
  <1> DEFINE n0 == Len(paths)
  <1>3. n0 \in Nat /\ DOMAIN paths = 1..n0 /\ \A i \in 1..n0 : paths[i] \in Seq(F)
    OBVIOUS
  <1>4. all \in Seq(Seq(F)) /\ ToSet(all) = UNION {CutsOf(p, dk) : p \in ToSet(paths)}
    <2> DEFINE ss == [n \in 1..n0 |-> Cuts(paths[n])]
    <2>1. ss \in [1..n0 -> Seq(Seq(F))] /\ all = FlattenSeq(ss)
      BY <1>2, <1>3
    <2>2. \A n \in 1..n0 : ToSet(ss[n]) = CutsOf(paths[n], dk)
      BY <1>2, <1>3
    <2>. HIDE DEF ss, n0
    <2>3. all \in Seq(Seq(F)) /\ ToSet(all) = UNION {ToSet(ss[i]) : i \in 1..n0}
      <3>1. \A t \in [1..n0 -> Seq(Seq(F))] :
              FlattenSeq(t) \in Seq(Seq(F)) /\ ToSet(FlattenSeq(t)) = UNION {ToSet(t[i]) : i \in 1..n0}
        BY <1>3, Flattened
      <3>. QED
        BY <2>1, <3>1
    <2>4. ToSet(paths) = {paths[i] : i \in 1..n0}
      BY Elements DEF n0
    <2>5. UNION {ToSet(ss[i]) : i \in 1..n0} = UNION {CutsOf(p, dk) : p \in {paths[i] : i \in 1..n0}}
      BY <2>2
    <2>. QED
      BY <2>3, <2>4, <2>5
  <1>. HIDE DEF all, n0
  <1>5. found \in Seq(Seq(F)) /\ ToSet(found) = ToSet(all)
    BY <1>4, DistinctIs
  <1>. HIDE DEF found
  <1> DEFINE m == Len(found)
  <1>6. m \in Nat /\ DOMAIN found = 1..m /\ (\A i \in 1..m : found[i] \in Seq(F) /\ Len(found[i]) \in Nat)
        /\ ToSet(found) = {found[i] : i \in 1..m}
    <2>1. m \in Nat /\ DOMAIN found = 1..m
      BY <1>5
    <2>2. \A i \in 1..m : found[i] \in Seq(F)
      BY <1>5
    <2>3. ToSet(found) = {found[i] : i \in 1..m}
      BY <1>5, Elements
    <2>. QED
      BY <2>1, <2>2, <2>3
  <1>7. lengths \in Seq(Nat) /\ ToSet(lengths) = {Len(found[i]) : i \in 1..m}
    <2> DEFINE ls == [n \in 1..m |-> Len(found[n])]
    <2>1. ls \in Seq(Nat) /\ lengths = Distinct(ls) /\ Len(ls) = m
      BY <1>6
    <2>2. ToSet(ls) = {ls[i] : i \in 1..m}
      <3>. HIDE DEF ls
      <3>1. ToSet(ls) = {ls[i] : i \in 1..Len(ls)}
        BY <2>1, Elements
      <3>. QED
        BY <2>1, <3>1
    <2>3. ToSet(ls) = {Len(found[i]) : i \in 1..m}
      BY <2>2
    <2>. HIDE DEF ls, lengths, m
    <2>. QED
      BY <2>1, <2>3, DistinctIs
  <1>. HIDE DEF lengths, m
  <1>8. ASSUME NEW l PROVE OfLength(l) \in Seq(Seq(F)) /\ ToSet(OfLength(l)) = {found[i] : i \in {j \in 1..m : Len(found[j]) = l}}
    <2> DEFINE K == {j \in 1..m : Len(found[j]) = l}
    <2> DEFINE ss == [n \in DOMAIN found |-> IF Len(found[n]) = l THEN <<found[n]>> ELSE <<>>]
    <2>1. ss = [i \in 1..m |-> IF i \in K THEN <<found[i]>> ELSE <<>>]
      BY <1>6
    <2>2. found \in [1..m -> Seq(F)]
      BY <1>5, <1>6
    <2>3. K \subseteq 1..m
      OBVIOUS
    <2>4. OfLength(l) = FlattenSeq(ss)
      OBVIOUS
    <2>. HIDE DEF K, OfLength, ss
    <2>5. Selected(Seq(F), found, K, FlattenSeq(ss))
      BY <1>6, <2>1, <2>2, <2>3, Selecting
    <2>. QED
      BY <2>4, <2>5 DEF K, Selected
  <1>. HIDE DEF OfLength
  <1> DEFINE r == Len(lengths)
  <1>9. r \in Nat /\ DOMAIN lengths = 1..r /\ ToSet(lengths) = {lengths[k] : k \in 1..r}
    <2>1. lengths \in Seq(Nat)
      BY <1>7
    <2>2. ToSet(lengths) = {lengths[k] : k \in 1..Len(lengths)}
      BY <2>1, Elements
    <2>. QED
      BY <2>1, <2>2
  <1> DEFINE ss == [k \in 1..r |-> OfLength(lengths[k])]
  <1>10. ss \in [1..r -> Seq(Seq(F))] /\ result = FlattenSeq(ss)
    BY <1>8, <1>9
  <1>11. \A k \in 1..r : ToSet(ss[k]) = {found[i] : i \in {j \in 1..m : Len(found[j]) = lengths[k]}}
    BY <1>8
  <1>. HIDE DEF ss, result, r
  <1>12. result \in Seq(Seq(F)) /\ ToSet(result) = UNION {ToSet(ss[k]) : k \in 1..r}
    BY <1>9, <1>10, Flattened
  <1>13. UNION {ToSet(ss[k]) : k \in 1..r} = ToSet(found)
    <2>1. ASSUME NEW e \in ToSet(found) PROVE \E k \in 1..r : e \in ToSet(ss[k])
      <3>1. PICK i \in 1..m : e = found[i]
        BY <1>6
      <3>2. PICK k \in 1..r : lengths[k] = Len(found[i])
        BY <1>7, <1>9
      <3>. QED
        BY <1>11, <3>1, <3>2
    <2>2. ASSUME NEW k \in 1..r, NEW e \in ToSet(ss[k]) PROVE e \in ToSet(found)
      <3>1. PICK i \in {j \in 1..m : Len(found[j]) = lengths[k]} : e = found[i]
        BY <1>11
      <3>. QED
        BY <1>6, <3>1
    <2>. QED
      BY <2>1, <2>2
  <1>. QED
    BY <1>1, <1>4, <1>5, <1>12, <1>13

-------------------------------------------------------------------------------
(* Chains *)

\* One level more.
Wider(fwrg, t) == t \cup UNION {Listed(fwrg, f) : f \in t}

Levels(U, fwrg, starting) == U[0] = starting /\ \A n \in Nat : U[n + 1] = Wider(fwrg, U[n])

LEMMA LevelsExist ==
  ASSUME NEW N \in Nat, NEW fwrg, \A f \in 1..N : Listed(fwrg, f) \subseteq 1..N, NEW starting \in SUBSET (1..N)
  PROVE  \E U \in [Nat -> SUBSET (1..N)] : Levels(U, fwrg, starting)
  <1> DEFINE S == SUBSET (1..N)
  <1> DEFINE wider(t) == Wider(fwrg, t)
  <1> DEFINE step == [z \in Nat \X S |-> wider(z[2])]
  <1>1. \A t \in S : wider(t) \in S
    BY DEF Wider
  <1>2. step \in [Nat \X S -> S]
    BY <1>1
  <1>3. PICK U \in [Nat -> S] : Folds(U, Nat, starting, step)
    <2>. HIDE DEF step, S
    <2>1. starting \in S
      BY DEF S
    <2>. QED
      BY <1>2, <2>1, NumberPrefixes, Folding
  <1>4. \A n \in Nat : n # 0 => U[n - 1] \in S /\ step[<<n, U[n - 1]>>] = wider(U[n - 1])
    OBVIOUS
  <1>. HIDE DEF step, S, wider
  <1>5. U = [k \in Nat |-> IF k = 0 THEN starting ELSE wider(U[k - 1])]
    BY <1>3, <1>4 DEF Folds
  <1>6. U[0] = starting /\ \A n \in Nat : U[n + 1] = wider(U[n])
    <2>1. \A n \in Nat : n + 1 # 0 /\ (n + 1) - 1 = n /\ n + 1 \in Nat
      OBVIOUS
    <2>. QED
      BY <1>5, <2>1
  <1>7. U \in [Nat -> SUBSET (1..N)]
    BY DEF S
  <1>. QED
    BY <1>6, <1>7 DEF Levels, wider

Chains(U, starting) == \A n \in Nat : Chain(starting, n + 1) = U[n]

\* Chain, the reference of TargetsFound, has the levels of the graph.
LEMMA ChainIs ==
  ASSUME NEW N \in Nat, NEW fwrg, \A f \in 1..N : Listed(fwrg, f) \subseteq 1..N /\ Dependent(f) = Listed(fwrg, f),
         NEW starting \in SUBSET (1..N)
  PROVE  \E U \in [Nat -> SUBSET (1..N)] :
           Levels(U, fwrg, starting) /\ Chains(U, starting)
  <1>0. \A f \in 1..N : Listed(fwrg, f) \subseteq 1..N
    OBVIOUS
  <1>1. PICK U \in [Nat -> SUBSET (1..N)] : Levels(U, fwrg, starting)
    BY <1>0, LevelsExist
  <1> DEFINE upto[k \in Nat] ==
        IF k = 0 THEN starting ELSE LET t == upto[k - 1] IN t \cup UNION {Dependent(f) : f \in t}
  <1> DEFINE wide(t) == t \cup UNION {Dependent(f) : f \in t}
  <1> DEFINE V(n) == IF n = 0 THEN starting ELSE wide(U[n - 1])
  <1>2. \A n \in Nat : U[n] = V(n)
    <2> SUFFICES ASSUME NEW n \in Nat PROVE U[n] = V(n)
      OBVIOUS
    <2>1. CASE n = 0
      BY <1>1, <2>1 DEF Levels
    <2>2. CASE n # 0
      <3>1. n - 1 \in Nat /\ (n - 1) + 1 = n
        BY <2>2
      <3>2. U[n - 1] \subseteq 1..N /\ U[n] = Wider(fwrg, U[n - 1])
        <4>1. \A k \in Nat : U[k] \subseteq 1..N /\ U[k + 1] = Wider(fwrg, U[k])
          BY <1>1 DEF Levels
        <4>. QED
          BY <3>1, <4>1
      <3>3. {Listed(fwrg, f) : f \in U[n - 1]} = {Dependent(f) : f \in U[n - 1]}
        BY <3>2
      <3>. QED
        BY <2>2, <3>2, <3>3 DEF Wider
    <2>. QED
      BY <2>1, <2>2
  <1>3. U = [k \in Nat |-> V(k)]
    <2>1. U = [k \in Nat |-> U[k]]
      BY <1>1
    <2>. HIDE DEF V
    <2>. QED
      BY <1>2, <2>1
  <1>4. upto = [k \in Nat |-> IF k = 0 THEN starting ELSE LET t == upto[k - 1] IN t \cup UNION {Dependent(f) : f \in t}]
    BY <1>3
  <1>5. \A n \in Nat : Chain(starting, n + 1) = upto[n]
    <2>1. \A n \in Nat : (n + 1) - 1 = n
      OBVIOUS
    <2>2. \A n : Chain(starting, n) = upto[n - 1]
      BY DEF Chain
    <2>. HIDE DEF upto
    <2>. QED
      BY <2>1, <2>2
  <1>. HIDE DEF upto
  <1> DEFINE T == {n \in Nat : upto[n] = U[n]}
  <1>6. 0 \in T
    BY <1>1, <1>4 DEF Levels
  <1>7. ASSUME NEW n \in Nat, n \in T PROVE n + 1 \in T
    <2>1. n + 1 # 0 /\ (n + 1) - 1 = n /\ upto[n] = U[n]
      BY <1>7
    <2>2. upto[n + 1] = wide(upto[n])
      BY <1>4, <2>1
    <2>3. U[n + 1] = wide(U[n])
      <3>. HIDE DEF wide
      <3>. QED
        BY <1>3, <2>1
    <2>. HIDE DEF wide
    <2>. QED
      BY <2>1, <2>2, <2>3
  <1>. HIDE DEF T
  <1>8. \A n \in Nat : n \in T
    BY <1>6, <1>7, Inductive
  <1>. QED
    BY <1>1, <1>5, <1>8 DEF T, Chains

\* A chain from several functions starts in one of them.
Unites(U, V, starting) == \A n \in Nat : \A f : f \in U[n] <=> \E s \in starting : f \in V[s][n]

\* The levels of several functions are the unions of the levels of each.
LEMMA LevelsUnion ==
  ASSUME NEW N \in Nat, NEW fwrg, NEW starting \in SUBSET (1..N),
         NEW U \in [Nat -> SUBSET (1..N)], Levels(U, fwrg, starting),
         NEW V, \A s \in starting : Level(V[s], fwrg, s)
  PROVE  Unites(U, V, starting)
  <1> DEFINE T == {n \in Nat : \A f : f \in U[n] <=> \E s \in starting : f \in V[s][n]}
  <1>1. 0 \in T
    BY DEF Levels, Level
  <1>2. ASSUME NEW n \in Nat, n \in T PROVE n + 1 \in T
    <2> SUFFICES ASSUME NEW f PROVE f \in U[n + 1] <=> \E s \in starting : f \in V[s][n + 1]
      OBVIOUS
    <2>1. \A g : g \in U[n] <=> \E s \in starting : g \in V[s][n]
      BY <1>2
    <2>2. f \in U[n + 1] <=> f \in U[n] \/ \E g \in U[n] : f \in Listed(fwrg, g)
      BY DEF Levels, Wider
    <2>3. ASSUME NEW s \in starting
          PROVE  f \in V[s][n + 1] <=> f \in V[s][n] \/ \E g \in V[s][n] : f \in Listed(fwrg, g)
      <3>1. V[s][n + 1] = V[s][n] \cup UNION {Listed(fwrg, g) : g \in V[s][n]}
        BY DEF Level
      <3>. QED
        BY <3>1
    <2>. QED
      BY <2>1, <2>2, <2>3
  <1>. HIDE DEF T
  <1>3. \A n \in Nat : n \in T
    BY <1>1, <1>2, Inductive
  <1>. QED
    BY <1>3 DEF T, Unites

\* The paths from the functions that start sequences.
AllPaths(fwrg, start_functions) == UNION {ToSet(derive_paths(fwrg, s)) : s \in ToSet(start_functions)}

LEMMA DerivedPaths ==
  ASSUME NEW N \in Nat, NEW fwrg, \A f \in 1..N : Listed(fwrg, f) \subseteq 1..N, NEW s \in 1..N,
         NEW U \in [Nat -> SUBSET (1..N)], Levels(U, fwrg, {s})
  PROVE  /\ derive_paths(fwrg, s) \in Seq(Seq(1..N))
         /\ \A d : (\E q \in ToSet(derive_paths(fwrg, s)) : d \in Behind(q))
                   <=> d \in U[seq_len_limit - 1] \ {s} \/ (seq_len_limit > 1 /\ d = s /\ s \in Listed(fwrg, s))
  <1> DEFINE rounds == seq_len_limit - 1
  <1>1. rounds \in Nat /\ (rounds # 0 <=> seq_len_limit > 1)
    BY LimitAssumption
  <1>2. Level(U, fwrg, s)
    BY DEF Level, Levels, Wider
  <1>3. derive_paths(fwrg, s) = Paths(fwrg, s, rounds)
    BY DEF derive_paths
  <1>. HIDE DEF rounds
  <1>4. Paths(fwrg, s, rounds) \in Seq(Seq(1..N))
    BY <1>1, <1>2, PathsAre
  <1>5. \A d : (\E q \in ToSet(Paths(fwrg, s, rounds)) : d \in Behind(q))
               <=> d \in U[rounds] \ {s} \/ (rounds # 0 /\ d = s /\ s \in Listed(fwrg, s))
    BY <1>1, <1>2, PathsAre
  <1>. QED
    BY <1>1, <1>3, <1>4, <1>5 DEF rounds

\* What AcyclicPath returns: a deep function has an entry when it is behind the first function of
\* some path, and its entry holds the cuts of all paths.
Acyclic(fwrg, start_functions, dk_functions, found) ==
  /\ DOMAIN found = {d \in dk_functions : \E q \in AllPaths(fwrg, start_functions) : d \in Behind(q)}
  /\ \A d \in DOMAIN found :
       /\ ToSet(found[d]) = UNION {CutsOf(q, d) : q \in AllPaths(fwrg, start_functions)}
       /\ found[d] \in Seq(ToSet(found[d]))

LEMMA AcyclicAre ==
  ASSUME NEW N \in Nat, NEW fwrg, \A f \in 1..N : Listed(fwrg, f) \subseteq 1..N,
         NEW start_functions \in Seq(1..N), NEW dk_functions
  PROVE  /\ AllPaths(fwrg, start_functions) \subseteq Seq(1..N)
         /\ Acyclic(fwrg, start_functions, dk_functions, AcyclicPath(fwrg, start_functions, dk_functions))
  <1> DEFINE F == 1..N
  <1> DEFINE ps == [n \in DOMAIN start_functions |-> derive_paths(fwrg, start_functions[n])]
  <1> DEFINE m == Len(start_functions)
  <1> DEFINE paths == FlattenSeq(ps)
  <1>1. m \in Nat /\ DOMAIN start_functions = 1..m /\ \A n \in 1..m : start_functions[n] \in F
    OBVIOUS
  <1>2. ToSet(start_functions) = {start_functions[n] : n \in 1..m} /\ ToSet(start_functions) \subseteq F
    <2>1. start_functions \in Seq(F)
      OBVIOUS
    <2>. HIDE DEF F, ps, m, paths
    <2>2. ToSet(start_functions) = {start_functions[n] : n \in 1..Len(start_functions)}
          /\ ToSet(start_functions) \subseteq F
      BY <2>1, Elements
    <2>. QED
      BY <2>2 DEF m
  <1>3. ASSUME NEW s \in F PROVE derive_paths(fwrg, s) \in Seq(Seq(F))
    <2>1. {s} \in SUBSET (1..N)
      OBVIOUS
    <2>2. PICK U \in [Nat -> SUBSET (1..N)] : Levels(U, fwrg, {s})
      BY <2>1, LevelsExist
    <2>. QED
      BY <2>2, DerivedPaths
  <1>4. ps \in [1..m -> Seq(Seq(F))] /\ \A n \in 1..m : ps[n] = derive_paths(fwrg, start_functions[n])
    BY <1>1, <1>3
  <1>. HIDE DEF ps, m, F
  <1>5. paths \in Seq(Seq(F)) /\ ToSet(paths) = UNION {ToSet(ps[n]) : n \in 1..m}
    <2>1. \A t \in [1..m -> Seq(Seq(F))] :
            FlattenSeq(t) \in Seq(Seq(F)) /\ ToSet(FlattenSeq(t)) = UNION {ToSet(t[n]) : n \in 1..m}
      BY <1>1, Flattened
    <2>. QED
      BY <1>4, <2>1
  <1>. HIDE DEF paths
  <1>6. ToSet(paths) = AllPaths(fwrg, start_functions) /\ ToSet(paths) \subseteq Seq(F)
    <2>1. UNION {ToSet(ps[n]) : n \in 1..m} = AllPaths(fwrg, start_functions)
      BY <1>2, <1>4 DEF AllPaths
    <2>2. ToSet(paths) \subseteq Seq(F)
      BY <1>5, Elements
    <2>. QED
      BY <1>5, <2>1, <2>2
  <1>7. ASSUME NEW d
        PROVE  /\ organize_paths(paths, d) \in Seq(ToSet(organize_paths(paths, d)))
               /\ ToSet(organize_paths(paths, d)) = UNION {CutsOf(q, d) : q \in AllPaths(fwrg, start_functions)}
               /\ organize_paths(paths, d) # <<>> <=> \E q \in AllPaths(fwrg, start_functions) : d \in Behind(q)
    <2>1. /\ organize_paths(paths, d) \in Seq(Seq(F))
          /\ ToSet(organize_paths(paths, d)) = UNION {CutsOf(q, d) : q \in ToSet(paths)}
      BY <1>5, OrganizedAre
    <2>5. organize_paths(paths, d) \in Seq(ToSet(organize_paths(paths, d)))
      <3>1. \A t \in Seq(Seq(F)) : t \in Seq(ToSet(t))
        BY DEF ToSet
      <3>. QED
        BY <2>1, <3>1
    <2>2. organize_paths(paths, d) = <<>> <=> ToSet(organize_paths(paths, d)) = {}
      BY <2>1, EmptySequence
    <2>3. \A q : CutsOf(q, d) # {} <=> d \in Behind(q)
      BY DEF CutsOf, Behind
    <2>4. UNION {CutsOf(q, d) : q \in ToSet(paths)} # {} <=> \E q \in ToSet(paths) : d \in Behind(q)
      BY <2>3
    <2>. QED
      BY <1>6, <2>1, <2>2, <2>4, <2>5
  <1>8. AcyclicPath(fwrg, start_functions, dk_functions)
          = [dk \in {d \in dk_functions : organize_paths(paths, d) # <<>>} |-> organize_paths(paths, dk)]
    BY DEF AcyclicPath, paths, ps
  <1>. HIDE DEF paths
  <1>. QED
    BY <1>6, <1>7, <1>8 DEF F, Acyclic

\* The deep functions without an entry are those that no chain within the limit leads to.
LEMMA TargetsAre ==
  ASSUME contract \in Contracts,
         NEW start_functions \in Seq(Functions), DOMAIN slots.read_slots_in_conditions = Functions, NEW dk, NEW f \in dk
  PROVE  f \notin DOMAIN Graph(start_functions, dk).paths_df
           <=> f \notin Chain(ToSet(start_functions) \ {f}, seq_len_limit)
               /\ ~(seq_len_limit > 1 /\ f \in ToSet(start_functions) /\ f \in Dependent(f))
  <1> DEFINE N == Len(contract.functions)
  <1> DEFINE fwrg == _generate_fwrg(slots.write_slots, slots.read_slots_in_conditions)
  <1> DEFINE rounds == seq_len_limit - 1
  <1> DEFINE starting == ToSet(start_functions) \ {f}
  <1>1. N \in Nat /\ Functions = 1..N
    BY ContractsAssumption DEF Functions
  <1>2. \A g \in 1..N : Listed(fwrg, g) \subseteq 1..N /\ Dependent(g) = Listed(fwrg, g)
    BY <1>1 DEF Listed, _generate_fwrg, Dependent
  <1>3. \A g : g \in Dependent(g) => g \in 1..N
    BY <1>1 DEF Dependent
  <1>4. rounds \in Nat /\ rounds + 1 = seq_len_limit
    BY LimitAssumption
  <1>5. Graph(start_functions, dk).paths_df = AcyclicPath(fwrg, start_functions, dk)
    BY DEF Graph
  <1>. HIDE DEF N, fwrg, rounds
  <1>6. ToSet(start_functions) \subseteq 1..N /\ start_functions \in Seq(1..N)
    BY <1>1, Elements
  <1>7. f \in DOMAIN AcyclicPath(fwrg, start_functions, dk) <=> \E q \in AllPaths(fwrg, start_functions) : f \in Behind(q)
    <2>1. \A g \in 1..N : Listed(fwrg, g) \subseteq 1..N
      BY <1>2
    <2>2. Acyclic(fwrg, start_functions, dk, AcyclicPath(fwrg, start_functions, dk))
      BY <1>1, <1>6, <2>1, AcyclicAre
    <2>. QED
      BY <2>2 DEF Acyclic
  <1>8. PICK U \in [Nat -> SUBSET (1..N)] : Levels(U, fwrg, starting) /\ Chains(U, starting)
    <2>1. starting \in SUBSET (1..N)
      BY <1>6
    <2>. QED
      BY <1>1, <1>2, <2>1, ChainIs
  <1> DEFINE V == [s \in 1..N |-> CHOOSE W \in [Nat -> SUBSET (1..N)] : Levels(W, fwrg, {s})]
  <1>9. \A s \in 1..N : V[s] \in [Nat -> SUBSET (1..N)] /\ Levels(V[s], fwrg, {s})
    <2> SUFFICES ASSUME NEW s \in 1..N PROVE V[s] \in [Nat -> SUBSET (1..N)] /\ Levels(V[s], fwrg, {s})
      OBVIOUS
    <2>1. \A g \in 1..N : Listed(fwrg, g) \subseteq 1..N
      BY <1>2
    <2>2. \E W \in [Nat -> SUBSET (1..N)] : Levels(W, fwrg, {s})
      <3>1. {s} \in SUBSET (1..N)
        OBVIOUS
      <3>. QED
        BY <1>1, <2>1, <3>1, LevelsExist
    <2>. QED
      BY <2>2
  <1>. HIDE DEF V
  <1>10. f \in U[rounds] <=> \E s \in starting : f \in V[s][rounds]
    <2>1. \A s \in starting : Level(V[s], fwrg, s)
      BY <1>6, <1>9 DEF Level, Levels, Wider
    <2>2. starting \in SUBSET (1..N)
      BY <1>6
    <2>. HIDE DEF starting
    <2>3. Unites(U, V, starting)
      BY <1>1, <1>8, <2>1, <2>2, LevelsUnion
    <2>. QED
      BY <1>4, <2>3 DEF Unites
  <1>11. ASSUME NEW s \in ToSet(start_functions)
         PROVE  (\E q \in ToSet(derive_paths(fwrg, s)) : f \in Behind(q))
                  <=> (f # s /\ f \in V[s][rounds]) \/ (seq_len_limit > 1 /\ f = s /\ f \in Dependent(f))
    <2>1. s \in 1..N /\ V[s] \in [Nat -> SUBSET (1..N)] /\ Levels(V[s], fwrg, {s})
      BY <1>6, <1>9
    <2>2. \A g \in 1..N : Listed(fwrg, g) \subseteq 1..N
      BY <1>2
    <2>3. \A d : (\E q \in ToSet(derive_paths(fwrg, s)) : d \in Behind(q))
               <=> d \in V[s][rounds] \ {s} \/ (seq_len_limit > 1 /\ d = s /\ s \in Listed(fwrg, s))
      BY <1>1, <2>1, <2>2, DerivedPaths DEF rounds
    <2>. QED
      BY <1>2, <2>1, <2>3
  <1>12. f \in Chain(starting, seq_len_limit) <=> \E s \in ToSet(start_functions) : s # f /\ f \in V[s][rounds]
    BY <1>4, <1>8, <1>10 DEF Chains
  <1>13. (\E q \in AllPaths(fwrg, start_functions) : f \in Behind(q))
           <=> \E s \in ToSet(start_functions) : \E q \in ToSet(derive_paths(fwrg, s)) : f \in Behind(q)
    BY DEF AllPaths
  <1>. HIDE DEF starting
  <1>. QED
    BY <1>5, <1>7, <1>11, <1>12, <1>13 DEF starting

-------------------------------------------------------------------------------
(* The graph of a state *)

\* What the graph of a state is made from: the starts and the slots of the same state.
GraphInv ==
  /\ contract \in Contracts
  /\ phase \in {"start", "preprocessing", "prepared", "guided", "rounds"}
  /\ phase \in {"prepared", "guided"} => DOMAIN slots.read_slots_in_conditions = Functions
  /\ phase = "guided" => starts \in Seq(Functions) /\ graph = Graph(starts, graph.dk)

LEMMA SomeOrder ==
  ASSUME NEW S, NEW t \in SetToSeqs(S), IsFiniteSet(S) PROVE t \in Seq(S)
  <1>1. Cardinality(S) \in Nat
    BY FS_CardinalityType
  <1>2. t \in [1..Cardinality(S) -> S]
    BY DEF SetToSeqs
  <1>. QED
    BY <1>1, <1>2

\* The graph in use is the one of the functions that start sequences and of the slots that the
\* preprocessing found, in every state after the first round.
THEOREM SpecGraph == Spec => []GraphInv
  <1>1. Init => GraphInv
    BY DEF Init, GraphInv
  <1>2. GraphInv /\ [Next]_vars => GraphInv'
    <2> SUFFICES ASSUME GraphInv, [Next]_vars PROVE GraphInv'
      OBVIOUS
    <2>. USE DEF GraphInv
    <2>0. contract' = contract
      BY DEF Next, vars, Start, exec_preprocessing, Interrupt, main_preprocessing_end, FirstRound, Round
    <2>1. CASE Start
      BY <2>1 DEF Start
    <2>2. CASE exec_preprocessing
      BY <2>2 DEF exec_preprocessing
    <2>3. CASE Interrupt
      BY <2>3 DEF Interrupt
    <2>4. CASE main_preprocessing_end
      <3>1. phase' = "prepared" /\ DOMAIN slots'.read_slots_in_conditions = Functions /\ Functions' = Functions
        BY <2>0, <2>4 DEF main_preprocessing_end, Functions
      <3>. QED
        BY <2>0, <3>1
    <2>5. CASE FirstRound
      <3>1. phase = "prepared" /\ phase' = "guided" /\ Functions' = Functions /\ slots' = slots
        BY <2>0, <2>5 DEF FirstRound, Functions
      <3>2. starts' \in Seq(Functions)
        <4>1. PICK s \in SUBSET Functions : starts' \in SetToSeqs(s)
          BY <2>5 DEF FirstRound
        <4>2. IsFiniteSet(s)
          <5>1. Len(contract.functions) \in Nat
            BY ContractsAssumption
          <5>2. IsFiniteSet(Functions)
            BY <5>1, FS_Interval DEF Functions
          <5>. QED
            BY <5>2, FS_Subset
        <4>3. starts' \in Seq(s)
          BY <4>1, <4>2, SomeOrder
        <4>. QED
          BY <4>3
      <3>3. graph' = Graph(starts', graph'.dk)
        <4>1. PICK dk : graph' = Graph(starts', dk)
          BY <2>5 DEF FirstRound
        <4>2. graph'.dk = dk
          BY <4>1 DEF Graph
        <4>. QED
          BY <4>1, <4>2
      <3>4. graph' = Graph(starts, graph.dk)'
        BY <3>1, <3>3 DEF Graph
      <3>. QED
        BY <2>0, <3>1, <3>2, <3>4
    <2>6. CASE Round
      BY <2>6 DEF Round
    <2>7. CASE UNCHANGED vars
      BY <2>7 DEF vars, Functions, Graph
    <2>. QED
      BY <2>1, <2>2, <2>3, <2>4, <2>5, <2>6, <2>7 DEF Next
  <1>. QED
    BY <1>1, <1>2, PTL DEF Spec

\* A deep function is reported as not reachable exactly when no chain of functions within
\* seq_len_limit leads to it from one that starts sequences, for every contract and limit.
THEOREM SpecTargetsFound == Spec => []TargetsFound
  <1>1. GraphInv => TargetsFound
    <2> SUFFICES ASSUME GraphInv, phase = "guided", NEW f \in graph.dk
                 PROVE  f \in graph.dk_not_reachable
                          <=> f \notin Chain(ToSet(starts) \ {f}, seq_len_limit)
                              /\ ~(seq_len_limit > 1 /\ f \in ToSet(starts) /\ f \in Dependent(f))
      BY DEF TargetsFound
    <2>1. graph.dk_not_reachable = graph.dk \ DOMAIN graph.paths_df
      <3>1. graph = Graph(starts, graph.dk)
        BY DEF GraphInv
      <3>2. \A dk : Graph(starts, dk).dk_not_reachable = dk \ DOMAIN Graph(starts, dk).paths_df
        BY DEF Graph, identity_dk_function_not_reachable
      <3>. QED
        BY <3>1, <3>2
    <2>2. f \notin DOMAIN Graph(starts, graph.dk).paths_df
            <=> f \notin Chain(ToSet(starts) \ {f}, seq_len_limit)
                /\ ~(seq_len_limit > 1 /\ f \in ToSet(starts) /\ f \in Dependent(f))
      <3>1. contract \in Contracts /\ starts \in Seq(Functions) /\ DOMAIN slots.read_slots_in_conditions = Functions
        BY DEF GraphInv
      <3>. QED
        BY <3>1, TargetsAre
    <2>4. graph.paths_df = Graph(starts, graph.dk).paths_df
      BY DEF GraphInv
    <2>. QED
      BY <2>1, <2>2, <2>4
  <1>2. Spec => []GraphInv
    BY SpecGraph
  <1>. QED
    BY <1>1, <1>2, PTL

-------------------------------------------------------------------------------
(* find_edges *)

\* What Min chooses.
LEMMA Smallest ==
  ASSUME NEW T, T \subseteq Nat, T # {}
  PROVE  Min(T) \in T /\ \A y \in T : Min(T) <= y
  <1>1. \E x \in T : \A y \in T : x <= y
    BY LeastNumber
  <1>2. Min(T) = CHOOSE x \in T : \A y \in T : x <= y
    BY DEF Min
  <1>. QED
    BY <1>1, <1>2

\* e is one of the functions of s2.
Is(s2, e) == e \in ToSet(s2)

\* The places first..last of s1 are a longest part without functions of s2, if it ends there.
Run(s1, s2, first, last) ==
  /\ first \in 1..last /\ \A m \in first..last : ~Is(s2, s1[m])
  /\ first = 1 \/ Is(s2, s1[first - 1])

\* The part of s2 that faces it starts at next.
After(s1, s2, first, next) ==
  IF first = 1 THEN next = 1 ELSE next - 1 \in 1..Len(s2) /\ s2[next - 1] = s1[first - 1]

\* A part of s1 and the part of s2 that faces it.
Joins(s1, s2, first, last, next, end) == {<<s2[end], s1[first]>>, <<s1[last], s2[next]>>}

\* The parts of s1 up to n are joined.
JoinedUpTo(s1, s2, n, edges) ==
  \A m \in 2..n, k \in 1..Len(s2) : s2[k] = s1[m] =>
    \A first \in 1..m - 1, next \in 1..k - 1 :
      Run(s1, s2, first, m - 1) /\ After(s1, s2, first, next) => Joins(s1, s2, first, m - 1, next, k - 1) \subseteq edges

\* The state of Walked after n functions of s1, when the common functions are in one order.
WalkedUpTo(s1, s2, n, p) ==
  /\ p.next \in Nat \ {0}
  /\ JoinedUpTo(s1, s2, n, p.edges)
  /\ n = 0 => p.first = 0 /\ p.next = 1
  /\ n # 0 /\ Is(s2, s1[n]) => p.first = 0 /\ p.next - 1 \in 1..Len(s2) /\ s2[p.next - 1] = s1[n]
  /\ n # 0 /\ ~Is(s2, s1[n]) => Run(s1, s2, p.first, n) /\ p.last = n /\ After(s1, s2, p.first, p.next)

\* The step of Walked.
Walk(s1, s2, p, n) ==
  IF s1[n] \notin ToSet(s2) THEN [p EXCEPT !.first = IF @ = 0 THEN n ELSE @, !.last = n]
  ELSE LET f == Facing(p, s2, s1[n])
       IN  [first |-> 0, last |-> 0, next |-> f.next, edges |-> p.edges \cup Joined(s1, s2, p, f)]

\* The states of Walked.
Walkers(F, N) ==
  {p \in [first : 0..N, last : 0..N, next : Nat \ {0}, edges : SUBSET (F \X F)] : p.first # 0 => p.last # 0}

\* What Facing returns, when the function e is in s2 at most once.
Faces(p, s2, e, f) ==
  /\ f.first = p.next /\ f.last \in 0..Len(s2) /\ f.next \in Nat \ {0}
  /\ \A k \in p.next..Len(s2) : s2[k] = e /\ (\A i \in 1..Len(s2) : s2[i] = e => i = k) => f.last = k - 1 /\ f.next = k + 1
  /\ e \notin ToSet(s2) => f.last = Len(s2)

LEMMA FacingIs ==
  ASSUME NEW F, NEW s2 \in Seq(F), NEW p, p.next \in Nat \ {0}, NEW e
  PROVE  Faces(p, s2, e, Facing(p, s2, e))
  <1> DEFINE here == {i \in p.next..Len(s2) : s2[i] = e}
  <1> DEFINE end == IF here = {} THEN Len(s2) ELSE Min(here) - 1
  <1>0. Len(s2) \in Nat
    OBVIOUS
  <1>1. Facing(p, s2, e) = [first |-> p.next, last |-> end,
          next |-> IF p.next > Len(s2) THEN p.next ELSE IF here = {} THEN Len(s2) + 1 ELSE Min(here) + 1]
    BY DEF Facing
  <1>2. here # {} => Min(here) \in here /\ Min(here) \in 1..Len(s2)
    <2>1. here \subseteq Nat
      OBVIOUS
    <2>. HIDE DEF here
    <2>2. here # {} => Min(here) \in here
      BY <2>1, Smallest
    <2>. QED
      BY <1>0, <2>2 DEF here
  <1>3. ASSUME NEW k \in p.next..Len(s2), s2[k] = e, \A i \in 1..Len(s2) : s2[i] = e => i = k
        PROVE  here # {} /\ Min(here) = k /\ ~(p.next > Len(s2))
    <2>1. k \in here /\ \A i \in here : i = k
      BY <1>3
    <2>. QED
      BY <1>0, <1>2, <2>1
  <1>4. e \notin ToSet(s2) => here = {}
    <2>1. ToSet(s2) = {s2[i] : i \in 1..Len(s2)}
      BY Elements
    <2>2. \A i \in p.next..Len(s2) : i \in 1..Len(s2)
      BY <1>0
    <2>. QED
      BY <2>1, <2>2
  <1>. HIDE DEF here
  <1>. QED
    BY <1>0, <1>1, <1>2, <1>3, <1>4 DEF Faces

LEMMA WalkIs ==
  ASSUME NEW F, NEW s1 \in Seq(F), NEW s2 \in Seq(F), NEW p \in Walkers(F, Len(s1)), NEW n \in 1..Len(s1)
  PROVE  Walk(s1, s2, p, n) \in Walkers(F, Len(s1))
  <1> DEFINE N == Len(s1)
  <1>1. p.first \in 0..N /\ p.last \in 0..N /\ p.next \in Nat \ {0} /\ p.edges \in SUBSET (F \X F)
        /\ (p.first # 0 => p.last # 0)
    BY DEF Walkers
  <1>2. CASE s1[n] \notin ToSet(s2)
    <2>1. Walk(s1, s2, p, n) = [p EXCEPT !.first = IF @ = 0 THEN n ELSE @, !.last = n]
      BY <1>2 DEF Walk
    <2>2. n \in 0..N /\ n # 0
      OBVIOUS
    <2> DEFINE first == IF p.first = 0 THEN n ELSE p.first
    <2>3. Walk(s1, s2, p, n) = [p EXCEPT !.first = first, !.last = n] /\ first \in 0..N
      BY <1>1, <2>1, <2>2
    <2>. HIDE DEF first, N
    <2>4. p \in [first : 0..N, last : 0..N, next : Nat \ {0}, edges : SUBSET (F \X F)]
      BY DEF Walkers, N
    <2>5. [p EXCEPT !.first = first, !.last = n]
            \in [first : 0..N, last : 0..N, next : Nat \ {0}, edges : SUBSET (F \X F)]
          /\ [p EXCEPT !.first = first, !.last = n].last # 0
      BY <2>2, <2>3, <2>4
    <2>. QED
      BY <2>3, <2>5 DEF Walkers, N
  <1>3. CASE s1[n] \in ToSet(s2)
    <2> DEFINE f == Facing(p, s2, s1[n])
    <2>1. Walk(s1, s2, p, n) = [first |-> 0, last |-> 0, next |-> f.next, edges |-> p.edges \cup Joined(s1, s2, p, f)]
      BY <1>3 DEF Walk
    <2>2. f.first = p.next /\ f.last \in 0..Len(s2) /\ f.next \in Nat \ {0}
      BY <1>1, FacingIs DEF Faces
    <2>. HIDE DEF f
    <2>3. Joined(s1, s2, p, f) \in SUBSET (F \X F)
      <3>1. CASE p.first = 0 \/ f.first > f.last
        BY <3>1 DEF Joined
      <3>2. CASE ~(p.first = 0 \/ f.first > f.last)
        <4>1. s1[p.first] \in F /\ s1[p.last] \in F
          BY <1>1, <3>2
        <4>2. f.last \in 1..Len(s2) /\ f.first \in 1..Len(s2)
          BY <1>1, <2>2, <3>2
        <4>3. s2[f.last] \in F /\ s2[f.first] \in F
          BY <4>2
        <4>. QED
          BY <3>2, <4>1, <4>3 DEF Joined
      <3>. QED
        BY <3>1, <3>2
    <2>4. p.edges \cup Joined(s1, s2, p, f) \in SUBSET (F \X F)
      BY <1>1, <2>3
    <2>5. 0 \in 0..N
      OBVIOUS
    <2> DEFINE edges == p.edges \cup Joined(s1, s2, p, f)
    <2>. HIDE DEF edges, N
    <2>6. [first |-> 0, last |-> 0, next |-> f.next, edges |-> edges] \in Walkers(F, N)
      BY <2>2, <2>4, <2>5 DEF Walkers, edges
    <2>. QED
      BY <2>1, <2>6 DEF edges, N
  <1>. QED
    BY <1>2, <1>3
\* The common functions are in one order, each once.
Ordered(s1, s2) ==
  \A i, j \in 1..Len(s1), k, l \in 1..Len(s2) :
    s1[i] = s2[k] /\ s1[j] = s2[l] => (i < j <=> k < l) /\ (i = j <=> k = l)

\* Two sequences with their common functions in one order have each of them once.
LEMMA OrderedIs ==
  ASSUME NEW F, NEW s1 \in Seq(F), NEW s2 \in Seq(F), SameOrder(s1, s2), SameOrder(s2, s1)
  PROVE  Ordered(s1, s2) /\ Ordered(s2, s1)
  <1>1. DOMAIN s1 = 1..Len(s1) /\ DOMAIN s2 = 1..Len(s2)
    OBVIOUS
  <1>2. \A i, j \in 1..Len(s1), k, l \in 1..Len(s2) : s1[i] = s2[k] /\ s1[j] = s2[l] => (i <= j <=> k <= l)
    BY <1>1 DEF SameOrder
  <1>3. ASSUME NEW i \in 1..Len(s1), NEW j \in 1..Len(s1), NEW k \in 1..Len(s2), NEW l \in 1..Len(s2),
               s1[i] = s2[k], s1[j] = s2[l]
        PROVE  (i < j <=> k < l) /\ (i = j <=> k = l) /\ (k < l <=> i < j) /\ (k = l <=> i = j)
    <2>1. (i <= j <=> k <= l) /\ (j <= i <=> l <= k)
      BY <1>2, <1>3
    <2>. QED
      BY <2>1
  <1>. QED
    BY <1>3 DEF Ordered

\* A part has one start, and the part that faces it another.
LEMMA RunOnce ==
  ASSUME NEW s1, NEW s2, NEW last \in Nat, NEW f, NEW g, Run(s1, s2, f, last), Run(s1, s2, g, last)
  PROVE  f = g
  <1>1. f \in 1..last /\ g \in 1..last
    BY DEF Run
  <1>2. CASE f < g
    <2>1. g - 1 \in f..last /\ g # 1
      BY <1>1, <1>2
    <2>. QED
      BY <2>1 DEF Run
  <1>3. CASE g < f
    <2>1. f - 1 \in g..last /\ f # 1
      BY <1>1, <1>3
    <2>. QED
      BY <2>1 DEF Run
  <1>. QED
    BY <1>1, <1>2, <1>3

LEMMA AfterOnce ==
  ASSUME NEW F, NEW s1 \in Seq(F), NEW s2 \in Seq(F), Ordered(s1, s2), NEW first \in 1..Len(s1), NEW g, NEW h,
         g \in Nat, h \in Nat, After(s1, s2, first, g), After(s1, s2, first, h)
  PROVE  g = h
  <1>1. CASE first = 1
    BY <1>1 DEF After
  <1>2. CASE first # 1
    <2>1. first - 1 \in 1..Len(s1) /\ g - 1 \in 1..Len(s2) /\ h - 1 \in 1..Len(s2)
          /\ s2[g - 1] = s1[first - 1] /\ s2[h - 1] = s1[first - 1]
      BY <1>2 DEF After
    <2>2. \A i \in 1..Len(s1), k, l \in 1..Len(s2) : s1[i] = s2[k] /\ s1[i] = s2[l] => k = l
      BY DEF Ordered
    <2>3. g - 1 = h - 1
      BY <2>1, <2>2
    <2>. QED
      BY <2>3
  <1>. QED
    BY <1>1, <1>2

\* The place behind the last common function, and a place of a later one.
LEMMA NextBefore ==
  ASSUME NEW F, NEW s1 \in Seq(F), NEW s2 \in Seq(F), Ordered(s1, s2), NEW n \in 0..Len(s1), NEW p,
         WalkedUpTo(s1, s2, n, p), NEW m \in 1..Len(s1), n < m, NEW k \in 1..Len(s2), s2[k] = s1[m]
  PROVE  k \in p.next..Len(s2)
  <1>0. p.next \in Nat \ {0} /\ Len(s2) \in Nat
    BY DEF WalkedUpTo
  <1>1. CASE p.next = 1
    BY <1>1
  <1>2. ASSUME NEW c \in 1..Len(s1), c <= n, p.next - 1 \in 1..Len(s2), s2[p.next - 1] = s1[c]
        PROVE  p.next - 1 < k
    <2>1. c < m
      BY <1>2
    <2>. QED
      BY <1>2, <2>1 DEF Ordered
  <1>3. CASE p.next # 1
    <2>1. n # 0
      BY <1>3 DEF WalkedUpTo
    <2>2. CASE Is(s2, s1[n])
      <3>1. p.next - 1 \in 1..Len(s2) /\ s2[p.next - 1] = s1[n] /\ n \in 1..Len(s1)
        BY <2>1, <2>2 DEF WalkedUpTo
      <3>. QED
        BY <1>0, <1>2, <3>1
    <2>3. CASE ~Is(s2, s1[n])
      <3>1. p.first \in 1..n /\ After(s1, s2, p.first, p.next)
        BY <2>1, <2>3 DEF WalkedUpTo, Run
      <3>2. p.first # 1 /\ p.next - 1 \in 1..Len(s2) /\ s2[p.next - 1] = s1[p.first - 1]
        BY <1>3, <3>1 DEF After
      <3>3. p.first - 1 \in 1..Len(s1) /\ p.first - 1 <= n
        BY <3>1, <3>2
      <3>. QED
        BY <1>0, <1>2, <3>2, <3>3
    <2>. QED
      BY <2>2, <2>3
  <1>. QED
    BY <1>1, <1>3

\* One more function of s1 keeps what has been walked.
LEMMA WalkKeeps ==
  ASSUME NEW F, NEW s1 \in Seq(F), NEW s2 \in Seq(F), Ordered(s1, s2), NEW n \in Nat, n < Len(s1),
         NEW p \in Walkers(F, Len(s1)), WalkedUpTo(s1, s2, n, p)
  PROVE  WalkedUpTo(s1, s2, n + 1, Walk(s1, s2, p, n + 1))
  <1> DEFINE c == n + 1
  <1> DEFINE new == Walk(s1, s2, p, c)
  <1>0. c \in Nat /\ c \in 1..Len(s1) /\ c # 0 /\ c - 1 = n /\ n \in 0..Len(s1) /\ n < c
    OBVIOUS
  <1>1. p.next \in Nat \ {0} /\ JoinedUpTo(s1, s2, n, p.edges) /\ (n = 0 => p.first = 0 /\ p.next = 1)
        /\ (n # 0 /\ Is(s2, s1[n]) => p.first = 0 /\ p.next - 1 \in 1..Len(s2) /\ s2[p.next - 1] = s1[n])
        /\ (n # 0 /\ ~Is(s2, s1[n]) => Run(s1, s2, p.first, n) /\ p.last = n /\ After(s1, s2, p.first, p.next))
    BY DEF WalkedUpTo
  <1>2. ToSet(s2) = {s2[k] : k \in 1..Len(s2)}
    BY Elements
  <1>. HIDE DEF c
  <1>3. CASE ~Is(s2, s1[c])
    <2> DEFINE first == IF p.first = 0 THEN c ELSE p.first
    <2>1. new.first = first /\ new.last = c /\ new.next = p.next /\ new.edges = p.edges
      BY <1>3 DEF Walk, Is, Walkers
    <2>2. Run(s1, s2, first, c) /\ After(s1, s2, first, p.next)
      <3>1. CASE n = 0
        <4>1. first = 1 /\ c = 1 /\ p.next = 1
          BY <1>0, <1>1, <3>1
        <4>2. \A m \in 1..1 : m = 1
          OBVIOUS
        <4>. QED
          BY <1>3, <4>1, <4>2 DEF Run, After
      <3>2. CASE n # 0 /\ Is(s2, s1[n])
        <4>1. first = c /\ c # 1 /\ p.next - 1 \in 1..Len(s2) /\ s2[p.next - 1] = s1[c - 1]
          BY <1>0, <1>1, <3>2
        <4>2. \A m \in c..c : m = c
          BY <1>0
        <4>. QED
          BY <1>0, <1>3, <3>2, <4>1, <4>2 DEF Run, After
      <3>3. CASE n # 0 /\ ~Is(s2, s1[n])
        <4>1. Run(s1, s2, p.first, n) /\ After(s1, s2, p.first, p.next)
          BY <1>1, <3>3
        <4>2. first = p.first /\ p.first \in 1..c
          BY <1>0, <4>1 DEF Run
        <4>3. \A m \in p.first..c : m \in p.first..n \/ m = c
          BY <1>0, <4>2
        <4>. QED
          BY <1>3, <4>1, <4>2, <4>3 DEF Run
      <3>. QED
        BY <3>1, <3>2, <3>3
    <2>3. JoinedUpTo(s1, s2, c, p.edges)
      <3>1. \A k \in 1..Len(s2) : s2[k] # s1[c]
        BY <1>2, <1>3 DEF Is
      <3>2. \A m \in 2..c : m \in 2..n \/ m = c
        BY <1>0
      <3>. QED
        BY <1>1, <3>1, <3>2 DEF JoinedUpTo
    <2>. HIDE DEF new, first
    <2>. QED
      BY <1>0, <1>1, <1>3, <2>1, <2>2, <2>3 DEF WalkedUpTo, new, c
  <1>4. CASE Is(s2, s1[c])
    <2> DEFINE f == Facing(p, s2, s1[c])
    <2>1. new = [first |-> 0, last |-> 0, next |-> f.next, edges |-> p.edges \cup Joined(s1, s2, p, f)]
      BY <1>4 DEF Walk, Is
    <2>2. Faces(p, s2, s1[c], f)
      BY <1>1, FacingIs
    <2>. HIDE DEF f, new
    <2>3. PICK k \in 1..Len(s2) : s2[k] = s1[c]
      BY <1>2, <1>4 DEF Is
    <2>4. \A i \in 1..Len(s2) : s2[i] = s1[c] => i = k
      BY <1>0, <2>3 DEF Ordered
    <2>5. k \in p.next..Len(s2)
      BY <1>0, <2>3, NextBefore
    <2>6. f.first = p.next /\ f.last = k - 1 /\ f.next = k + 1
      BY <2>2, <2>3, <2>4, <2>5 DEF Faces
    <2>7. ASSUME NEW first \in 1..n, NEW next \in 1..k - 1, Run(s1, s2, first, n), After(s1, s2, first, next)
          PROVE  Joins(s1, s2, first, n, next, k - 1) \subseteq Joined(s1, s2, p, f)
      <3>1. n # 0 /\ ~Is(s2, s1[n])
        BY <2>7 DEF Run
      <3>2. Run(s1, s2, p.first, n) /\ p.last = n /\ After(s1, s2, p.first, p.next)
        BY <1>1, <3>1
      <3>3. p.first = first
        BY <2>7, <3>2, RunOnce
      <3>4. p.next = next
        <4>1. first \in 1..Len(s1) /\ p.next \in Nat /\ next \in Nat /\ After(s1, s2, first, p.next)
          BY <1>0, <1>1, <3>2, <3>3
        <4>. QED
          BY <2>7, <4>1, AfterOnce
      <3>5. ~(p.first = 0 \/ f.first > f.last)
        BY <2>6, <3>3, <3>4
      <3>. QED
        BY <2>6, <3>2, <3>3, <3>4, <3>5 DEF Joined, Joins
    <2>8. JoinedUpTo(s1, s2, c, new.edges)
      <3>1. new.edges = p.edges \cup Joined(s1, s2, p, f)
        BY <2>1
      <3> SUFFICES ASSUME NEW m \in 2..c, NEW l \in 1..Len(s2), s2[l] = s1[m],
                          NEW first \in 1..m - 1, NEW next \in 1..l - 1,
                          Run(s1, s2, first, m - 1), After(s1, s2, first, next)
                   PROVE  Joins(s1, s2, first, m - 1, next, l - 1) \subseteq new.edges
        BY DEF JoinedUpTo
      <3>2. CASE m \in 2..n
        <4>1. Joins(s1, s2, first, m - 1, next, l - 1) \subseteq p.edges
          BY <1>1, <3>2 DEF JoinedUpTo
        <4>. QED
          BY <3>1, <4>1
      <3>3. CASE m = c
        <4>1. l = k /\ m - 1 = n
          BY <1>0, <2>4, <3>3
        <4>. QED
          BY <2>7, <3>1, <4>1
      <3>. QED
        BY <1>0, <3>2, <3>3
    <2>9. new.first = 0 /\ new.next = k + 1 /\ new.next \in Nat \ {0} /\ new.next - 1 = k
      BY <2>1, <2>6
    <2>. QED
      BY <1>0, <1>4, <2>3, <2>8, <2>9 DEF WalkedUpTo, new, c
  <1>. QED
    BY <1>3, <1>4

LEMMA WalkedIs ==
  ASSUME NEW F, NEW s1 \in Seq(F), NEW s2 \in Seq(F), Ordered(s1, s2)
  PROVE  Walked(s1, s2) \in Walkers(F, Len(s1)) /\ WalkedUpTo(s1, s2, Len(s1), Walked(s1, s2))
  <1> DEFINE N == Len(s1)
  <1> DEFINE start == [first |-> 0, last |-> 0, next |-> 1, edges |-> {}]
  <1> DEFINE upto[n \in 0..N] == IF n = 0 THEN start ELSE Walk(s1, s2, upto[n - 1], n)
  <1>0. N \in Nat
    OBVIOUS
  <1>1. Walked(s1, s2) = upto[N]
    BY DEF Walked, Walk
  <1> DEFINE S == Walkers(F, N)
  <1> DEFINE step == [z \in Nat \X S |-> IF z[1] \in 1..N THEN Walk(s1, s2, z[2], z[1]) ELSE z[2]]
  <1>2. step \in [Nat \X S -> S]
    <2>1. \A x \in S, n \in 1..N : Walk(s1, s2, x, n) \in S
      BY WalkIs
    <2>. HIDE DEF S
    <2>. QED
      BY <2>1
  <1>3. start \in S
    BY <1>0 DEF Walkers
  <1>. HIDE DEF start, S, N
  <1>4. PICK f \in [0..N -> S] : Folds(f, 0..N, start, step)
    <2>. HIDE DEF step
    <2>. QED
      BY <1>0, <1>2, <1>3, NumberPrefixes, Folding
  <1>5. ASSUME NEW n \in 0..N, n # 0 PROVE n - 1 \in 0..N /\ f[n - 1] \in S /\ step[<<n, f[n - 1]>>] = Walk(s1, s2, f[n - 1], n)
    <2>1. n - 1 \in 0..N /\ n \in 1..N /\ n \in Nat
      BY <1>0, <1>5
    <2>2. f[n - 1] \in S /\ <<n, f[n - 1]>> \in Nat \X S
      BY <2>1
    <2>. QED
      BY <2>1, <2>2
  <1>. HIDE DEF step
  <1>6. f = [n \in 0..N |-> IF n = 0 THEN start ELSE Walk(s1, s2, f[n - 1], n)]
    BY <1>4, <1>5 DEF Folds
  <1>7. upto = [n \in 0..N |-> IF n = 0 THEN start ELSE Walk(s1, s2, upto[n - 1], n)]
    BY <1>6
  <1>. HIDE DEF upto
  <1> DEFINE T == {n \in Nat : n <= N => upto[n] \in S /\ WalkedUpTo(s1, s2, n, upto[n])}
  <1>8. 0 \in T
    <2>1. upto[0] = start /\ 0 \in 0..N
      BY <1>0, <1>7
    <2>2. WalkedUpTo(s1, s2, 0, start)
      <3>1. 2..0 = {}
        OBVIOUS
      <3>. QED
        BY <3>1 DEF WalkedUpTo, JoinedUpTo, start
    <2>. QED
      BY <1>3, <2>1, <2>2
  <1>9. ASSUME NEW n \in Nat, n \in T PROVE n + 1 \in T
    <2> SUFFICES ASSUME n + 1 <= N PROVE upto[n + 1] \in S /\ WalkedUpTo(s1, s2, n + 1, upto[n + 1])
      OBVIOUS
    <2>1. upto[n] \in S /\ WalkedUpTo(s1, s2, n, upto[n])
      BY <1>0, <1>9
    <2>2. n + 1 \in 1..N /\ n + 1 \in 0..N /\ (n + 1) - 1 = n /\ n + 1 # 0 /\ n < N
      BY <1>0
    <2>3. upto[n + 1] = Walk(s1, s2, upto[n], n + 1)
      BY <1>7, <2>2
    <2>4. upto[n + 1] \in S
      BY <2>1, <2>2, <2>3, WalkIs DEF S, N
    <2>5. WalkedUpTo(s1, s2, n + 1, Walk(s1, s2, upto[n], n + 1))
      BY <2>1, <2>2, WalkKeeps DEF S, N
    <2>. QED
      BY <2>3, <2>4, <2>5
  <1>. HIDE DEF T
  <1>10. N \in T
    BY <1>0, <1>8, <1>9, Inductive
  <1>. QED
    BY <1>0, <1>1, <1>10 DEF T, S, N

\* A part of the first sequence and the part of the second that faces it are joined, also behind the
\* last common function.
LEMMA EdgesFound ==
  ASSUME NEW F, NEW s1 \in Seq(F), s1 # <<>>, NEW s2 \in Seq(F), Ordered(s1, s2),
         NEW last \in 1..Len(s1), NEW first \in 1..last, NEW end \in 1..Len(s2), NEW next \in 1..end,
         Run(s1, s2, first, last), After(s1, s2, first, next),
         (last = Len(s1) /\ end = Len(s2)) \/ (last < Len(s1) /\ end < Len(s2) /\ s2[end + 1] = s1[last + 1])
  PROVE  Joins(s1, s2, first, last, next, end) \subseteq find_edges(s1, s2)
  <1> DEFINE p == Walked(s1, s2)
  <1> DEFINE f == Facing(p, s2, Last(s1))
  <1> DEFINE N == Len(s1)
  <1>0. N \in Nat /\ N # 0 /\ Len(s2) \in Nat
    OBVIOUS
  <1>1. find_edges(s1, s2) = p.edges \cup Joined(s1, s2, p, f)
    BY DEF find_edges
  <1>2. WalkedUpTo(s1, s2, N, p)
    BY WalkedIs
  <1>. HIDE DEF p
  <1>3. CASE last < N /\ end < Len(s2) /\ s2[end + 1] = s1[last + 1]
    <2>1. last + 1 \in 2..N /\ end + 1 \in 1..Len(s2) /\ (last + 1) - 1 = last /\ (end + 1) - 1 = end
      BY <1>0, <1>3
    <2>2. JoinedUpTo(s1, s2, N, p.edges)
      BY <1>2 DEF WalkedUpTo
    <2>3. Joins(s1, s2, first, last, next, end) \subseteq p.edges
      <3> DEFINE m == last + 1
      <3> DEFINE k == end + 1
      <3>1. m \in 2..N /\ k \in 1..Len(s2) /\ s2[k] = s1[m] /\ m - 1 = last /\ k - 1 = end
        BY <1>3, <2>1
      <3>. HIDE DEF m, k
      <3>2. \A g \in 1..m - 1, h \in 1..k - 1 :
              Run(s1, s2, g, m - 1) /\ After(s1, s2, g, h) => Joins(s1, s2, g, m - 1, h, k - 1) \subseteq p.edges
        BY <2>2, <3>1 DEF JoinedUpTo
      <3>. QED
        BY <3>1, <3>2
    <2>. QED
      BY <1>1, <2>3
  <1>4. CASE last = N /\ end = Len(s2)
    <2>1. ~Is(s2, s1[N])
      BY <1>0, <1>4 DEF Run
    <2>2. Run(s1, s2, p.first, N) /\ p.last = N /\ After(s1, s2, p.first, p.next) /\ p.next \in Nat \ {0}
      BY <1>0, <1>2, <2>1 DEF WalkedUpTo
    <2>3. p.first = first
      BY <1>0, <1>4, <2>2, RunOnce
    <2>4. p.next = next
      <3>1. first \in 1..Len(s1) /\ p.next \in Nat /\ next \in Nat /\ After(s1, s2, first, p.next)
        BY <1>0, <2>2, <2>3
      <3>. QED
        BY <3>1, AfterOnce
    <2>5. f.first = p.next /\ f.last = Len(s2)
      <3>1. Faces(p, s2, Last(s1), f)
        BY <2>2, FacingIs
      <3>. QED
        BY <2>1, <3>1 DEF Faces, Is, Last
    <2>. HIDE DEF f
    <2>6. ~(p.first = 0 \/ f.first > f.last)
      BY <1>0, <1>4, <2>3, <2>4, <2>5
    <2>7. Joined(s1, s2, p, f) = Joins(s1, s2, first, last, next, end)
      BY <1>4, <2>2, <2>3, <2>4, <2>5, <2>6 DEF Joined, Joins
    <2>. QED
      BY <1>1, <2>7 DEF f
  <1>. QED
    BY <1>3, <1>4

\* The part of a that ends at a place, or around it.
LEMMA RunTo ==
  ASSUME NEW F, NEW a \in Seq(F), NEW b \in Seq(F), NEW i \in 1..Len(a), ~Is(b, a[i])
  PROVE  \E first \in 1..i : Run(a, b, first, i)
  <1> DEFINE T == {m \in 1..i : Is(b, a[m])}
  <1>1. CASE T = {}
    <2>1. Run(a, b, 1, i)
      BY <1>1 DEF Run
    <2>. QED
      BY <2>1
  <1>2. CASE T # {}
    <2>1. T \subseteq 0..i /\ i \in Nat
      OBVIOUS
    <2>. HIDE DEF T
    <2>2. Max(T) \in T /\ \A y \in T : y <= Max(T)
      BY <1>2, <2>1, Largest
    <2> DEFINE first == Max(T) + 1
    <2>3. first \in 1..i /\ first # 1 /\ Is(b, a[first - 1])
      BY <2>2 DEF T
    <2>4. \A m \in first..i : ~Is(b, a[m])
      BY <2>2 DEF T
    <2>5. Run(a, b, first, i)
      BY <2>3, <2>4 DEF Run
    <2>. QED
      BY <2>3, <2>5
  <1>. QED
    BY <1>1, <1>2

LEMMA RunFrom ==
  ASSUME NEW F, NEW a \in Seq(F), NEW b \in Seq(F), NEW i \in 1..Len(a), ~Is(b, a[i])
  PROVE  \E last \in i..Len(a) :
           (\A m \in i..last : ~Is(b, a[m])) /\ (last = Len(a) \/ (last < Len(a) /\ Is(b, a[last + 1])))
  <1> DEFINE T == {m \in i..Len(a) : Is(b, a[m])}
  <1>1. CASE T = {}
    <2>1. Len(a) \in i..Len(a)
      OBVIOUS
    <2>. QED
      BY <1>1, <2>1
  <1>2. CASE T # {}
    <2>1. T \subseteq Nat
      OBVIOUS
    <2>. HIDE DEF T
    <2>2. Min(T) \in T /\ \A y \in T : Min(T) <= y
      BY <1>2, <2>1, Smallest
    <2> DEFINE last == Min(T) - 1
    <2>3. last \in i..Len(a) /\ last < Len(a) /\ Is(b, a[last + 1])
      <3>1. Min(T) \in i..Len(a) /\ Is(b, a[Min(T)]) /\ Min(T) # i
        BY <2>2 DEF T
      <3>2. (Min(T) - 1) + 1 = Min(T)
        BY <3>1
      <3>. QED
        BY <3>1, <3>2
    <2>4. ASSUME NEW m \in i..last PROVE ~Is(b, a[m])
      <3>1. Min(T) \in Nat
        BY <2>1, <2>2
      <3>2. m \notin T
        BY <2>2, <3>1
      <3>3. m \in i..Len(a)
        BY <2>3
      <3>. QED
        BY <3>2, <3>3 DEF T
    <2>. QED
      BY <2>3, <2>4
  <1>. QED
    BY <1>1, <1>2

\* A common function that lies before one of two places that face each other lies before the other.
LEMMA BothBefore ==
  ASSUME NEW F, NEW a \in Seq(F), NEW b \in Seq(F), Ordered(a, b), NEW i \in 1..Len(a), NEW j \in 1..Len(b),
         Face(a, i, b, j), NEW x \in 1..Len(a), NEW y \in 1..Len(b), a[x] = b[y]
  PROVE  (x < i <=> y < j) /\ x # i /\ y # j
  <1>1. ToSet(a) = {a[m] : m \in 1..Len(a)} /\ ToSet(b) = {b[m] : m \in 1..Len(b)}
    BY Elements
  <1>2. x # i /\ y # j
    BY <1>1 DEF Face
  <1>3. {a[k] : k \in 1..i} \cap ToSet(b) = {b[k] : k \in 1..j} \cap ToSet(a)
    BY DEF Face, Common
  <1>4. ASSUME x < i PROVE y < j
    <2>1. x \in 1..i /\ a[x] \in ToSet(b)
      BY <1>1, <1>4
    <2>2. a[x] \in {b[k] : k \in 1..j}
      BY <1>3, <2>1
    <2>3. PICK k \in 1..j : a[x] = b[k]
      BY <2>2
    <2>4. k \in 1..Len(b)
      OBVIOUS
    <2>5. k = y
      BY <2>3, <2>4 DEF Ordered
    <2>. QED
      BY <1>2, <2>5
  <1>5. ASSUME y < j PROVE x < i
    <2>1. y \in 1..j /\ b[y] \in ToSet(a)
      BY <1>1, <1>5
    <2>2. b[y] \in {a[k] : k \in 1..i}
      BY <1>3, <2>1
    <2>3. PICK k \in 1..i : a[k] = b[y]
      BY <2>2
    <2>4. k \in 1..Len(a)
      OBVIOUS
    <2>5. k = x
      BY <2>3, <2>4 DEF Ordered
    <2>. QED
      BY <1>2, <2>5
  <1>. QED
    BY <1>2, <1>4, <1>5

\* Where two places face each other, the part of b begins behind the function that the part of a
\* begins behind.
LEMMA FacedFrom ==
  ASSUME NEW F, NEW a \in Seq(F), NEW b \in Seq(F), Ordered(a, b), NEW i \in 1..Len(a), NEW j \in 1..Len(b),
         Face(a, i, b, j), NEW first \in 1..i, Run(a, b, first, i)
  PROVE  \E next \in 1..j : After(a, b, first, next) /\ (StartsPart(b, j, a) => next = j)
  <1>1. ToSet(a) = {a[m] : m \in 1..Len(a)} /\ ToSet(b) = {b[m] : m \in 1..Len(b)}
    BY Elements
  <1>2. \A x \in 1..Len(a), y \in 1..Len(b) : a[x] = b[y] => (x < i <=> y < j) /\ x # i /\ y # j
    BY BothBefore
  <1>3. \A x \in 1..Len(a) : x < i /\ Is(b, a[x]) => x <= first - 1 /\ first # 1
    <2> SUFFICES ASSUME NEW x \in 1..Len(a), x < i, Is(b, a[x]) PROVE x <= first - 1 /\ first # 1
      OBVIOUS
    <2>1. x \notin first..i
      BY DEF Run
    <2>. QED
      BY <2>1
  <1>4. ASSUME StartsPart(b, j, a), j # 1
        PROVE  \E x \in 1..Len(a) : a[x] = b[j - 1] /\ x <= first - 1 /\ first # 1 /\ j - 1 \in 1..Len(b)
    <2>1. j - 1 \in 1..Len(b) /\ b[j - 1] \in ToSet(a)
      BY <1>4 DEF StartsPart
    <2>2. PICK x \in 1..Len(a) : a[x] = b[j - 1]
      BY <1>1, <2>1
    <2>3. x < i
      BY <1>2, <2>1, <2>2
    <2>4. Is(b, a[x])
      BY <1>1, <2>1, <2>2 DEF Is
    <2>. QED
      BY <1>3, <2>1, <2>2, <2>3, <2>4
  <1>5. CASE first = 1
    <2>1. After(a, b, first, 1) /\ 1 \in 1..j
      BY <1>5 DEF After
    <2>. QED
      BY <1>4, <1>5, <2>1
  <1>6. CASE first # 1
    <2>1. first - 1 \in 1..Len(a) /\ first - 1 < i /\ Is(b, a[first - 1])
      BY <1>6 DEF Run
    <2>2. PICK l \in 1..Len(b) : b[l] = a[first - 1]
      BY <1>1, <2>1 DEF Is
    <2>3. l < j
      BY <1>2, <2>1, <2>2
    <2> DEFINE next == l + 1
    <2>4. next \in 1..j /\ next - 1 = l
      BY <2>3
    <2>5. After(a, b, first, next)
      BY <1>6, <2>2, <2>4 DEF After
    <2>6. StartsPart(b, j, a) => next = j
      <3> SUFFICES ASSUME StartsPart(b, j, a) PROVE next = j
        OBVIOUS
      <3>1. j # 1
        BY <2>3
      <3>2. PICK x \in 1..Len(a) : a[x] = b[j - 1] /\ x <= first - 1 /\ j - 1 \in 1..Len(b)
        BY <1>4, <3>1
      <3>3. x < first - 1 \/ x = first - 1
        BY <3>2
      <3>4. j - 1 <= l
        <4> DEFINE c == first - 1
        <4> DEFINE y == j - 1
        <4>1. c \in 1..Len(a) /\ y \in 1..Len(b) /\ a[c] = b[l] /\ a[x] = b[y] /\ (x < c \/ x = c)
          BY <2>1, <2>2, <3>2, <3>3
        <4>. HIDE DEF c, y
        <4>2. (x < c <=> y < l) /\ (x = c <=> y = l)
          BY <4>1 DEF Ordered
        <4>3. y \in Nat /\ (y < l \/ y = l)
          BY <4>1, <4>2
        <4>4. y <= l
          BY <4>3
        <4>. QED
          BY <4>4 DEF y
      <3>. QED
        BY <2>3, <3>4
    <2>. QED
      BY <2>4, <2>5, <2>6
  <1>. QED
    BY <1>5, <1>6

\* Two parts that face each other are joined in both orders.
LEMMA FacingJoined ==
  ASSUME NEW F, NEW a \in Seq(F), NEW b \in Seq(F), Ordered(a, b), NEW i \in 1..Len(a), NEW j \in 1..Len(b),
         Face(a, i, b, j)
  PROVE  /\ EndsPart(a, i, b) /\ StartsPart(b, j, a) => <<a[i], b[j]>> \in find_edges(a, b)
         /\ EndsPart(b, j, a) /\ StartsPart(a, i, b) => <<b[j], a[i]>> \in find_edges(a, b)
  <1>0. ToSet(a) = {a[m] : m \in 1..Len(a)} /\ ToSet(b) = {b[m] : m \in 1..Len(b)} /\ a # <<>>
    BY Elements
  <1>1. \A x \in 1..Len(a), y \in 1..Len(b) : a[x] = b[y] => (x < i <=> y < j) /\ x # i /\ y # j
    BY BothBefore
  <1>2. ~Is(b, a[i])
    BY DEF Face, Is
  <1>3. ASSUME EndsPart(a, i, b), StartsPart(b, j, a) PROVE <<a[i], b[j]>> \in find_edges(a, b)
    <2>1. PICK first \in 1..i : Run(a, b, first, i)
      BY <1>2, RunTo
    <2>2. After(a, b, first, j)
      BY <1>3, <2>1, FacedFrom
    <2>3. CASE i = Len(a)
      <3>1. Len(b) \in 1..Len(b) /\ j \in 1..Len(b)
        OBVIOUS
      <3>2. Joins(a, b, first, i, j, Len(b)) \subseteq find_edges(a, b)
        BY <1>0, <2>1, <2>2, <2>3, <3>1, EdgesFound
      <3>. QED
        BY <3>2 DEF Joins
    <2>4. CASE i # Len(a)
      <3>1. i + 1 \in 1..Len(a) /\ i < Len(a) /\ a[i + 1] \in ToSet(b)
        BY <1>3, <2>4 DEF EndsPart
      <3>2. PICK k \in 1..Len(b) : a[i + 1] = b[k]
        BY <1>0, <3>1
      <3>3. k > j
        BY <1>1, <3>1, <3>2
      <3> DEFINE end == k - 1
      <3>4. end \in 1..Len(b) /\ j \in 1..end /\ end < Len(b) /\ b[end + 1] = a[i + 1]
        BY <3>2, <3>3
      <3>. HIDE DEF end
      <3>5. Joins(a, b, first, i, j, end) \subseteq find_edges(a, b)
        BY <1>0, <2>1, <2>2, <3>1, <3>4, EdgesFound
      <3>. QED
        BY <3>5 DEF Joins
    <2>. QED
      BY <2>3, <2>4
  <1>4. ASSUME EndsPart(b, j, a), StartsPart(a, i, b) PROVE <<b[j], a[i]>> \in find_edges(a, b)
    <2>1. PICK last \in i..Len(a) :
            (\A m \in i..last : ~Is(b, a[m])) /\ (last = Len(a) \/ (last < Len(a) /\ Is(b, a[last + 1])))
      BY <1>2, RunFrom
    <2>2. i = 1 \/ Is(b, a[i - 1])
      BY <1>4 DEF StartsPart, Is
    <2>3. Run(a, b, i, i) /\ Run(a, b, i, last) /\ last \in 1..Len(a) /\ i \in 1..i /\ i \in 1..last
      <3>1. \A m \in i..i : m = i
        OBVIOUS
      <3>. QED
        BY <1>2, <2>1, <2>2, <3>1 DEF Run
    <2>4. PICK next \in 1..j : After(a, b, i, next)
      BY <2>3, FacedFrom
    <2>5. \A x \in 1..Len(a), y \in 1..Len(b) : a[x] = b[y] /\ y > j => x > last
      <3> SUFFICES ASSUME NEW x \in 1..Len(a), NEW y \in 1..Len(b), a[x] = b[y], y > j PROVE x > last
        OBVIOUS
      <3>1. x > i
        BY <1>1
      <3>2. Is(b, a[x])
        BY <1>0 DEF Is
      <3>3. x \notin i..last
        BY <2>1, <3>2
      <3>. QED
        BY <3>1, <3>3
    <2>6. CASE last = Len(a)
      <3>1. j = Len(b)
        <4> SUFFICES ASSUME j # Len(b) PROVE FALSE
          OBVIOUS
        <4>1. j + 1 \in 1..Len(b) /\ b[j + 1] \in ToSet(a)
          BY <1>4 DEF EndsPart
        <4>2. PICK x \in 1..Len(a) : a[x] = b[j + 1]
          BY <1>0, <4>1
        <4>3. x > last
          BY <2>5, <4>1, <4>2
        <4>. QED
          BY <2>6, <4>3
      <3>2. Joins(a, b, i, last, next, j) \subseteq find_edges(a, b)
        BY <1>0, <2>3, <2>4, <2>6, <3>1, EdgesFound
      <3>. QED
        BY <3>2 DEF Joins
    <2>7. CASE last < Len(a) /\ Is(b, a[last + 1])
      <3>1. last + 1 \in 1..Len(a)
        BY <2>7
      <3>2. PICK k \in 1..Len(b) : b[k] = a[last + 1]
        BY <1>0, <2>7 DEF Is
      <3>3. k > j
        BY <1>1, <3>1, <3>2
      <3>4. k = j + 1
        <4>1. j + 1 \in 1..Len(b) /\ b[j + 1] \in ToSet(a)
          BY <1>4, <3>3 DEF EndsPart
        <4>2. PICK x \in 1..Len(a) : a[x] = b[j + 1]
          BY <1>0, <4>1
        <4>3. x > last
          BY <2>5, <4>1, <4>2
        <4>4. x = last + 1 \/ last + 1 < x
          BY <3>1, <4>3
        <4>5. k <= j + 1
          BY <3>1, <3>2, <4>1, <4>2, <4>4 DEF Ordered
        <4>. QED
          BY <3>3, <4>5
      <3>5. j < Len(b) /\ b[j + 1] = a[last + 1]
        BY <3>2, <3>4
      <3>6. Joins(a, b, i, last, next, j) \subseteq find_edges(a, b)
        BY <1>0, <2>3, <2>4, <2>7, <3>5, EdgesFound
      <3>. QED
        BY <3>6 DEF Joins
    <2>. QED
      BY <2>1, <2>6, <2>7
  <1>. QED
    BY <1>3, <1>4

\* So are they when the longer sequence is walked along: Combining exchanges the two.
LEMMA CombiningIs ==
  ASSUME NEW F, NEW u \in Seq(F), NEW v \in Seq(F), ~(ToSet(u) \subseteq ToSet(v)), ~(ToSet(v) \subseteq ToSet(u)),
         SameOrder(u, v), SameOrder(v, u), NEW i \in 1..Len(u), NEW j \in 1..Len(v), Face(u, i, v, j)
  PROVE  /\ EndsPart(u, i, v) /\ StartsPart(v, j, u) => <<u[i], v[j]>> \in Combining(u, v)
         /\ EndsPart(v, j, u) /\ StartsPart(u, i, v) => <<v[j], u[i]>> \in Combining(u, v)
  <1>0. ToSet(u) = {u[m] : m \in 1..Len(u)} /\ ToSet(v) = {v[m] : m \in 1..Len(v)}
    BY Elements
  <1>1. Ordered(u, v) /\ Ordered(v, u)
    BY OrderedIs
  <1>2. Face(v, j, u, i)
    BY DEF Face
  <1>3. CASE ToSet(u) \cap ToSet(v) = {}
    <2>1. Combining(u, v) = {<<Last(u), v[1]>>, <<Last(v), u[1]>>}
      <3>1. ToSet(v) \cap ToSet(u) = {}
        BY <1>3
      <3>. QED
        BY <1>3, <3>1 DEF Combining, Belongs
    <2>2. EndsPart(u, i, v) => i = Len(u)
      <3>1. i # Len(u) => i + 1 \in 1..Len(u)
        OBVIOUS
      <3>. QED
        BY <1>0, <1>3, <3>1 DEF EndsPart
    <2>3. EndsPart(v, j, u) => j = Len(v)
      <3>1. j # Len(v) => j + 1 \in 1..Len(v)
        OBVIOUS
      <3>. QED
        BY <1>0, <1>3, <3>1 DEF EndsPart
    <2>4. StartsPart(u, i, v) => i = 1
      <3>1. i # 1 => i - 1 \in 1..Len(u)
        OBVIOUS
      <3>. QED
        BY <1>0, <1>3, <3>1 DEF StartsPart
    <2>5. StartsPart(v, j, u) => j = 1
      <3>1. j # 1 => j - 1 \in 1..Len(v)
        OBVIOUS
      <3>. QED
        BY <1>0, <1>3, <3>1 DEF StartsPart
    <2>. QED
      BY <2>1, <2>2, <2>3, <2>4, <2>5 DEF Last
  <1>4. CASE ToSet(u) \cap ToSet(v) # {}
    <2>1. Combining(u, v) = IF Len(u) > Len(v) THEN find_edges(v, u) ELSE find_edges(u, v)
      <3>1. ToSet(v) \cap ToSet(u) # {}
        BY <1>4
      <3>. QED
        BY <1>4, <3>1 DEF Combining, Belongs
    <2>2. /\ EndsPart(u, i, v) /\ StartsPart(v, j, u) => <<u[i], v[j]>> \in find_edges(u, v)
          /\ EndsPart(v, j, u) /\ StartsPart(u, i, v) => <<v[j], u[i]>> \in find_edges(u, v)
      BY <1>1, FacingJoined
    <2>3. /\ EndsPart(v, j, u) /\ StartsPart(u, i, v) => <<v[j], u[i]>> \in find_edges(v, u)
          /\ EndsPart(u, i, v) /\ StartsPart(v, j, u) => <<u[i], v[j]>> \in find_edges(v, u)
      BY <1>1, <1>2, FacingJoined
    <2>. QED
      BY <2>1, <2>2, <2>3
  <1>. QED
    BY <1>3, <1>4

LEMMA FrontIs ==
  ASSUME NEW F, NEW q \in Seq(F), NEW n \in 2..Len(q)
  PROVE  Front(SubSeq(q, 1, n)) \in Seq(F)
  <1> DEFINE s == SubSeq(q, 1, n)
  <1>1. s \in Seq(F) /\ Len(s) = n
    OBVIOUS
  <1>. HIDE DEF s
  <1>2. SubSeq(s, 1, Len(s) - 1) \in Seq(F)
    BY <1>1
  <1>. QED
    BY <1>2 DEF Front, s

\* Every two sequences to a deep function are combined, in one of the two orders.
LEMMA AugmentedIs ==
  ASSUME NEW paths_df, NEW dk \in DOMAIN paths_df, NEW S, paths_df[dk] \in Seq(S), NEW p \in ToSet(paths_df[dk]),
         NEW q \in ToSet(paths_df[dk])
  PROVE  /\ \A n \in 1..Len(p) - 1 : <<p[n], p[n + 1]>> \in Augmented(paths_df)
         /\ p # q => Combining(Front(p), Front(q)) \subseteq Augmented(paths_df)
                     \/ Combining(Front(q), Front(p)) \subseteq Augmented(paths_df)
  <1> DEFINE s == paths_df[dk]
  <1> DEFINE Before(d, n) == Front(paths_df[d][n])
  <1> DEFINE pairs(d) == UNION {UNION {Combining(Before(d, a), Before(d, b)) : b \in a + 1..Len(paths_df[d])} :
                                a \in DOMAIN paths_df[d]}
  <1>1. Augmented(paths_df) = construct_fwrg_targets(paths_df) \cup UNION {pairs(d) : d \in DOMAIN paths_df}
    BY DEF Augmented
  <1>2. ASSUME NEW n \in 1..Len(p) - 1 PROVE <<p[n], p[n + 1]>> \in Augmented(paths_df)
    <2>1. <<p[n], p[n + 1]>> \in construct_fwrg_targets(paths_df)
      <3>1. p \in UNION {ToSet(paths_df[d]) : d \in DOMAIN paths_df}
        OBVIOUS
      <3>2. <<p[n], p[n + 1]>> \in {<<p[k], p[k + 1]>> : k \in 1..Len(p) - 1}
        OBVIOUS
      <3>. QED
        BY <3>1, <3>2 DEF construct_fwrg_targets
    <2>. QED
      BY <1>1, <2>1
  <1>3. ASSUME NEW a \in 1..Len(s), NEW b \in 1..Len(s), a < b
        PROVE  Combining(Front(s[a]), Front(s[b])) \subseteq Augmented(paths_df)
    <2>1. a \in DOMAIN s /\ b \in a + 1..Len(s)
      BY <1>3
    <2>2. Combining(Before(dk, a), Before(dk, b)) \subseteq pairs(dk)
      BY <2>1
    <2>. HIDE DEF pairs
    <2>3. pairs(dk) \subseteq Augmented(paths_df)
      BY <1>1
    <2>. QED
      BY <2>2, <2>3
  <1>4. ToSet(s) = {s[a] : a \in 1..Len(s)}
    BY Elements
  <1>5. ASSUME p # q
        PROVE  Combining(Front(p), Front(q)) \subseteq Augmented(paths_df)
               \/ Combining(Front(q), Front(p)) \subseteq Augmented(paths_df)
    <2>1. PICK a \in 1..Len(s) : p = s[a]
      BY <1>4
    <2>2. PICK b \in 1..Len(s) : q = s[b]
      BY <1>4
    <2>3. a < b \/ b < a
      BY <1>5, <2>1, <2>2
    <2>. QED
      BY <1>3, <2>1, <2>2, <2>3
  <1>. QED
    BY <1>2, <1>5

\* Between two sequences that lead to the same deep function with their common functions in one
\* order, add_edges_1 adds an edge from the end of every part to the start of the part that faces it,
\* whichever of the two is found first.
THEOREM SpecSequencesCombined == Spec => []SequencesCombined
  <1>1. GraphInv => SequencesCombined
    <2> SUFFICES ASSUME GraphInv, phase = "guided" PROVE SequencesCombined
      BY DEF SequencesCombined
    <2> DEFINE N == Len(contract.functions)
    <2> DEFINE fwrg == _generate_fwrg(slots.write_slots, slots.read_slots_in_conditions)
    <2> DEFINE paths_df == AcyclicPath(fwrg, starts, graph.dk)
    <2>1. N \in Nat /\ Functions = 1..N /\ starts \in Seq(1..N) /\ DOMAIN slots.read_slots_in_conditions = Functions
      BY ContractsAssumption DEF GraphInv, Functions
    <2>2. \A g \in 1..N : Listed(fwrg, g) \subseteq 1..N
      BY <2>1 DEF Listed, _generate_fwrg
    <2>3. graph.paths_df = paths_df /\ graph.augmented = Augmented(paths_df)
      <3>1. graph = Graph(starts, graph.dk)
        BY DEF GraphInv
      <3>2. \A dk : Graph(starts, dk).paths_df = AcyclicPath(fwrg, starts, dk)
                    /\ Graph(starts, dk).augmented = Augmented(AcyclicPath(fwrg, starts, dk))
        BY DEF Graph
      <3>. QED
        BY <3>1, <3>2
    <2>. HIDE DEF N, fwrg
    <2>4. AllPaths(fwrg, starts) \subseteq Seq(1..N) /\ Acyclic(fwrg, starts, graph.dk, paths_df)
      BY <2>1, <2>2, AcyclicAre
    <2>. HIDE DEF paths_df
    <2>5. ASSUME NEW f \in DOMAIN paths_df, NEW p \in ToSet(paths_df[f])
          PROVE  Front(p) \in Seq(1..N)
      <3>1. PICK q \in AllPaths(fwrg, starts) : p \in CutsOf(q, f)
        BY <2>4 DEF Acyclic
      <3>2. PICK n \in 2..Len(q) : p = SubSeq(q, 1, n)
        BY <3>1 DEF CutsOf
      <3>3. q \in Seq(1..N)
        BY <2>4
      <3>. QED
        BY <3>2, <3>3, FrontIs
    <2>6. ASSUME NEW f \in DOMAIN paths_df PROVE paths_df[f] \in Seq(ToSet(paths_df[f]))
      BY <2>4 DEF Acyclic
    <2>7. ASSUME NEW f \in DOMAIN paths_df, NEW p \in ToSet(paths_df[f]), NEW n \in 1..Len(p) - 1
          PROVE  <<p[n], p[n + 1]>> \in Augmented(paths_df)
      BY <2>6, AugmentedIs
    <2>8. ASSUME NEW f \in DOMAIN paths_df, NEW p \in ToSet(paths_df[f]), NEW q \in ToSet(paths_df[f]),
                 ~(ToSet(Front(p)) \subseteq ToSet(Front(q))), ~(ToSet(Front(q)) \subseteq ToSet(Front(p))),
                 SameOrder(Front(p), Front(q)), SameOrder(Front(q), Front(p)),
                 NEW i \in DOMAIN Front(p), NEW j \in DOMAIN Front(q),
                 Face(Front(p), i, Front(q), j), EndsPart(Front(p), i, Front(q)), StartsPart(Front(q), j, Front(p))
          PROVE  <<Front(p)[i], Front(q)[j]>> \in Augmented(paths_df)
      <3> DEFINE a == Front(p)
      <3> DEFINE b == Front(q)
      <3>1. a \in Seq(1..N) /\ b \in Seq(1..N)
        BY <2>5
      <3>2. p # q
        BY <2>8
      <3>3. Combining(a, b) \subseteq Augmented(paths_df) \/ Combining(b, a) \subseteq Augmented(paths_df)
        BY <2>6, <3>2, AugmentedIs
      <3>4. ~(ToSet(a) \subseteq ToSet(b)) /\ ~(ToSet(b) \subseteq ToSet(a)) /\ SameOrder(a, b) /\ SameOrder(b, a)
            /\ Face(a, i, b, j) /\ Face(b, j, a, i) /\ EndsPart(a, i, b) /\ StartsPart(b, j, a)
        BY <2>8 DEF Face
      <3>5. i \in 1..Len(a) /\ j \in 1..Len(b)
        BY <3>1
      <3>. HIDE DEF a, b
      <3>6. <<a[i], b[j]>> \in Combining(a, b)
        BY <3>1, <3>4, <3>5, CombiningIs
      <3>7. <<a[i], b[j]>> \in Combining(b, a)
        BY <3>1, <3>4, <3>5, CombiningIs
      <3>8. <<a[i], b[j]>> \in Augmented(paths_df)
        BY <3>3, <3>6, <3>7
      <3>. QED
        BY <3>8 DEF a, b
    <2>. QED
      BY <2>3, <2>7, <2>8 DEF SequencesCombined
  <1>2. Spec => []GraphInv
    BY SpecGraph
  <1>. QED
    BY <1>1, <1>2, PTL

-------------------------------------------------------------------------------
(* The statements that paths reach *)

Closed(body, S) == \A pc \in S : Reaches(body, pc) \subseteq S
Further(body, S) == S \cup UNION {Reaches(body, pc) : pc \in S}

\* What at most n steps reach.
Steps(R, body) ==
  /\ R \in [0..Len(body) -> SUBSET DOMAIN body]
  /\ R[0] = {1} /\ \A n \in 0..Len(body) - 1 : R[n + 1] = Further(body, R[n])
  /\ Reachable(body) = R[Len(body)]

\* The recursion that Reachable is defined by.
LEMMA ReachableIs ==
  ASSUME NEW S, NEW body \in Seq(S), body # <<>>, \A pc \in DOMAIN body : Reaches(body, pc) \subseteq DOMAIN body
  PROVE  \E R : Steps(R, body)
  <1> DEFINE M == Len(body)
  <1> DEFINE D == DOMAIN body
  <1> DEFINE X == SUBSET D
  <1> DEFINE upto[n \in 0..M] ==
        IF n = 0 THEN {1} ELSE LET seen == upto[n - 1] IN seen \cup UNION {Reaches(body, pc) : pc \in seen}
  <1>0. M \in Nat /\ 1 \in D /\ D = 1..M
    OBVIOUS
  <1>1. Reachable(body) = upto[M]
    BY DEF Reachable
  <1> DEFINE step == [z \in Nat \X X |-> Further(body, z[2])]
  <1>. HIDE DEF M
  <1>2. step \in [Nat \X X -> X]
    <2>1. \A x \in X : Further(body, x) \in X
      BY DEF Further
    <2>. HIDE DEF X
    <2>. QED
      BY <2>1
  <1>3. {1} \in X
    BY <1>0
  <1>. HIDE DEF X
  <1>4. PICK R \in [0..M -> X] : Folds(R, 0..M, {1}, step)
    <2>. HIDE DEF step
    <2>. QED
      BY <1>0, <1>2, <1>3, NumberPrefixes, Folding
  <1>5. ASSUME NEW n \in 0..M, n # 0 PROVE step[<<n, R[n - 1]>>] = Further(body, R[n - 1])
    <2>1. n - 1 \in 0..M /\ n \in Nat
      BY <1>0, <1>5
    <2>2. R[n - 1] \in X /\ <<n, R[n - 1]>> \in Nat \X X
      BY <2>1
    <2>. QED
      BY <2>2
  <1>. HIDE DEF step
  <1>6. R = [n \in 0..M |-> IF n = 0 THEN {1} ELSE Further(body, R[n - 1])]
    BY <1>4, <1>5 DEF Folds
  <1>7. upto = [n \in 0..M |-> IF n = 0 THEN {1} ELSE Further(body, upto[n - 1])]
    BY <1>6 DEF Further
  <1>. HIDE DEF upto
  <1>8. upto \in [0..M -> X]
    <2> DEFINE T == {n \in Nat : n <= M => upto[n] = R[n]}
    <2>1. 0 \in T
      BY <1>0, <1>6, <1>7
    <2>2. ASSUME NEW n \in Nat, n \in T PROVE n + 1 \in T
      <3> SUFFICES ASSUME n + 1 <= M PROVE upto[n + 1] = R[n + 1]
        OBVIOUS
      <3>1. n + 1 \in 0..M /\ (n + 1) - 1 = n /\ n + 1 # 0 /\ upto[n] = R[n]
        BY <1>0, <2>2
      <3>2. upto[n + 1] = Further(body, upto[n])
        BY <1>7, <3>1
      <3>3. R[n + 1] = Further(body, R[n])
        BY <1>6, <3>1
      <3>. QED
        BY <3>1, <3>2, <3>3
    <2>. HIDE DEF T
    <2>3. \A n \in Nat : n \in T
      BY <2>1, <2>2, Inductive
    <2>4. \A n \in 0..M : upto[n] = R[n]
      BY <1>0, <2>3 DEF T
    <2>. QED
      BY <1>7, <2>4
  <1>9. \A n \in 0..M - 1 : upto[n + 1] = Further(body, upto[n])
    <2>1. \A n \in 0..M - 1 : n + 1 \in 0..M /\ (n + 1) - 1 = n /\ n + 1 # 0
      BY <1>0
    <2>. QED
      BY <1>7, <2>1
  <1>10. upto[0] = {1}
    BY <1>0, <1>7
  <1>11. Steps(upto, body)
    BY <1>1, <1>8, <1>9, <1>10 DEF Steps, M, X
  <1>. QED
    BY <1>11

\* What some path reaches is closed: as many steps as there are statements suffice.
LEMMA ReachableCloses ==
  ASSUME NEW S, NEW body \in Seq(S), body # <<>>, \A pc \in DOMAIN body : Reaches(body, pc) \subseteq DOMAIN body
  PROVE  1 \in Reachable(body) /\ Reachable(body) \subseteq DOMAIN body /\ Closed(body, Reachable(body))
  <1> DEFINE M == Len(body)
  <1>0. M \in Nat /\ DOMAIN body = 1..M
    OBVIOUS
  <1>1. PICK R : Steps(R, body)
    BY ReachableIs
  <1>2. /\ R[0] = {1} /\ Reachable(body) = R[M]
        /\ \A n \in 0..M : R[n] \subseteq 1..M
        /\ \A n \in 0..M - 1 : R[n + 1] = Further(body, R[n])
    BY <1>0, <1>1 DEF Steps
  <1>. HIDE DEF M
  <1>3. IsFiniteSet(1..M) /\ Cardinality(1..M) = M
    BY <1>0, FS_Interval
  <1>4. \A n \in 0..M : IsFiniteSet(R[n]) /\ Cardinality(R[n]) \in Nat /\ Cardinality(R[n]) <= M
    <2> SUFFICES ASSUME NEW n \in 0..M PROVE IsFiniteSet(R[n]) /\ Cardinality(R[n]) \in Nat /\ Cardinality(R[n]) <= M
      OBVIOUS
    <2>1. R[n] \subseteq 1..M
      BY <1>2
    <2>2. IsFiniteSet(R[n])
      BY <1>3, <2>1, FS_Subset
    <2>. QED
      BY <1>3, <2>1, <2>2, FS_Subset, FS_CardinalityType
  <1> DEFINE T == {n \in Nat : n <= M => 1 \in R[n] /\ (Closed(body, R[n]) \/ Cardinality(R[n]) > n)}
  <1>5. 0 \in T
    <2>1. Cardinality({1}) = 1
      BY FS_Singleton
    <2>2. 1 \in R[0] /\ Cardinality(R[0]) = 1
      BY <1>2, <2>1
    <2>3. 1 \in R[0] /\ Cardinality(R[0]) > 0
      BY <2>2
    <2>. QED
      BY <2>3
  <1>6. ASSUME NEW n \in Nat, n \in T PROVE n + 1 \in T
    <2> SUFFICES ASSUME n + 1 <= M PROVE 1 \in R[n + 1] /\ (Closed(body, R[n + 1]) \/ Cardinality(R[n + 1]) > n + 1)
      OBVIOUS
    <2>1. n \in 0..M /\ n + 1 \in 0..M /\ n \in 0..M - 1 /\ 1 \in R[n] /\ (Closed(body, R[n]) \/ Cardinality(R[n]) > n)
      BY <1>0, <1>6
    <2>2. R[n + 1] = Further(body, R[n])
      BY <1>2, <2>1
    <2>3. CASE Closed(body, R[n])
      <3>1. R[n + 1] = R[n]
        BY <2>2, <2>3 DEF Further, Closed
      <3>. QED
        BY <2>1, <2>3, <3>1
    <2>4. CASE ~Closed(body, R[n])
      <3>1. R[n] \subseteq R[n + 1] /\ R[n] # R[n + 1]
        BY <2>2, <2>4 DEF Further, Closed
      <3>2. Cardinality(R[n]) < Cardinality(R[n + 1])
        BY <1>4, <2>1, <3>1, FS_Subset
      <3>3. Cardinality(R[n]) \in Nat /\ Cardinality(R[n + 1]) \in Nat /\ Cardinality(R[n]) > n
        BY <1>4, <2>1, <2>4
      <3>. QED
        BY <2>1, <3>1, <3>2, <3>3
    <2>. QED
      BY <2>3, <2>4
  <1>. HIDE DEF T
  <1>7. M \in T
    BY <1>0, <1>5, <1>6, Inductive
  <1>8. M \in 0..M
    BY <1>0
  <1>9. 1 \in R[M] /\ Closed(body, R[M])
    <2>1. Cardinality(R[M]) \in Nat /\ Cardinality(R[M]) <= M
      BY <1>4, <1>8
    <2>. QED
      BY <1>0, <1>7, <2>1 DEF T
  <1>. QED
    BY <1>0, <1>2, <1>8, <1>9

-------------------------------------------------------------------------------
(* What the preprocessing has found *)

Body(f) == contract.functions[f]
States == [fn : Nat, pc : Nat, trace : Seq(Nat \X Nat), stores : Seq(Locations)]
Entered == State(0, 0, [trace |-> <<>>, stores |-> contract.stores])

\* The states of a preprocessing.
Fine(s) ==
  /\ s \in States
  /\ contract.stores # <<>> => s.stores # <<>>
  /\ s.fn = 0 => s = Entered
  /\ s.fn # 0 =>
       /\ s.fn \in Functions /\ s.pc \in Reachable(Body(s.fn))
       /\ ToSet(s.stores) \subseteq Stored(s.fn)

\* What the tables t hold of a state that has been executed.
Condition(s) == [fn |-> s.fn, address |-> s.pc, reads |-> Statement(s).reads, shape |-> Statement(s).shape,
                 stores |-> s.stores]
Noted(s, t) ==
  s.fn # 0 /\ ~Dropped(s) =>
    /\ Statement(s).op = "SSTORE" => Recorded(s) \in t.writes
    /\ Statement(s).op = "JUMPI" /\ Statement(s).shape # "long" => Condition(s) \in t.conditions

\* D has been executed, work is left.
Exploring(D, work, t) ==
  /\ Entered \in D \cup ToSet(work)
  /\ \A s \in D \cup ToSet(work) : Fine(s)
  /\ \A s \in D : Noted(s, t) /\ (~Dropped(s) => ToSet(Successors(s)) \subseteq D \cup ToSet(work))

\* Nothing else is in the tables.
Sound(t) ==
  /\ t = [indices |-> t.indices, reads |-> t.reads, writes |-> t.writes, conditions |-> t.conditions]
  /\ \A e \in t.writes :
       /\ e.fn \in Functions /\ e.address \in Reachable(Body(e.fn))
       /\ Body(e.fn)[e.address].op = "SSTORE" /\ e.loc \in ToSet(Body(e.fn)[e.address].locs)

\* A contract's functions.
LEMMA BodyIs ==
  ASSUME contract \in Contracts, NEW f \in Functions
  PROVE  /\ f \in Nat /\ f # 0 /\ f \in DOMAIN contract.functions
         /\ Body(f) \in Seq(Statements) /\ Body(f) # <<>>
         /\ \A pc \in DOMAIN Body(f) : Reaches(Body(f), pc) \subseteq DOMAIN Body(f)
         /\ \A pc \in DOMAIN Body(f) : Body(f)[pc].op \in {"SLOAD", "SSTORE"} => Body(f)[pc].locs # <<>>
         /\ 1 \in Reachable(Body(f)) /\ Reachable(Body(f)) \subseteq DOMAIN Body(f)
         /\ contract.entry[f] \in Nat
         /\ Closed(Body(f), Reachable(Body(f)))
  <1>1. contract.functions \in Seq(Seq(Statements)) /\ contract.functions # <<>>
    BY ContractsAssumption
  <1>2. f \in Nat /\ f # 0 /\ f \in DOMAIN contract.functions
    BY <1>1 DEF Functions
  <1>3. Body(f) \in Seq(Statements)
    BY <1>1, <1>2 DEF Body
  <1>4. /\ Body(f) # <<>>
        /\ \A pc \in DOMAIN Body(f) : Reaches(Body(f), pc) \subseteq DOMAIN Body(f)
        /\ \A pc \in DOMAIN Body(f) : Body(f)[pc].op \in {"SLOAD", "SSTORE"} => Body(f)[pc].locs # <<>>
    BY <1>2, ContractsAssumption DEF Body
  <1>5. 1 \in Reachable(Body(f)) /\ Reachable(Body(f)) \subseteq DOMAIN Body(f) /\ Closed(Body(f), Reachable(Body(f)))
    BY <1>3, <1>4, ReachableCloses
  <1>6. contract.entry[f] \in Nat
    BY <1>2, ContractsAssumption
  <1>. QED
    BY <1>2, <1>3, <1>4, <1>5, <1>6

\* The statement of a state, and its location.
LEMMA StatementIs ==
  ASSUME contract \in Contracts, NEW s, Fine(s), s.fn # 0
  PROVE  /\ s.fn \in Functions /\ s.pc \in Reachable(Body(s.fn)) /\ s.pc \in DOMAIN Body(s.fn)
         /\ s.pc \in Nat /\ s.trace \in Seq(Nat \X Nat) /\ s.stores \in Seq(Locations)
         /\ Statement(s) = Body(s.fn)[s.pc] /\ Statement(s) \in Statements
         /\ Reaches(Body(s.fn), s.pc) \subseteq Reachable(Body(s.fn))
         /\ Statement(s).op \in {"SLOAD", "SSTORE"} => Location(s) \in ToSet(Statement(s).locs) /\ Location(s) \in Locations
  <1>1. s.fn \in Functions /\ s.pc \in Reachable(Body(s.fn)) /\ s \in States
    BY DEF Fine
  <1>2. s.pc \in DOMAIN Body(s.fn) /\ Body(s.fn) \in Seq(Statements) /\ Reaches(Body(s.fn), s.pc) \subseteq Reachable(Body(s.fn))
    BY <1>1, BodyIs DEF Closed
  <1>3. Statement(s) = Body(s.fn)[s.pc]
    BY DEF Statement, Body
  <1>4. Statement(s) \in Statements
    BY <1>2, <1>3
  <1>5. s.pc \in Nat /\ s.trace \in Seq(Nat \X Nat) /\ s.stores \in Seq(Locations)
    BY <1>1 DEF States
  <1>6. ASSUME Statement(s).op \in {"SLOAD", "SSTORE"}
        PROVE  Location(s) \in ToSet(Statement(s).locs) /\ Location(s) \in Locations
    <2> DEFINE locs == Statement(s).locs
    <2> DEFINE V == {n \in DOMAIN s.trace : s.trace[n] = Address(s)}
    <2>1. locs \in Seq(Locations) /\ locs # <<>>
      <3>1. locs # <<>>
        BY <1>1, <1>2, <1>3, <1>6, BodyIs
      <3>. QED
        BY <1>4, <3>1 DEF Statements
    <2>2. Cardinality(V) \in Nat
      <3>1. DOMAIN s.trace = 1..Len(s.trace) /\ Len(s.trace) \in Nat
        BY <1>5
      <3>2. IsFiniteSet(DOMAIN s.trace)
        BY <3>1, FS_Interval
      <3>. QED
        BY <3>2, FS_Subset, FS_CardinalityType
    <2>3. Location(s) = locs[IF Cardinality(V) < Len(locs) THEN Cardinality(V) + 1 ELSE Len(locs)]
      BY DEF Location
    <2>. HIDE DEF V, locs
    <2>4. Len(locs) \in Nat /\ Len(locs) # 0
      BY <2>1
    <2>5. (IF Cardinality(V) < Len(locs) THEN Cardinality(V) + 1 ELSE Len(locs)) \in 1..Len(locs)
      BY <2>2, <2>4
    <2>6. ToSet(locs) = {locs[i] : i \in 1..Len(locs)} /\ ToSet(locs) \subseteq Locations
      BY <2>1, Elements
    <2>7. Location(s) \in ToSet(locs)
      BY <2>3, <2>5, <2>6
    <2>. QED
      BY <2>6, <2>7 DEF locs
  <1>. QED
    BY <1>1, <1>2, <1>3, <1>4, <1>5, <1>6

\* The states that come after s.
Leads(s, next) ==
  /\ next \in Seq(States)
  /\ \A t \in ToSet(next) : Fine(t)
  /\ s.fn = 0 => \A f \in Functions : State(f, 1, Seen(s)) \in ToSet(next)
  /\ s.fn # 0 =>
       \A pc \in Reaches(Body(s.fn), s.pc) :
         \E t \in ToSet(next) : t.fn = s.fn /\ t.pc = pc /\ t.trace = Append(s.trace, <<s.fn, s.pc>>)

\* The trace of a state after its statement.
LEMMA SeenIs ==
  ASSUME NEW s \in States
  PROVE  Seen(s).trace = Append(s.trace, <<s.fn, s.pc>>) /\ Seen(s).stores = s.stores
         /\ Append(s.trace, <<s.fn, s.pc>>) \in Seq(Nat \X Nat)
  BY DEF Seen, Address, States

\* A state of a function after a statement.
LEMMA Follows ==
  ASSUME contract \in Contracts, NEW s, Fine(s), s.fn # 0, NEW pc \in Reaches(Body(s.fn), s.pc),
         NEW stores \in Seq(Locations), contract.stores # <<>> => stores # <<>>, ToSet(stores) \subseteq Stored(s.fn),
         NEW t, t = [fn |-> s.fn, pc |-> pc, trace |-> Append(s.trace, <<s.fn, s.pc>>), stores |-> stores]
  PROVE  t \in States /\ Fine(t)
  <1>1. s.fn \in Functions /\ pc \in Reachable(Body(s.fn)) /\ s \in States
    BY StatementIs DEF Fine
  <1>2. pc \in Nat /\ s.fn \in Nat
    <2>1. pc \in DOMAIN Body(s.fn) /\ Body(s.fn) \in Seq(Statements) /\ s.fn \in Nat
      BY <1>1, BodyIs
    <2>. QED
      BY <2>1
  <1>3. Append(s.trace, <<s.fn, s.pc>>) \in Seq(Nat \X Nat)
    BY <1>1, SeenIs
  <1>4. t \in States
    BY <1>2, <1>3 DEF States
  <1>. QED
    BY <1>1, <1>4 DEF Fine

\* The elements of a pair.
LEMMA Pair ==
  ASSUME NEW S, NEW x \in S, NEW y \in S
  PROVE  <<x, y>> \in Seq(S) /\ ToSet(<<x, y>>) = {x, y}
  <1>1. <<x, y>> \in Seq(S) /\ Len(<<x, y>>) = 2 /\ <<x, y>>[1] = x /\ <<x, y>>[2] = y
    OBVIOUS
  <1>2. 1..2 = {1, 2}
    OBVIOUS
  <1>3. ToSet(<<x, y>>) = {<<x, y>>[i] : i \in 1..Len(<<x, y>>)}
    BY <1>1, Elements
  <1>. QED
    BY <1>1, <1>2, <1>3

\* Each statement that can come after that of s has a state, and every such state is Fine.
LEMMA SuccessorsAre ==
  ASSUME contract \in Contracts, NEW s, Fine(s)
  PROVE  Leads(s, Successors(s))
  <1>0. s \in States
    BY DEF Fine
  <1>1. CASE s.fn = 0
    <2>1. s = Entered
      BY <1>1 DEF Fine
    <2>2. Dispatching(s) /\ s.stores = contract.stores /\ contract.stores \in Seq(Locations)
      BY <1>1, <2>1, ContractsAssumption DEF Dispatching, Entered, State
    <2> DEFINE t == Seen(s)
    <2>3. Successors(s) = [f \in Functions |-> State(f, 1, t)]
      BY <2>2 DEF Successors
    <2>4. t.trace \in Seq(Nat \X Nat) /\ t.stores = contract.stores
      BY <1>0, <2>2, SeenIs
    <2>. HIDE DEF t
    <2>5. ASSUME NEW f \in Functions PROVE Fine(State(f, 1, t)) /\ State(f, 1, t) \in States
      <3>1. f \in Nat /\ f # 0 /\ 1 \in Reachable(Body(f))
        BY BodyIs
      <3>2. ToSet(contract.stores) \subseteq Stored(f)
        BY DEF Stored
      <3>3. State(f, 1, t) \in States
        BY <2>2, <2>4, <3>1 DEF State, States
      <3>. QED
        BY <2>4, <3>1, <3>2, <3>3 DEF State, Fine
    <2>6. Functions = 1..Len(contract.functions) /\ Len(contract.functions) \in Nat
      BY ContractsAssumption DEF Functions
    <2>7. Successors(s) \in Seq(States) /\ Len(Successors(s)) = Len(contract.functions)
      BY <2>3, <2>5, <2>6
    <2>8. ToSet(Successors(s)) = {State(f, 1, t) : f \in Functions}
      <3>1. ToSet(Successors(s)) = {Successors(s)[i] : i \in 1..Len(Successors(s))}
        BY <2>7, Elements
      <3>. QED
        BY <2>3, <2>6, <2>7, <3>1
    <2>. QED
      BY <1>1, <2>5, <2>7, <2>8 DEF Leads, t
  <1>2. CASE s.fn # 0
    <2> DEFINE st == Statement(s)
    <2> DEFINE body == Body(s.fn)
    <2> DEFINE Then(pc, stores) == [fn |-> s.fn, pc |-> pc, trace |-> Append(s.trace, <<s.fn, s.pc>>), stores |-> stores]
    <2>1. /\ st = body[s.pc] /\ st.op \in Operations /\ s.stores \in Seq(Locations) /\ ~Dispatching(s)
          /\ st.op \in {"SLOAD", "SSTORE"} => Location(s) \in ToSet(st.locs) /\ Location(s) \in Locations
      BY <1>2, StatementIs DEF Dispatching, Statements
    <2>2. Seen(s).trace = Append(s.trace, <<s.fn, s.pc>>) /\ Seen(s).stores = s.stores
      BY <1>0, SeenIs
    <2>3. (contract.stores # <<>> => s.stores # <<>>) /\ ToSet(s.stores) \subseteq Stored(s.fn)
      BY <1>2 DEF Fine
    <2>4. ASSUME NEW pc \in Reaches(body, s.pc)
          PROVE  Fine(Then(pc, s.stores)) /\ Then(pc, s.stores) \in States
      BY <1>2, <2>1, <2>3, Follows
    <2>5. \A pc : State(s.fn, pc, Seen(s)) = Then(pc, s.stores)
      BY <2>2 DEF State
    <2>11. \A pc, stores : /\ Then(pc, stores).fn = s.fn /\ Then(pc, stores).pc = pc
                           /\ Then(pc, stores).trace = Append(s.trace, <<s.fn, s.pc>>)
      OBVIOUS
    <2>. HIDE DEF body, st, Then
    <2>12. ASSUME NEW pc, NEW stores, Reaches(body, s.pc) = {pc}, Fine(Then(pc, stores)), Then(pc, stores) \in States,
                 Successors(s) = <<Then(pc, stores)>>
          PROVE  Leads(s, Successors(s))
      <3>1. Successors(s) \in Seq(States) /\ ToSet(Successors(s)) = {Then(pc, stores)}
        BY <2>12, Single
      <3>2. \A q \in Reaches(body, s.pc) : q = pc
        BY <2>12
      <3>3. \A t \in ToSet(Successors(s)) : Fine(t)
        BY <2>12, <3>1
      <3>4. Then(pc, stores) \in ToSet(Successors(s))
        BY <3>1
      <3>. QED
        BY <1>2, <2>11, <3>1, <3>2, <3>3, <3>4 DEF Leads, body
    <2>6. CASE st.op \in {"SLOAD", "JUMPDEST"}
      <3>1. Reaches(body, s.pc) = {s.pc + 1}
        BY <2>1, <2>6 DEF Reaches
      <3>2. Successors(s) = <<State(s.fn, s.pc + 1, Seen(s))>>
        BY <2>1, <2>6 DEF Successors, st
      <3>3. Fine(Then(s.pc + 1, s.stores)) /\ Then(s.pc + 1, s.stores) \in States
        BY <2>4, <3>1
      <3>4. Successors(s) = <<Then(s.pc + 1, s.stores)>>
        BY <2>5, <3>2
      <3>. QED
        BY <2>12, <3>1, <3>3, <3>4
    <2>7. CASE st.op = "SSTORE"
      <3> DEFINE stores == Append(s.stores, Location(s))
      <3>1. Reaches(body, s.pc) = {s.pc + 1}
        BY <2>1, <2>7 DEF Reaches
      <3>2. Successors(s) = <<State(s.fn, s.pc + 1, [Seen(s) EXCEPT !.stores = Append(@, Location(s))])>>
        BY <2>1, <2>7 DEF Successors, st
      <3>3. [Seen(s) EXCEPT !.stores = Append(@, Location(s))].stores = stores
            /\ [Seen(s) EXCEPT !.stores = Append(@, Location(s))].trace = Append(s.trace, <<s.fn, s.pc>>)
        BY <1>0, <2>2 DEF Seen, States
      <3>4. stores \in Seq(Locations) /\ stores # <<>> /\ ToSet(stores) = ToSet(s.stores) \cup {Location(s)}
        BY <2>1, <2>7, Elements
      <3>5. Location(s) \in Stored(s.fn)
        <4>1. st \in Reached(s.fn, "SSTORE")
          <5>1. s.pc \in Reachable(body)
            BY <1>2, StatementIs DEF body
          <5>. QED
            BY <2>1, <2>7, <5>1 DEF Reached, body, Body
        <4>. QED
          BY <2>1, <2>7, <4>1 DEF Stored
      <3>6. ToSet(stores) \subseteq Stored(s.fn)
        BY <2>3, <3>4, <3>5
      <3>. HIDE DEF stores
      <3>7. Fine(Then(s.pc + 1, stores)) /\ Then(s.pc + 1, stores) \in States
        <4>1. s.pc + 1 \in Reaches(Body(s.fn), s.pc)
          BY <3>1 DEF body
        <4>2. Then(s.pc + 1, stores)
                = [fn |-> s.fn, pc |-> s.pc + 1, trace |-> Append(s.trace, <<s.fn, s.pc>>), stores |-> stores]
          BY DEF Then
        <4>. QED
          BY <1>2, <3>4, <3>6, <4>1, <4>2, Follows
      <3>8. Successors(s) = <<Then(s.pc + 1, stores)>>
        BY <3>2, <3>3 DEF State, Then
      <3>. QED
        BY <2>12, <3>1, <3>7, <3>8
    <2>8. CASE st.op = "JUMP"
      <3>1. Reaches(body, s.pc) = {st.to}
        BY <2>1, <2>8 DEF Reaches
      <3>2. Successors(s) = <<State(s.fn, st.to, Seen(s))>>
        BY <2>1, <2>8 DEF Successors, st
      <3>3. Fine(Then(st.to, s.stores)) /\ Then(st.to, s.stores) \in States
        BY <2>4, <3>1
      <3>4. Successors(s) = <<Then(st.to, s.stores)>>
        BY <2>5, <3>2
      <3>. QED
        BY <2>12, <3>1, <3>3, <3>4
    <2>9. CASE st.op = "JUMPI"
      <3>1. Reaches(body, s.pc) = {s.pc + 1, st.to}
        BY <2>1, <2>9 DEF Reaches
      <3>2. Successors(s) = <<State(s.fn, s.pc + 1, Seen(s)), State(s.fn, st.to, Seen(s))>>
        BY <2>1, <2>9 DEF Successors, st
      <3> DEFINE x == Then(s.pc + 1, s.stores)
      <3> DEFINE y == Then(st.to, s.stores)
      <3>3. Fine(x) /\ x \in States /\ Fine(y) /\ y \in States
        BY <2>4, <3>1
      <3>4. Successors(s) = <<x, y>>
        BY <2>5, <3>2
      <3>5. x.fn = s.fn /\ x.pc = s.pc + 1 /\ x.trace = Append(s.trace, <<s.fn, s.pc>>)
            /\ y.fn = s.fn /\ y.pc = st.to /\ y.trace = Append(s.trace, <<s.fn, s.pc>>)
        BY <2>11
      <3>. HIDE DEF x, y
      <3>6. Successors(s) \in Seq(States) /\ ToSet(Successors(s)) = {x, y}
        BY <3>3, <3>4, Pair
      <3>7. \A t \in ToSet(Successors(s)) : Fine(t)
        BY <3>3, <3>6
      <3>8. x \in ToSet(Successors(s)) /\ y \in ToSet(Successors(s))
        BY <3>6
      <3>9. \A pc \in Reaches(body, s.pc) : pc = s.pc + 1 \/ pc = st.to
        BY <3>1
      <3>. QED
        BY <1>2, <3>5, <3>6, <3>7, <3>8, <3>9 DEF Leads, body
    <2>10. CASE st.op \in {"STOP", "REVERT", "INVALID"}
      <3>1. Reaches(body, s.pc) = {}
        BY <2>1, <2>10 DEF Reaches
      <3>2. Successors(s) = <<>>
        BY <2>1, <2>10 DEF Successors, st
      <3>3. ToSet(<<>>) = {}
        BY DEF ToSet
      <3>4. Successors(s) \in Seq(States)
        BY <3>2
      <3>5. ToSet(Successors(s)) = {}
        BY <3>2, <3>3
      <3>. QED
        BY <1>2, <3>1, <3>4, <3>5 DEF Leads, body
    <2>. QED
      BY <2>1, <2>6, <2>7, <2>8, <2>9, <2>10 DEF Operations
  <1>. QED
    BY <1>1, <1>2

\* What a preprocessing without work has executed.
Whole(D, t) ==
  /\ Entered \in D
  /\ \A s \in D : Fine(s) /\ Noted(s, t) /\ (~Dropped(s) => ToSet(Successors(s)) \subseteq D)

Stands(s, f, pc) == s.fn = f /\ s.pc = pc

\* The conditional jumps of a function, and the bound that they leave.
Jumps(f) == {pc \in DOMAIN Body(f) : Body(f)[pc].op = "JUMPI"}

LEMMA JumpsAre ==
  ASSUME contract \in Contracts, NEW f \in Functions
  PROVE  /\ IsFiniteSet(Jumps(f)) /\ Cardinality(Jumps(f)) \in Nat /\ contract.entry[f] \in Nat
         /\ Shallow(f) => contract.entry[f] + Cardinality(Jumps(f)) < max_depth /\ 0 < max_depth
  <1>1. Body(f) \in Seq(Statements) /\ contract.entry[f] \in Nat
    BY BodyIs
  <1>2. DOMAIN Body(f) = 1..Len(Body(f)) /\ Len(Body(f)) \in Nat
    BY <1>1
  <1>3. IsFiniteSet(DOMAIN Body(f)) /\ Jumps(f) \subseteq DOMAIN Body(f)
    BY <1>2, FS_Interval DEF Jumps
  <1>4. IsFiniteSet(Jumps(f)) /\ Cardinality(Jumps(f)) \in Nat
    BY <1>3, FS_Subset, FS_CardinalityType
  <1>5. Shallow(f) => contract.entry[f] + Cardinality(Jumps(f)) < max_depth
    BY DEF Shallow, Jumps, Body
  <1>. QED
    BY <1>1, <1>4, <1>5, BoundAssumption

\* Each function is entered.
LEMMA Entering ==
  ASSUME contract \in Contracts, NEW D, NEW t, Whole(D, t), NEW f \in Functions, Shallow(f)
  PROVE  \E s \in D : Stands(s, f, 1) /\ s.trace = <<<<0, 0>>>>
  <1> DEFINE s == State(f, 1, Seen(Entered))
  <1>1. Entered.fn = 0 /\ Entered.pc = 0 /\ Entered.trace = <<>> /\ Entered \in D
    BY DEF Entered, State, Whole
  <1>2. ~Dropped(Entered)
    <2>1. ~TooOften(Entered) /\ Depth(Entered) = 0
      BY <1>1 DEF TooOften, Depth, Dispatching
    <2>. QED
      BY <2>1, JumpsAre, BoundAssumption DEF Dropped
  <1>3. Fine(Entered) /\ Entered \in States /\ ToSet(Successors(Entered)) \subseteq D
    BY <1>1, <1>2 DEF Whole, Fine
  <1>4. s \in ToSet(Successors(Entered))
    BY <1>1, <1>3, SuccessorsAre DEF Leads
  <1>5. s.fn = f /\ s.pc = 1 /\ s.trace = <<<<0, 0>>>>
    <2>1. Seen(Entered).trace = <<<<0, 0>>>>
      <3>1. Seen(Entered).trace = Append(Entered.trace, <<Entered.fn, Entered.pc>>)
        BY <1>3, SeenIs
      <3>2. Append(<<>>, <<0, 0>>) = <<<<0, 0>>>>
        OBVIOUS
      <3>. QED
        BY <1>1, <3>1, <3>2
    <2>. QED
      BY <2>1 DEF State
  <1>. HIDE DEF s
  <1>. QED
    BY <1>3, <1>4, <1>5 DEF Stands

\* A state that is not dropped goes on at every statement that can come next.
LEMMA Going ==
  ASSUME contract \in Contracts, NEW D, NEW t, Whole(D, t), NEW f \in Functions, NEW s \in D, NEW q, Stands(s, f, q),
         ~Dropped(s), NEW pc \in Reaches(Body(f), q)
  PROVE  \E x \in D : Stands(x, f, pc) /\ x.trace = Append(s.trace, <<f, q>>)
  <1>1. Fine(s) /\ ToSet(Successors(s)) \subseteq D /\ s.fn = f /\ s.pc = q /\ f # 0
    BY BodyIs DEF Whole, Stands
  <1>2. \E x \in ToSet(Successors(s)) : x.fn = f /\ x.pc = pc /\ x.trace = Append(s.trace, <<f, q>>)
    BY <1>1, SuccessorsAre DEF Leads
  <1>. QED
    BY <1>1, <1>2 DEF Stands

Once(t) == \A i, j \in 1..Len(t) : t[i] = t[j] => i = j

\* A path that has met each statement once is not dropped.
LEMMA NotTooOften ==
  ASSUME contract \in Contracts, NEW s, Fine(s), Once(Append(s.trace, <<s.fn, s.pc>>))
  PROVE  ~TooOften(s)
  <1> DEFINE t == Append(s.trace, <<s.fn, s.pc>>)
  <1> DEFINE n == Len(t)
  <1> DEFINE same == {k \in 2..n - 2 : t[k] = t[n - 1] /\ t[k + 1] = t[n]}
  <1>1. Seen(s).trace = t /\ t \in Seq(Nat \X Nat)
    BY SeenIs DEF Fine
  <1>2. Once(t)
    OBVIOUS
  <1>. HIDE DEF t
  <1>3. n \in Nat
    BY <1>1
  <1>4. same = {}
    <2> SUFFICES ASSUME NEW k \in 2..n - 2, t[k] = t[n - 1] PROVE FALSE
      OBVIOUS
    <2>1. k \in 1..Len(t) /\ n - 1 \in 1..Len(t) /\ k # n - 1
      BY <1>3
    <2>. QED
      BY <1>2, <2>1 DEF Once
  <1>5. get_loop_count(t) = 0
    BY <1>4 DEF get_loop_count
  <1>. QED
    BY <1>1, <1>5, BoundAssumption DEF TooOften

\* One statement more that has not been met.
LEMMA OnceMore ==
  ASSUME NEW S, NEW t \in Seq(S), Once(t), NEW e \in S, e \notin ToSet(t)
  PROVE  Once(Append(t, e)) /\ ToSet(Append(t, e)) = ToSet(t) \cup {e}
  <1> DEFINE u == Append(t, e)
  <1>1. Len(u) = Len(t) + 1 /\ u[Len(t) + 1] = e /\ Len(t) \in Nat /\ \A i \in 1..Len(t) : u[i] = t[i]
    OBVIOUS
  <1>2. \A i \in 1..Len(t) : t[i] # e
    <2>1. ToSet(t) = {t[i] : i \in 1..Len(t)}
      BY Elements
    <2>. QED
      BY <2>1
  <1>3. ToSet(u) = ToSet(t) \cup {e}
    BY Elements
  <1>. HIDE DEF u
  <1>4. ASSUME NEW i \in 1..Len(u), NEW j \in 1..Len(u), u[i] = u[j] PROVE i = j
    <2>1. (i \in 1..Len(t) \/ i = Len(t) + 1) /\ (j \in 1..Len(t) \/ j = Len(t) + 1)
      BY <1>1
    <2>2. CASE i \in 1..Len(t) /\ j \in 1..Len(t)
      BY <1>1, <1>4, <2>2 DEF Once
    <2>3. CASE i = Len(t) + 1 \/ j = Len(t) + 1
      BY <1>1, <1>2, <1>4, <2>1, <2>3
    <2>. QED
      BY <2>1, <2>2, <2>3
  <1>5. Once(u)
    BY <1>4 DEF Once
  <1>. QED
    BY <1>3, <1>5 DEF u

\* A path that has met each statement once has taken each conditional jump once.
LEMMA NotDeep ==
  ASSUME contract \in Contracts, NEW f \in Functions, Shallow(f), NEW a \in Seq(Nat \X Nat), Once(a),
         \A e \in ToSet(a) : e = <<0, 0>> \/ \E q \in DOMAIN Body(f) : e = <<f, q>>
  PROVE  contract.entry[f] + Cardinality(Branches(contract, a)) < max_depth
  <1> DEFINE B == Branches(contract, a)
  <1> DEFINE g == [n \in B |-> a[n][2]]
  <1>1. ASSUME NEW n \in B PROVE n \in 1..Len(a) /\ a[n] = <<f, a[n][2]>> /\ a[n][2] \in Jumps(f)
    <2>1. n \in 1..Len(a) /\ a[n][1] # 0 /\ contract.functions[a[n][1]][a[n][2]].op = "JUMPI"
      BY DEF Branches
    <2>2. a[n] \in ToSet(a)
      BY <2>1, Elements
    <2>3. a[n] # <<0, 0>>
      BY <2>1
    <2>4. PICK q \in DOMAIN Body(f) : a[n] = <<f, q>>
      BY <2>2, <2>3
    <2>5. a[n][1] = f /\ a[n][2] = q
      BY <2>4
    <2>. QED
      BY <2>1, <2>4, <2>5 DEF Jumps, Body
  <1>2. ASSUME NEW m \in B, NEW n \in B, a[m][2] = a[n][2] PROVE m = n
    <2>1. a[m] = a[n] /\ m \in 1..Len(a) /\ n \in 1..Len(a)
      BY <1>1, <1>2
    <2>. QED
      BY <2>1 DEF Once
  <1>. HIDE DEF B
  <1>3. g \in Injection(B, Jumps(f))
    <2>1. g \in [B -> Jumps(f)]
      BY <1>1
    <2>2. \A m, n \in B : g[m] = g[n] => m = n
      BY <1>2
    <2>. QED
      BY <2>1, <2>2 DEF Injection, IsInjective
  <1>4. IsFiniteSet(B) /\ Cardinality(B) <= Cardinality(Jumps(f))
    <2>. HIDE DEF g
    <2>. QED
      BY <1>3, JumpsAre, FS_Injection
  <1>5. Cardinality(B) \in Nat
    BY <1>4, FS_CardinalityType
  <1>6. contract.entry[f] + Cardinality(B) < max_depth
    BY <1>4, <1>5, JumpsAre, BoundAssumption
  <1>. QED
    BY <1>6 DEF B

\* The depth of a state of a function.
LEMMA DepthIs ==
  ASSUME contract \in Contracts, NEW f \in Functions, NEW s, NEW q, Stands(s, f, q)
  PROVE  Depth(s) = contract.entry[f] + Cardinality(Branches(contract, s.trace))
  BY BodyIs DEF Depth, Dispatching, Stands

\* A statement that some path reaches is reached by a path that meets no statement twice.
LEMMA ReachedOnce ==
  ASSUME contract \in Contracts, NEW D, NEW t, Whole(D, t), NEW f \in Functions, Shallow(f),
         NEW pc \in Reachable(Body(f))
  PROVE  \E s \in D : Stands(s, f, pc) /\ <<f, pc>> \notin ToSet(s.trace) /\ Depth(s) < max_depth
  <1> DEFINE body == Body(f)
  <1> DEFINE M == Len(body)
  <1>1. f # 0 /\ f \in Nat /\ body \in Seq(Statements) /\ body # <<>> /\ M \in Nat /\ DOMAIN body = 1..M
        /\ \A q \in DOMAIN body : Reaches(body, q) \subseteq DOMAIN body
    BY BodyIs
  <1>2. PICK R : Steps(R, body)
    <2>. HIDE DEF body
    <2>. QED
      BY <1>1, ReachableIs
  <1>3. /\ R[0] = {1} /\ Reachable(body) = R[M]
        /\ \A n \in 0..M : R[n] \subseteq 1..M
        /\ \A n \in 0..M - 1 : R[n + 1] = Further(body, R[n])
    BY <1>1, <1>2 DEF Steps
  <1>. HIDE DEF M, body
  <1> DEFINE Met(n, s) == \A e \in ToSet(s.trace) : e = <<0, 0>> \/ (n # 0 /\ \E q \in R[n - 1] : e = <<f, q>>)
  <1> DEFINE New(n, q) == q \in R[n] /\ (n # 0 => q \notin R[n - 1])
  <1> DEFINE J(n) == \A q : New(n, q) => \E s \in D : Stands(s, f, q) /\ Once(s.trace) /\ Met(n, s)
  <1> DEFINE T == {n \in Nat : n <= M => J(n)}
  <1> DEFINE Low(s) == contract.entry[f] + Cardinality(Branches(contract, s.trace)) < max_depth
  <1>12. ASSUME NEW n \in 0..M, NEW s \in D, Met(n, s), Once(s.trace), NEW q, Stands(s, f, q) PROVE Low(s)
    <2>1. s.trace \in Seq(Nat \X Nat)
      BY <1>12 DEF Whole, Fine, States
    <2>2. \A e \in ToSet(s.trace) : e = <<0, 0>> \/ \E r \in DOMAIN Body(f) : e = <<f, r>>
      <3>1. n # 0 => n - 1 \in 0..M
        BY <1>1
      <3>2. n # 0 => R[n - 1] \subseteq DOMAIN body
        BY <1>1, <1>3, <3>1
      <3>3. n # 0 => R[n - 1] \subseteq DOMAIN Body(f)
        BY <3>2 DEF body
      <3>. QED
        BY <1>12, <3>3
    <2>3. Once(s.trace)
      BY <1>12
    <2>. HIDE DEF Met
    <2>. QED
      BY <2>1, <2>2, <2>3, NotDeep
  <1>4. 0 \in T
    <2>1. PICK s \in D : Stands(s, f, 1) /\ s.trace = <<<<0, 0>>>>
      BY Entering
    <2>2. Len(s.trace) = 1 /\ s.trace \in Seq(Nat \X Nat) /\ ToSet(s.trace) = {<<0, 0>>}
      <3>1. <<0, 0>> \in Nat \X Nat
        OBVIOUS
      <3>. QED
        BY <2>1, <3>1, Single
    <2>3. Once(s.trace)
      <3>1. \A i, j \in 1..1 : i = j
        OBVIOUS
      <3>. QED
        BY <2>2, <3>1 DEF Once
    <2>4. Met(0, s)
      BY <2>2
    <2>5. \A q : New(0, q) => q = 1
      BY <1>3
    <2>. HIDE DEF Met, New
    <2>. QED
      BY <2>1, <2>3, <2>4, <2>5
  <1>5. ASSUME NEW n \in Nat, n \in T PROVE n + 1 \in T
    <2> SUFFICES ASSUME n + 1 <= M, NEW q, New(n + 1, q)
                 PROVE  \E s \in D : Stands(s, f, q) /\ Once(s.trace) /\ Met(n + 1, s)
      OBVIOUS
    <2>1. n \in 0..M /\ n \in 0..M - 1 /\ n <= M /\ n + 1 # 0 /\ (n + 1) - 1 = n
      BY <1>1
    <2>2. J(n)
      BY <1>5, <2>1
    <2>3. q \in R[n + 1] /\ q \notin R[n] /\ R[n + 1] = Further(body, R[n])
      BY <1>3, <2>1
    <2>4. PICK p \in R[n] : q \in Reaches(body, p)
      BY <2>3 DEF Further
    <2>5. New(n, p)
      <3> SUFFICES ASSUME n # 0, p \in R[n - 1] PROVE FALSE
        BY <2>4
      <3>1. n - 1 \in 0..M - 1 /\ (n - 1) + 1 = n
        BY <1>1, <2>1
      <3>2. R[n] = Further(body, R[n - 1])
        BY <1>3, <3>1
      <3>. QED
        BY <2>3, <2>4, <3>2 DEF Further
    <2>6. PICK s \in D : Stands(s, f, p) /\ Once(s.trace) /\ Met(n, s)
      <3>. HIDE DEF Met, New
      <3>. QED
        BY <2>2, <2>5
    <2>7. <<f, p>> \notin ToSet(s.trace)
      BY <1>1, <2>5, <2>6
    <2>8. Fine(s) /\ s.fn = f /\ s.pc = p /\ s.trace \in Seq(Nat \X Nat) /\ <<f, p>> \in Nat \X Nat
      <3>1. Fine(s) /\ s.fn = f /\ s.pc = p
        BY <2>6 DEF Whole, Stands
      <3>. QED
        BY <3>1 DEF Fine, States
    <2>9. Once(Append(s.trace, <<f, p>>)) /\ ToSet(Append(s.trace, <<f, p>>)) = ToSet(s.trace) \cup {<<f, p>>}
      <3> DEFINE e == <<f, p>>
      <3> DEFINE a == s.trace
      <3> DEFINE S == Nat \X Nat
      <3>1. a \in Seq(S) /\ e \in S /\ Once(a) /\ e \notin ToSet(a)
        BY <2>6, <2>7, <2>8
      <3>. HIDE DEF e, a, S
      <3>2. Once(Append(a, e)) /\ ToSet(Append(a, e)) = ToSet(a) \cup {e}
        BY <3>1, OnceMore
      <3>. QED
        BY <3>2 DEF e, a
    <2>10. ~Dropped(s)
      <3>1. ~TooOften(s)
        BY <2>8, <2>9, NotTooOften
      <3>2. Low(s)
        <4>. HIDE DEF Met, Low, T, J
        <4>. QED
          BY <1>12, <2>1, <2>6
      <3>3. Depth(s) = contract.entry[f] + Cardinality(Branches(contract, s.trace))
        <4>1. Stands(s, f, p)
          BY <2>6
        <4>. HIDE DEF Met, Low, T, J
        <4>. QED
          BY <4>1, DepthIs
      <3>4. Depth(s) < max_depth
        BY <3>2, <3>3
      <3>5. Depth(s) \in Nat
        <4>1. Cardinality(Branches(contract, s.trace)) \in Nat
          <5>1. DOMAIN s.trace = 1..Len(s.trace) /\ Len(s.trace) \in Nat
            BY <2>8
          <5>2. IsFiniteSet(DOMAIN s.trace) /\ Branches(contract, s.trace) \subseteq DOMAIN s.trace
            BY <5>1, FS_Interval DEF Branches
          <5>. QED
            BY <5>2, FS_Subset, FS_CardinalityType
        <4>. HIDE DEF Met, Low, T, J
        <4>. QED
          BY <3>3, <4>1, JumpsAre
      <3>. HIDE DEF Met, Low, T, J
      <3>. QED
        BY <3>1, <3>4, <3>5, BoundAssumption DEF Dropped
    <2>11. PICK x \in D : Stands(x, f, q) /\ x.trace = Append(s.trace, <<f, p>>)
      <3>1. q \in Reaches(Body(f), p)
        BY <2>4 DEF body
      <3>2. Stands(s, f, p)
        BY <2>6
      <3>. HIDE DEF T, J, Met, New
      <3>. QED
        BY <2>10, <3>1, <3>2, Going
    <2>12. Met(n + 1, x)
      <3>1. \A e \in ToSet(x.trace) : e \in ToSet(s.trace) \/ e = <<f, p>>
        BY <2>9, <2>11
      <3>2. \A e \in ToSet(s.trace) : e = <<0, 0>> \/ \E r \in R[n] : e = <<f, r>>
        <4>1. CASE n = 0
          BY <2>6, <4>1
        <4>2. CASE n # 0
          <5>1. n - 1 \in 0..M - 1 /\ (n - 1) + 1 = n
            BY <1>1, <2>1, <4>2
          <5>2. R[n - 1] \subseteq R[n]
            BY <1>3, <5>1 DEF Further
          <5>. QED
            BY <2>6, <5>2
        <4>. QED
          BY <4>1, <4>2
      <3>3. \A e \in ToSet(x.trace) : e = <<0, 0>> \/ \E r \in R[n] : e = <<f, r>>
        BY <2>4, <3>1, <3>2
      <3>. QED
        BY <2>1, <3>3
    <2>. HIDE DEF Met
    <2>. QED
      BY <2>9, <2>11, <2>12
  <1>6. \A n \in Nat : n \in T
    <2>. HIDE DEF T
    <2>. QED
      BY <1>4, <1>5, Inductive
  <1> DEFINE L == {n \in 0..M : pc \in R[n]}
  <1>7. PICK n \in L : \A k \in L : n <= k
    <2>1. M \in L /\ L \subseteq Nat
      BY <1>1, <1>3 DEF body
    <2>. HIDE DEF L
    <2>. QED
      BY <2>1, LeastNumber
  <1>8. New(n, pc)
    <2>1. n # 0 => n - 1 \in 0..M /\ ~(n <= n - 1)
      BY <1>1, <1>7
    <2>. QED
      BY <1>7, <2>1
  <1>9. J(n)
    <2>. HIDE DEF J
    <2>. QED
      BY <1>6, <1>7
  <1>10. PICK s \in D : Stands(s, f, pc) /\ Met(n, s) /\ Once(s.trace)
    <2>. HIDE DEF Met, New
    <2>. QED
      BY <1>8, <1>9
  <1>11. <<f, pc>> \notin ToSet(s.trace)
    BY <1>1, <1>8, <1>10
  <1>13. Depth(s) < max_depth
    <2>1. n \in 0..M
      BY <1>7
    <2>2. Low(s)
      <3>. HIDE DEF Met, Low, T, J, L, New
      <3>. QED
        BY <1>10, <1>12, <2>1
    <2>3. Stands(s, f, pc)
      BY <1>10
    <2>4. Depth(s) = contract.entry[f] + Cardinality(Branches(contract, s.trace))
      <3>. HIDE DEF Met, Low, T, J, L, New
      <3>. QED
        BY <2>3, DepthIs
    <2>. QED
      BY <2>2, <2>4
  <1>. QED
    BY <1>10, <1>11, <1>13

\* Traced is the trace of a call, statement by statement.
Steadily(f, h, N) ==
  /\ Traced(f, h, 0) = <<<<0, 0>>>>
  /\ \A k \in 1..N : Append(Traced(f, h, k - 1), <<f, h[k]>>) = Traced(f, h, k)
  /\ \A k \in 0..N : Traced(f, h, k) \in Seq(Nat \X Nat) /\ Len(Traced(f, h, k)) = k + 1

LEMMA TracedIs ==
  ASSUME NEW S, S \subseteq Nat, NEW h \in Seq(S), NEW N \in Nat, N = Len(h), NEW f \in Nat
  PROVE  Steadily(f, h, N)
  <1>1. ASSUME NEW k \in 0..N
        PROVE  /\ Traced(f, h, k) \in Seq(Nat \X Nat) /\ Len(Traced(f, h, k)) = k + 1
               /\ \A i \in 1..k + 1 : Traced(f, h, k)[i] = IF i = 1 THEN <<0, 0>> ELSE <<f, h[i - 1]>>
    <2> DEFINE g == Traced(f, h, k)
    <2>1. g = [i \in 1..k + 1 |-> IF i = 1 THEN <<0, 0>> ELSE <<f, h[i - 1]>>]
      BY DEF Traced
    <2>2. \A i \in 1..k + 1 : (IF i = 1 THEN <<0, 0>> ELSE <<f, h[i - 1]>>) \in Nat \X Nat
      <3>1. ASSUME NEW i \in 1..k + 1, i # 1 PROVE <<f, h[i - 1]>> \in Nat \X Nat
        <4>1. i - 1 \in 1..Len(h)
          BY <3>1
        <4>2. h[i - 1] \in S
          BY <4>1
        <4>3. h[i - 1] \in Nat
          BY <4>2
        <4>. QED
          BY <4>3
      <3>2. <<0, 0>> \in Nat \X Nat
        OBVIOUS
      <3>. QED
        BY <3>1, <3>2
    <2>. HIDE DEF g
    <2>3. g \in [1..k + 1 -> Nat \X Nat] /\ k + 1 \in Nat
      BY <2>1, <2>2
    <2>4. g \in Seq(Nat \X Nat) /\ Len(g) = k + 1
      BY <2>3
    <2>5. \A i \in 1..k + 1 : g[i] = IF i = 1 THEN <<0, 0>> ELSE <<f, h[i - 1]>>
      BY <2>1
    <2>. QED
      BY <2>4, <2>5 DEF g
  <1>2. Traced(f, h, 0) = <<<<0, 0>>>>
    <2>1. Traced(f, h, 0) = [i \in 1..0 + 1 |-> IF i = 1 THEN <<0, 0>> ELSE <<f, h[i - 1]>>]
      BY DEF Traced
    <2>2. 1..0 + 1 = {1}
      OBVIOUS
    <2>3. Traced(f, h, 0) = [i \in {1} |-> <<0, 0>>]
      BY <2>1, <2>2
    <2>4. <<<<0, 0>>>> = [i \in {1} |-> <<0, 0>>]
      <3>1. \A x : <<x>> = [i \in {1} |-> x]
        <4>1. 1..1 = {1}
          OBVIOUS
        <4>. QED
          BY <4>1
      <3>. QED
        BY <3>1
    <2>. QED
      BY <2>3, <2>4
  <1>3. ASSUME NEW k \in 1..N PROVE Append(Traced(f, h, k - 1), <<f, h[k]>>) = Traced(f, h, k)
    <2> DEFINE a == Traced(f, h, k - 1)
    <2> DEFINE b == Traced(f, h, k)
    <2> DEFINE e == <<f, h[k]>>
    <2>1. k - 1 \in 0..N /\ k \in 0..N /\ (k - 1) + 1 = k
      OBVIOUS
    <2>2. a \in Seq(Nat \X Nat) /\ Len(a) = k /\ \A i \in 1..k : a[i] = IF i = 1 THEN <<0, 0>> ELSE <<f, h[i - 1]>>
      BY <1>1, <2>1
    <2>3. b \in Seq(Nat \X Nat) /\ Len(b) = k + 1
          /\ \A i \in 1..k + 1 : b[i] = IF i = 1 THEN <<0, 0>> ELSE <<f, h[i - 1]>>
      BY <1>1, <2>1
    <2>4. b[k + 1] = e
      <3>1. k + 1 \in 1..k + 1 /\ k + 1 # 1 /\ (k + 1) - 1 = k
        OBVIOUS
      <3>. QED
        BY <2>3, <3>1
    <2>5. \A i \in 1..k : b[i] = a[i]
      <3>1. \A i \in 1..k : i \in 1..k + 1
        OBVIOUS
      <3>. QED
        BY <2>2, <2>3, <3>1
    <2>6. e \in Nat \X Nat
      <3>1. h[k] \in Nat
        <4>1. h[k] \in S
          OBVIOUS
        <4>. QED
          BY <4>1
      <3>. QED
        BY <3>1
    <2>. HIDE DEF a, b, e
    <2>7. Append(a, e) \in Seq(Nat \X Nat) /\ Len(Append(a, e)) = k + 1 /\ Append(a, e)[k + 1] = e
          /\ \A i \in 1..k : Append(a, e)[i] = a[i]
      BY <2>2, <2>6
    <2>8. \A i \in 1..k + 1 : Append(a, e)[i] = b[i]
      <3>1. \A i \in 1..k + 1 : i \in 1..k \/ i = k + 1
        OBVIOUS
      <3>. QED
        BY <2>4, <2>5, <2>7, <3>1
    <2>9. Append(a, e) = b
      <3> DEFINE c == Append(a, e)
      <3>1. DOMAIN c = 1..k + 1 /\ DOMAIN b = 1..k + 1
        BY <2>3, <2>7
      <3>2. c = [i \in 1..k + 1 |-> c[i]] /\ b = [i \in 1..k + 1 |-> b[i]]
        <4>1. c \in Seq(Nat \X Nat) /\ b \in Seq(Nat \X Nat)
          BY <2>3, <2>7
        <4>. HIDE DEF c
        <4>. QED
          BY <3>1, <4>1
      <3>. HIDE DEF c
      <3>3. \A i \in 1..k + 1 : c[i] = b[i]
        BY <2>8 DEF c
      <3>4. c = b
        BY <3>2, <3>3
      <3>. QED
        BY <3>4 DEF c
    <2>. QED
      BY <2>9 DEF a, b, e
  <1>. QED
    BY <1>1, <1>2, <1>3 DEF Steadily

\* The visits at a statement before s.
Earlier(s, f, pc) == {k \in DOMAIN s.trace : s.trace[k] = <<f, pc>>}

\* A call that goes on takes more conditional jumps.
LEMMA TracedGrows ==
  ASSUME NEW c, NEW f, NEW h, NEW j \in Nat, NEW k \in Nat, j <= k
  PROVE  /\ Cardinality(Branches(c, Traced(f, h, j))) \in Nat /\ Cardinality(Branches(c, Traced(f, h, k))) \in Nat
         /\ Cardinality(Branches(c, Traced(f, h, j))) <= Cardinality(Branches(c, Traced(f, h, k)))
  <1>1. \A n \in Nat : DOMAIN Traced(f, h, n) = 1..n + 1
        /\ \A i \in 1..n + 1 : Traced(f, h, n)[i] = IF i = 1 THEN <<0, 0>> ELSE <<f, h[i - 1]>>
    BY DEF Traced
  <1>2. 1..j + 1 \subseteq 1..k + 1
    OBVIOUS
  <1>3. \A i \in 1..j + 1 : Traced(f, h, j)[i] = Traced(f, h, k)[i]
    BY <1>1, <1>2
  <1>4. Branches(c, Traced(f, h, j)) \subseteq Branches(c, Traced(f, h, k))
    BY <1>1, <1>2, <1>3 DEF Branches
  <1>5. IsFiniteSet(1..k + 1) /\ Branches(c, Traced(f, h, k)) \subseteq 1..k + 1
    <2>1. 1 \in Int /\ k + 1 \in Int
      OBVIOUS
    <2>2. IsFiniteSet(1..k + 1)
      BY <2>1, FS_Interval
    <2>. QED
      BY <1>1, <2>2 DEF Branches
  <1>6. IsFiniteSet(Branches(c, Traced(f, h, k)))
    BY <1>5, FS_Subset
  <1>. QED
    BY <1>4, <1>6, FS_Subset, FS_CardinalityType

\* A path within the bounds is executed to its end.
LEMMA Visited ==
  ASSUME contract \in Contracts, NEW D, NEW t, Whole(D, t), NEW f \in Functions, Shallow(f), NEW pc, NEW n, NEW h,
         Visits(contract, f, pc, n, h)
  PROVE  \E s \in D : Stands(s, f, pc) /\ Cardinality(Earlier(s, f, pc)) = n - 1 /\ Depth(s) < max_depth
  <1> DEFINE body == Body(f)
  <1> DEFINE N == Len(h)
  <1>1. f # 0 /\ f \in Nat /\ body \in Seq(Statements) /\ DOMAIN body \subseteq Nat
    BY BodyIs
  <1>2. /\ h \in Seq(DOMAIN body) /\ h # <<>> /\ h[1] = 1 /\ h[N] = pc
        /\ Cardinality({k \in 2..N : h[k - 1] = pc}) = n - 1
        /\ \A k \in 1..N - 1 :
             /\ h[k + 1] \in Reaches(body, h[k])
             /\ body[h[k]].op = "JUMPDEST" => ~(get_loop_count(Traced(f, h, k)) > loop_bound)
        /\ contract.entry[f] + Cardinality(Branches(contract, Traced(f, h, N - 1))) < max_depth
    BY DEF Visits, Body
  <1>3. N \in Nat /\ N # 0
    BY <1>2
  <1>4. Steadily(f, h, N)
    <2> DEFINE S == DOMAIN body
    <2>1. S \subseteq Nat /\ h \in Seq(S) /\ N = Len(h) /\ N \in Nat /\ f \in Nat
      BY <1>1, <1>2, <1>3
    <2>. HIDE DEF S, N, body
    <2>. QED
      BY <2>1, TracedIs
  <1>. HIDE DEF body, N
  <1>11. ASSUME NEW k \in 1..N, NEW s, NEW q, Stands(s, f, q), s.trace = Traced(f, h, k - 1)
         PROVE  Depth(s) < max_depth /\ Depth(s) \in Nat
    <2> DEFINE low == Cardinality(Branches(contract, Traced(f, h, k - 1)))
    <2> DEFINE high == Cardinality(Branches(contract, Traced(f, h, N - 1)))
    <2>1. k - 1 \in Nat /\ N - 1 \in Nat /\ k - 1 <= N - 1
      BY <1>3
    <2>2. low \in Nat /\ high \in Nat /\ low <= high
      BY <2>1, TracedGrows
    <2>3. Depth(s) = contract.entry[f] + low
      BY <1>11, DepthIs
    <2>4. contract.entry[f] + high < max_depth
      BY <1>2
    <2>. HIDE DEF low, high
    <2>. QED
      BY <2>2, <2>3, <2>4, JumpsAre, BoundAssumption
  <1> DEFINE J(k) == \E s \in D : Stands(s, f, h[k]) /\ s.trace = Traced(f, h, k - 1)
  <1> DEFINE T == {k \in Nat : k + 1 <= N => J(k + 1)}
  <1>5. 0 \in T
    <2>1. J(1)
      <3>1. PICK s \in D : Stands(s, f, 1) /\ s.trace = <<<<0, 0>>>>
        BY Entering
      <3>2. Traced(f, h, 1 - 1) = <<<<0, 0>>>>
        <4>1. 1 - 1 = 0
          OBVIOUS
        <4>. QED
          BY <1>4, <4>1 DEF Steadily
      <3>. QED
        BY <1>2, <3>1, <3>2
    <2>. QED
      BY <2>1
  <1>6. ASSUME NEW k \in Nat, k \in T PROVE k + 1 \in T
    <2> SUFFICES ASSUME k + 2 <= N PROVE J(k + 2)
      OBVIOUS
    <2> DEFINE i == k + 1
    <2>1. J(i) /\ i \in 1..N - 1 /\ i \in 1..N /\ i + 1 = k + 2 /\ (i + 1) - 1 = i
      BY <1>3, <1>6
    <2>. HIDE DEF i
    <2>2. PICK s \in D : Stands(s, f, h[i]) /\ s.trace = Traced(f, h, i - 1)
      BY <2>1
    <2>3. Fine(s) /\ s.fn = f /\ s.pc = h[i]
      BY <2>2 DEF Whole, Stands
    <2>4. Seen(s).trace = Traced(f, h, i)
      <3>1. Seen(s).trace = Append(s.trace, <<f, h[i]>>)
        BY <2>3, SeenIs DEF Fine
      <3>. QED
        BY <1>4, <2>1, <2>2, <3>1 DEF Steadily
    <2>5. ~Dropped(s)
      <3>1. Statement(s) = body[h[i]]
        BY <2>3 DEF Statement, Body, body
      <3>2. Statement(s).op = "JUMPDEST" => ~(get_loop_count(Seen(s).trace) > loop_bound)
        BY <1>2, <2>1, <2>4, <3>1
      <3>3. ~TooOften(s)
        BY <3>2 DEF TooOften
      <3>4. Depth(s) < max_depth /\ Depth(s) \in Nat
        <4>. HIDE DEF T, J
        <4>. QED
          BY <1>11, <2>1, <2>2
      <3>. QED
        BY <3>3, <3>4, BoundAssumption DEF Dropped
    <2>6. h[i + 1] \in Reaches(Body(f), h[i])
      BY <1>2, <2>1 DEF body
    <2>7. PICK x \in D : Stands(x, f, h[i + 1]) /\ x.trace = Append(s.trace, <<f, h[i]>>)
      <3> DEFINE p == h[i]
      <3> DEFINE q == h[i + 1]
      <3>1. Stands(s, f, p) /\ q \in Reaches(Body(f), p)
        BY <2>2, <2>6
      <3>. HIDE DEF T, J, p, q
      <3>2. \E x \in D : Stands(x, f, q) /\ x.trace = Append(s.trace, <<f, p>>)
        BY <2>5, <3>1, Going
      <3>. QED
        BY <3>2 DEF p, q
    <2>8. x.trace = Traced(f, h, i)
      BY <1>4, <2>1, <2>2, <2>7 DEF Steadily
    <2>9. J(i + 1)
      BY <2>1, <2>7, <2>8
    <2>. QED
      BY <2>1, <2>9
  <1>7. N - 1 \in T
    <2>1. N - 1 \in Nat
      BY <1>3
    <2>. HIDE DEF T
    <2>. QED
      BY <1>5, <1>6, <2>1, Inductive
  <1>8. J(N)
    <2>. HIDE DEF J
    <2>1. (N - 1) + 1 = N /\ N <= N
      BY <1>3
    <2>2. (N - 1) + 1 <= N => J((N - 1) + 1)
      BY <1>7
    <2>. QED
      BY <2>1, <2>2
  <1>9. PICK s \in D : Stands(s, f, pc) /\ s.trace = Traced(f, h, N - 1)
    BY <1>2, <1>8
  <1>10. Earlier(s, f, pc) = {k \in 2..N : h[k - 1] = pc}
    <2>1. s.trace = [k \in 1..N |-> IF k = 1 THEN <<0, 0>> ELSE <<f, h[k - 1]>>]
      <3>1. (N - 1) + 1 = N
        BY <1>3
      <3>. QED
        BY <1>9, <3>1 DEF Traced
    <2>2. DOMAIN s.trace = 1..N /\ \A k \in 1..N : s.trace[k] = IF k = 1 THEN <<0, 0>> ELSE <<f, h[k - 1]>>
      BY <2>1
    <2>3. ASSUME NEW k \in 1..N PROVE s.trace[k] = <<f, pc>> <=> k # 1 /\ h[k - 1] = pc
      <3>1. CASE k = 1
        <4>1. s.trace[k] = <<0, 0>>
          BY <2>2, <3>1
        <4>2. <<0, 0>> # <<f, pc>>
          BY <1>1
        <4>. QED
          BY <3>1, <4>1, <4>2
      <3>2. CASE k # 1
        <4>1. s.trace[k] = <<f, h[k - 1]>>
          BY <2>2, <3>2
        <4>. QED
          BY <3>2, <4>1
      <3>. QED
        BY <3>1, <3>2
    <2>4. \A k : k \in 2..N <=> k \in 1..N /\ k # 1
      BY <1>3
    <2>. QED
      BY <2>2, <2>3, <2>4 DEF Earlier
  <1>12. Depth(s) < max_depth
    <2>1. N \in 1..N
      BY <1>3
    <2>. HIDE DEF T, J
    <2>. QED
      BY <1>9, <1>11, <2>1
  <1>. QED
    BY <1>2, <1>9, <1>10, <1>12

\* Every location that a statement can have is met within the bounds of the loops and of the depth: its
\* n-th location at the n-th visit.  (The first visit of a shallow function is always within them.)
LocationsMet ==
  \A c \in Contracts : \A f \in DOMAIN c.functions : \A pc \in Reachable(c.functions[f]) :
    c.functions[f][pc].op = "SSTORE" =>
      \A n \in 2..Len(c.functions[f][pc].locs) : \E h : Visits(c, f, pc, n, h)

\* EverythingCollected, of the slots sl.
AllCollected(sl) ==
  \A f \in Functions :
    /\ Listed(sl.write_slots, f)
         \subseteq {l.slot : l \in Written(f)} \cup {0 : l \in {k \in Written(f) : k.keys # {}}}
    /\ Shallow(f) =>
         /\ Identified(Written(f)) \subseteq Listed(sl.write_slots, f)
         /\ \A st \in Reached(f, "JUMPI") :
              contract.stores # <<>> /\ st.shape = "compared" /\ Together(f, st.reads)
                => Identified(st.reads) \subseteq sl.read_slots_in_conditions[f]

\* No location of a condition is lost when they are kept or evaluated together.
LEMMA ExtractedIs ==
  ASSUME NEW c, NEW f, c.stores \in Seq(Locations), c.stores # <<>>, ToSet(c.stores) \subseteq Stored(f),
         Together(f, c.reads), c.shape = "compared"
  PROVE  Extracted(c) = c.reads
  <1> DEFINE N == Len(c.stores)
  <1> DEFINE met(l) == {n \in DOMAIN c.stores : c.stores[n] = l \/ "plain" # l.form \/ "plain" # c.stores[n].form}
  <1>1. N \in Nat /\ DOMAIN c.stores = 1..N
    OBVIOUS
  <1>2. \A n \in 1..N : c.stores[n] \in Stored(f)
    <2>1. ToSet(c.stores) = {c.stores[i] : i \in 1..Len(c.stores)}
      BY Elements
    <2>. QED
      BY <2>1
  <1>3. ASSUME NEW k \in c.reads, NEW l \in c.reads, ~Evaluated(k, c.stores) PROVE ~Evaluated(l, c.stores)
    <2> SUFFICES ASSUME k # l PROVE ~Evaluated(l, c.stores)
      BY <1>3
    <2>1. k.form = l.form /\ k \notin Stored(f) /\ l \notin Stored(f)
      BY DEF Together
    <2>2. met(k) = met(l)
      BY <1>1, <1>2, <2>1
    <2>3. met(k) # {}
      BY <1>3 DEF Evaluated
    <2>4. Max(met(l)) \in met(l)
      <3>1. met(l) \subseteq 0..N /\ met(l) # {}
        BY <1>1, <2>2, <2>3
      <3>. HIDE DEF met, N
      <3>. QED
        BY <1>1, <3>1, Largest
    <2>5. c.stores[Max(met(l))] # l
      <3>1. Max(met(l)) \in 1..N
        BY <1>1, <2>4
      <3>. QED
        BY <1>2, <2>1, <3>1
    <2>6. Evaluated(l, c.stores) <=> met(l) = {} \/ c.stores[Max(met(l))] = l
      BY DEF Evaluated
    <2>. QED
      BY <2>2, <2>3, <2>5, <2>6
  <1> DEFINE left == {l \in c.reads : ~Evaluated(l, c.stores)}
  <1>4. left # {} => left = c.reads
    BY <1>3
  <1>5. Extracted(c) = IF left # {} THEN left ELSE c.reads
    <2>1. c.stores # <<>> /\ c.shape # "bare"
      OBVIOUS
    <2>. QED
      BY <2>1 DEF Extracted
  <1>. QED
    BY <1>4, <1>5

\* The slots that texts yield: every one that is identified, and no other but the 0 of a key.
LEMMA SlotsIn ==
  ASSUME NEW a, NEW b, a \subseteq b
  PROVE  /\ Identified(a) \subseteq Slots(b)
         /\ Slots(a) \subseteq {l.slot : l \in b} \cup {0 : l \in {k \in b : k.keys # {}}}
  <1>1. ASSUME NEW l \in a, l.form # "unknown", l.keys = {} PROVE l.slot \in Slots(b)
    <2>1. get_slot_from_location_expression(l) = {l.slot}
      BY <1>1 DEF get_slot_from_location_expression
    <2>. QED
      BY <2>1 DEF Slots
  <1>2. ASSUME NEW l \in a, NEW x \in get_slot_from_location_expression(l)
        PROVE  x = l.slot \/ (x = 0 /\ l.keys # {})
    BY DEF get_slot_from_location_expression
  <1>. QED
    BY <1>1, <1>2 DEF Slots, Identified

\* The depth is a number.
LEMMA DepthIsNumber ==
  ASSUME contract \in Contracts, NEW D, NEW t, Whole(D, t), NEW f \in Functions, NEW s \in D, NEW q, Stands(s, f, q)
  PROVE  Depth(s) \in Nat
  <1>1. s.trace \in Seq(Nat \X Nat)
    BY DEF Whole, Fine, States
  <1>2. IsFiniteSet(DOMAIN s.trace) /\ Branches(contract, s.trace) \subseteq DOMAIN s.trace
    <2>1. DOMAIN s.trace = 1..Len(s.trace) /\ Len(s.trace) \in Nat
      BY <1>1
    <2>. QED
      BY <2>1, FS_Interval DEF Branches
  <1>3. Cardinality(Branches(contract, s.trace)) \in Nat
    BY <1>2, FS_Subset, FS_CardinalityType
  <1>. QED
    BY <1>3, DepthIs, JumpsAre

\* Each location of a statement that some path reaches is among those collected.
LEMMA LocationIs ==
  ASSUME contract \in Contracts, LocationsMet, NEW D, NEW t, Whole(D, t), NEW f \in Functions, Shallow(f),
         NEW pc \in Reachable(Body(f)), Body(f)[pc].op = "SSTORE", NEW n \in 1..Len(Body(f)[pc].locs)
  PROVE  \E e \in t.writes : e.fn = f /\ e.loc = Body(f)[pc].locs[n]
  <1> DEFINE st == Body(f)[pc]
  <1> DEFINE V(s) == Earlier(s, f, pc)
  <1>1. f # 0 /\ f \in DOMAIN contract.functions /\ st \in Statements /\ Len(st.locs) \in Nat
    <2>1. pc \in DOMAIN Body(f) /\ Body(f) \in Seq(Statements) /\ f # 0 /\ f \in DOMAIN contract.functions
      BY BodyIs
    <2>2. st \in Statements
      BY <2>1
    <2>. QED
      BY <2>1, <2>2 DEF Statements
  <1>2. \E s \in D : Stands(s, f, pc) /\ Cardinality(V(s)) = n - 1 /\ Depth(s) < max_depth
    <2>1. CASE n = 1
      <3>1. PICK s \in D : Stands(s, f, pc) /\ <<f, pc>> \notin ToSet(s.trace) /\ Depth(s) < max_depth
        BY ReachedOnce
      <3>2. V(s) = {}
        BY <3>1 DEF ToSet, Earlier
      <3>3. Cardinality(V(s)) = n - 1
        <4>1. n - 1 = 0
          BY <2>1
        <4>. HIDE DEF V
        <4>. QED
          BY <3>2, <4>1, FS_EmptySet
      <3>. HIDE DEF V
      <3>. QED
        BY <3>1, <3>3
    <2>2. CASE n # 1
      <3>1. PICK h : Visits(contract, f, pc, n, h)
        <4>1. n \in 2..Len(contract.functions[f][pc].locs)
          BY <1>1, <2>2 DEF Body
        <4>. QED
          BY <1>1, <4>1 DEF LocationsMet, Body
      <3>. QED
        BY <3>1, Visited
    <2>. QED
      BY <2>1, <2>2
  <1>3. PICK s \in D : Stands(s, f, pc) /\ Cardinality(V(s)) = n - 1 /\ Depth(s) < max_depth
    BY <1>2
  <1>4. Fine(s) /\ Noted(s, t) /\ s.fn = f /\ s.pc = pc
    BY <1>3 DEF Whole, Stands
  <1>5. Statement(s) = st
    BY <1>4 DEF Statement, Body
  <1>6. ~Dropped(s)
    <2>1. ~TooOften(s)
      BY <1>5 DEF TooOften
    <2>2. Depth(s) \in Nat
      BY <1>3, DepthIsNumber
    <2>3. Depth(s) < max_depth
      BY <1>3
    <2>. QED
      BY <2>1, <2>2, <2>3, BoundAssumption DEF Dropped
  <1>7. Recorded(s) \in t.writes
    BY <1>1, <1>4, <1>5, <1>6 DEF Noted
  <1>8. Location(s) = st.locs[n]
    <2>1. Location(s) = st.locs[IF Cardinality(V(s)) < Len(st.locs) THEN Cardinality(V(s)) + 1 ELSE Len(st.locs)]
      BY <1>4, <1>5 DEF Location, Address, Earlier
    <2>. HIDE DEF st, V
    <2>2. n - 1 < Len(st.locs) /\ (n - 1) + 1 = n
      BY <1>1 DEF st
    <2>. QED
      BY <1>3, <2>1, <2>2
  <1>. QED
    BY <1>4, <1>7, <1>8 DEF Recorded

\* And so is each condition.
LEMMA ConditionIs ==
  ASSUME contract \in Contracts, NEW D, NEW t, Whole(D, t), NEW f \in Functions, Shallow(f),
         NEW st \in Reached(f, "JUMPI"), st.shape = "compared", contract.stores # <<>>, Together(f, st.reads)
  PROVE  \E c \in t.conditions : c.fn = f /\ Extracted(c) = st.reads
  <1>1. PICK pc \in Reachable(Body(f)) : Body(f)[pc] = st /\ st.op = "JUMPI"
    BY DEF Reached, Body
  <1>2. PICK s \in D : Stands(s, f, pc) /\ Depth(s) < max_depth
    BY <1>1, ReachedOnce
  <1>3. Fine(s) /\ Noted(s, t) /\ s.fn = f /\ s.pc = pc /\ f # 0
    BY <1>2, BodyIs DEF Whole, Stands
  <1>4. Statement(s) = st
    BY <1>1, <1>3 DEF Statement, Body
  <1>5. ~Dropped(s)
    <2>1. ~TooOften(s)
      BY <1>1, <1>4 DEF TooOften
    <2>2. Depth(s) \in Nat
      BY <1>2, DepthIsNumber
    <2>. QED
      BY <1>2, <2>1, <2>2, BoundAssumption DEF Dropped
  <1>6. Condition(s) \in t.conditions
    BY <1>1, <1>3, <1>4, <1>5 DEF Noted
  <1>7. s.stores \in Seq(Locations) /\ s.stores # <<>> /\ ToSet(s.stores) \subseteq Stored(f)
    BY <1>3 DEF Fine, States
  <1>8. Condition(s).reads = st.reads /\ Condition(s).stores = s.stores /\ Condition(s).fn = f
        /\ Condition(s).shape = "compared"
    BY <1>3, <1>4 DEF Condition
  <1>. HIDE DEF Condition
  <1>9. Extracted(Condition(s)) = st.reads
    BY <1>7, <1>8, ExtractedIs
  <1>. QED
    BY <1>6, <1>8, <1>9

\* The slots that main_preprocessing_end makes of the tables.
LEMMA Gathered ==
  ASSUME contract \in Contracts, LocationsMet, NEW D, NEW t, Whole(D, t), Sound(t), NEW sl,
         sl.write_slots = Refined(t.writes),
         sl.read_slots_in_conditions =
           [f \in Functions |-> Slots(UNION {Extracted(c) : c \in {d \in t.conditions : d.fn = f}})]
  PROVE  AllCollected(sl)
  <1> SUFFICES ASSUME NEW f \in Functions
               PROVE  /\ Listed(sl.write_slots, f)
                           \subseteq {l.slot : l \in Written(f)} \cup {0 : l \in {k \in Written(f) : k.keys # {}}}
                      /\ Shallow(f) =>
                           /\ Identified(Written(f)) \subseteq Listed(sl.write_slots, f)
                           /\ \A st \in Reached(f, "JUMPI") :
                                contract.stores # <<>> /\ st.shape = "compared" /\ Together(f, st.reads)
                                  => Identified(st.reads) \subseteq sl.read_slots_in_conditions[f]
    BY DEF AllCollected
  <1> DEFINE have == {e.loc : e \in {d \in t.writes : d.fn = f}}
  <1> DEFINE want == Written(f)
  <1>1. have \subseteq want
    <2> SUFFICES ASSUME NEW e \in t.writes, e.fn = f PROVE e.loc \in want
      OBVIOUS
    <2>1. e.address \in Reachable(Body(f)) /\ Body(f)[e.address].op = "SSTORE" /\ e.loc \in ToSet(Body(f)[e.address].locs)
      BY DEF Sound
    <2>2. Body(f)[e.address] \in Reached(f, "SSTORE")
      BY <2>1 DEF Reached, Body
    <2>. QED
      BY <2>1, <2>2 DEF Written
  <1>2. ASSUME Shallow(f) PROVE want \subseteq have
    <2> SUFFICES ASSUME NEW st \in Reached(f, "SSTORE"), NEW l \in ToSet(st.locs) PROVE l \in have
      BY DEF Written
    <2>1. PICK pc \in Reachable(Body(f)) : Body(f)[pc] = st /\ st.op = "SSTORE"
      BY DEF Reached, Body
    <2>2. PICK n \in 1..Len(st.locs) : l = st.locs[n]
      <3>1. pc \in DOMAIN Body(f) /\ Body(f) \in Seq(Statements)
        BY BodyIs
      <3>2. st.locs \in Seq(Locations)
        <4>1. Body(f)[pc] \in Statements
          BY <3>1
        <4>. QED
          BY <2>1, <4>1 DEF Statements
      <3>3. ToSet(st.locs) = {st.locs[i] : i \in 1..Len(st.locs)}
        BY <3>2, Elements
      <3>. QED
        BY <3>3
    <2>3. \E e \in t.writes : e.fn = f /\ e.loc = st.locs[n]
      BY <1>2, <2>1, LocationIs
    <2>. QED
      BY <2>2, <2>3
  <1>3. Slots(have) = Listed(sl.write_slots, f)
    <2>1. sl.write_slots = [g \in {e.fn : e \in t.writes} |-> Slots({e.loc : e \in {d \in t.writes : d.fn = g}})]
      BY DEF Refined
    <2>2. CASE f \in {e.fn : e \in t.writes}
      BY <2>1, <2>2 DEF Listed
    <2>3. CASE f \notin {e.fn : e \in t.writes}
      <3>1. have = {} /\ f \notin DOMAIN sl.write_slots
        BY <2>1, <2>3
      <3>2. Slots({}) = {}
        BY DEF Slots
      <3>. QED
        BY <3>1, <3>2 DEF Listed
    <2>. QED
      BY <2>2, <2>3
  <1>4. ASSUME Shallow(f), NEW st \in Reached(f, "JUMPI"), contract.stores # <<>>, st.shape = "compared",
               Together(f, st.reads)
        PROVE  Identified(st.reads) \subseteq sl.read_slots_in_conditions[f]
    <2> DEFINE all == UNION {Extracted(c) : c \in {d \in t.conditions : d.fn = f}}
    <2>1. PICK c \in t.conditions : c.fn = f /\ Extracted(c) = st.reads
      BY <1>4, ConditionIs
    <2>2. st.reads \subseteq all
      BY <2>1
    <2>3. sl.read_slots_in_conditions[f] = Slots(all)
      OBVIOUS
    <2>4. \A r : r \subseteq all => Identified(r) \subseteq Slots(all)
      <3>. HIDE DEF all
      <3>. QED
        BY SlotsIn
    <2>5. Identified(st.reads) \subseteq Slots(all)
      <3>. HIDE DEF all
      <3>. QED
        BY <2>2, <2>4
    <2>. HIDE DEF all
    <2>. QED
      BY <2>3, <2>5
  <1>. HIDE DEF have, want
  <1>5. Slots(have) \subseteq {l.slot : l \in want} \cup {0 : l \in {k \in want : k.keys # {}}}
    BY <1>1, SlotsIn
  <1>6. ASSUME Shallow(f) PROVE Identified(want) \subseteq Slots(have)
    BY <1>2, <1>6, SlotsIn
  <1>. QED
    BY <1>3, <1>4, <1>5, <1>6 DEF want

-------------------------------------------------------------------------------
(* The preprocessing *)

\* The elements of a sequence that is not empty.
LEMMA HeadAndTail ==
  ASSUME NEW S, NEW s \in Seq(S), s # <<>>
  PROVE  Head(s) \in S /\ Tail(s) \in Seq(S) /\ ToSet(s) = {Head(s)} \cup ToSet(Tail(s))
  <1> DEFINE u == Tail(s)
  <1>1. Head(s) = s[1] /\ Len(s) \in Nat /\ Len(s) # 0 /\ u \in Seq(S) /\ Len(u) = Len(s) - 1
        /\ \A i \in 1..Len(u) : u[i] = s[i + 1]
    OBVIOUS
  <1>2. ToSet(s) = {s[i] : i \in 1..Len(s)} /\ ToSet(s) \subseteq S
    BY Elements
  <1>. HIDE DEF u
  <1>3. ToSet(u) = {u[i] : i \in 1..Len(u)}
    BY <1>1, Elements
  <1>4. \A i \in 1..Len(s) : i = 1 \/ (i - 1 \in 1..Len(u) /\ (i - 1) + 1 = i)
    BY <1>1
  <1>5. \A i \in 1..Len(u) : i + 1 \in 1..Len(s)
    BY <1>1
  <1>6. 1 \in 1..Len(s)
    BY <1>1
  <1>7. ASSUME NEW e \in ToSet(s) PROVE e = Head(s) \/ e \in ToSet(u)
    <2>1. PICK i \in 1..Len(s) : e = s[i]
      BY <1>2
    <2>2. CASE i = 1
      BY <1>1, <2>1, <2>2
    <2>3. CASE i # 1
      <3>1. i - 1 \in 1..Len(u) /\ (i - 1) + 1 = i
        BY <1>4, <2>3
      <3>2. u[i - 1] = e
        BY <1>1, <2>1, <3>1
      <3>. QED
        BY <1>3, <3>1, <3>2
    <2>. QED
      BY <2>2, <2>3
  <1>8. \A e \in ToSet(u) : e \in ToSet(s)
    BY <1>1, <1>2, <1>3, <1>5
  <1>9. ToSet(s) = {Head(s)} \cup ToSet(u)
    BY <1>1, <1>2, <1>6, <1>7, <1>8
  <1>. QED
    BY <1>1, <1>2, <1>6, <1>9 DEF u

\* What the hooks add to the tables for the state s.
LEMMA CollectedIs ==
  ASSUME contract \in Contracts, Sound(tables), NEW s, Fine(s), ~Dropped(s),
         NEW u, u = Indexed(IF Dispatching(s) THEN tables ELSE Collected(s), s)
  PROVE  Sound(u) /\ Noted(s, u) /\ tables.writes \subseteq u.writes /\ tables.conditions \subseteq u.conditions
  <1>1. tables = [indices |-> tables.indices, reads |-> tables.reads, writes |-> tables.writes,
                  conditions |-> tables.conditions]
    BY DEF Sound
  <1>2. CASE Dispatching(s)
    <2>1. \E x : u = [tables EXCEPT !.indices = x]
      BY <1>2 DEF Indexed
    <2>2. u.writes = tables.writes /\ u.conditions = tables.conditions /\ u.reads = tables.reads
          /\ u = [indices |-> u.indices, reads |-> u.reads, writes |-> u.writes, conditions |-> u.conditions]
      BY <1>1, <2>1
    <2>. QED
      BY <1>2, <2>2 DEF Sound, Noted, Dispatching
  <1>3. CASE ~Dispatching(s)
    <2> DEFINE st == Statement(s)
    <2> DEFINE W == IF st.op = "SSTORE" THEN {Recorded(s)} ELSE {}
    <2> DEFINE R == IF st.op = "SLOAD" THEN {Recorded(s)} ELSE {}
    <2> DEFINE C == Conditions(s, st)
    <2>1. \E x : u = [Collected(s) EXCEPT !.indices = x]
      BY <1>3 DEF Indexed
    <2>2. Collected(s) = [tables EXCEPT !.reads = @ \cup R, !.writes = @ \cup W, !.conditions = C]
      BY DEF Collected
    <2>. HIDE DEF W, R, C
    <2>3. u.writes = tables.writes \cup W /\ u.conditions = C
          /\ u = [indices |-> u.indices, reads |-> u.reads, writes |-> u.writes, conditions |-> u.conditions]
      BY <1>1, <2>1, <2>2
    <2>4. C = tables.conditions \cup IF st.op # "JUMPI" \/ st.shape = "long" THEN {} ELSE {Condition(s)}
      BY DEF C, Conditions, Condition
    <2>5. ASSUME NEW e \in W
          PROVE  /\ e.fn \in Functions /\ e.address \in Reachable(Body(e.fn))
                 /\ Body(e.fn)[e.address].op = "SSTORE" /\ e.loc \in ToSet(Body(e.fn)[e.address].locs)
      <3>1. st.op = "SSTORE" /\ e.fn = s.fn /\ e.address = s.pc /\ e.loc = Location(s)
        BY <2>5 DEF W, Recorded
      <3>2. s.fn # 0
        BY <1>3 DEF Dispatching
      <3>. QED
        BY <3>1, <3>2, StatementIs
    <2>6. Sound(u)
      <3>1. ASSUME NEW e \in u.writes
            PROVE  /\ e.fn \in Functions /\ e.address \in Reachable(Body(e.fn))
                   /\ Body(e.fn)[e.address].op = "SSTORE" /\ e.loc \in ToSet(Body(e.fn)[e.address].locs)
        <4>1. CASE e \in W
          BY <2>5, <4>1
        <4>2. CASE e \in tables.writes
          BY <4>2 DEF Sound
        <4>. QED
          BY <2>3, <4>1, <4>2
      <3>. QED
        BY <2>3, <3>1 DEF Sound
    <2>7. Noted(s, u)
      BY <2>3, <2>4 DEF Noted, W
    <2>. QED
      BY <2>3, <2>4, <2>6, <2>7
  <1>. QED
    BY <1>2, <1>3

\* One state more.
LEMMA StateMore ==
  ASSUME contract \in Contracts, NEW D, NEW work \in Seq(States), work # <<>>, NEW t, Exploring(D, work, t),
         NEW s, s = Head(work), NEW rest, rest = Tail(work),
         NEW next \in Seq(States), NEW u, t.writes \subseteq u.writes, t.conditions \subseteq u.conditions,
         Noted(s, u), ~Dropped(s) => next = Successors(s), \A x \in ToSet(next) : Fine(x)
  PROVE  Exploring(D \cup {s}, rest \o next, u)
  <1>1. rest \in Seq(States) /\ ToSet(work) = {s} \cup ToSet(rest)
    BY HeadAndTail
  <1>2. ToSet(rest \o next) = ToSet(rest) \cup ToSet(next)
    <2>1. \A a, b \in Seq(States) : ToSet(a \o b) = ToSet(a) \cup ToSet(b)
      BY Elements
    <2>. QED
      BY <1>1, <2>1
  <1>3. \A x \in D : Noted(x, t) => Noted(x, u)
    BY DEF Noted
  <1>4. Noted(s, u) /\ (~Dropped(s) => ToSet(Successors(s)) = ToSet(next))
    OBVIOUS
  <1> DEFINE all == D \cup ToSet(work)
  <1>5. all \subseteq (D \cup {s}) \cup ToSet(rest \o next)
    BY <1>1, <1>2
  <1>6. Entered \in all /\ (\A x \in all : Fine(x))
        /\ \A x \in D : Noted(x, t) /\ (~Dropped(x) => ToSet(Successors(x)) \subseteq all)
    BY DEF Exploring
  <1>7. \A x \in (D \cup {s}) \cup ToSet(rest \o next) : x \in all \/ x \in ToSet(next)
    BY <1>1, <1>2
  <1>. HIDE DEF all
  <1>8. \A x \in (D \cup {s}) \cup ToSet(rest \o next) : Fine(x)
    BY <1>6, <1>7
  <1>9. ASSUME NEW x \in D \cup {s}
        PROVE  Noted(x, u) /\ (~Dropped(x) => ToSet(Successors(x)) \subseteq (D \cup {s}) \cup ToSet(rest \o next))
    <2>1. CASE x \in D
      BY <1>3, <1>5, <1>6, <2>1
    <2>2. CASE x = s
      BY <1>2, <1>4, <2>2
    <2>. QED
      BY <2>1, <2>2
  <1>. QED
    BY <1>5, <1>6, <1>8, <1>9 DEF Exploring

\* What is known of a state depends on the contract alone.
LEMMA SameContract ==
  ASSUME contract' = contract
  PROVE  /\ Functions' = Functions /\ Entered' = Entered
         /\ \A s : Fine(s)' <=> Fine(s)
         /\ \A t : Sound(t)' <=> Sound(t)
         /\ \A s, t : Noted(s, t)' <=> Noted(s, t)
         /\ \A s : Dropped(s)' <=> Dropped(s)
         /\ \A s : Successors(s)' = Successors(s)
         /\ \A sl : AllCollected(sl)' <=> AllCollected(sl)
  <1>1. Functions' = Functions
    BY DEF Functions
  <1>2. Entered' = Entered
    BY DEF Entered, State
  <1>3. \A f : Stored(f)' = Stored(f) /\ Body(f)' = Body(f)
    BY DEF Stored, Reached, Body
  <1>4. \A s : Statement(s)' = Statement(s)
    BY DEF Statement
  <1>5. \A s : Fine(s)' <=> Fine(s)
    BY <1>1, <1>2, <1>3 DEF Fine
  <1>6. \A t : Sound(t)' <=> Sound(t)
    BY <1>1, <1>3 DEF Sound
  <1>7. \A s : Dropped(s)' <=> Dropped(s)
    <2>1. \A s : TooOften(s)' <=> TooOften(s)
      BY <1>4 DEF TooOften, Seen, Address, Dispatching
    <2>2. \A s : Depth(s)' = Depth(s)
      BY DEF Depth, Dispatching, Branches
    <2>. QED
      BY <2>1, <2>2 DEF Dropped
  <1>8. \A s : Location(s)' = Location(s)
    BY <1>4 DEF Location, Address
  <1>9. \A s, t : Noted(s, t)' <=> Noted(s, t)
    BY <1>4, <1>7, <1>8 DEF Noted, Recorded, Condition
  <1>10. \A s : Successors(s)' = Successors(s)
    <2> SUFFICES ASSUME NEW s PROVE Successors(s)' = Successors(s)
      OBVIOUS
    <2>1. CASE Dispatching(s)
      <3>1. Successors(s) = [f \in Functions |-> State(f, 1, Seen(s))]
        BY <2>1 DEF Successors
      <3>2. Successors(s)' = [f \in Functions' |-> State(f, 1, Seen(s))]
        BY <2>1 DEF Successors, Dispatching, Seen, State, Address
      <3>. QED
        BY <1>1, <3>1, <3>2
    <2>2. CASE ~Dispatching(s)
      <3> DEFINE Next1(st, l) ==
            LET t == Seen(s)
            IN  CASE st.op \in {"SLOAD", "JUMPDEST"} -> <<State(s.fn, s.pc + 1, t)>>
                  [] st.op = "SSTORE" -> <<State(s.fn, s.pc + 1, [t EXCEPT !.stores = Append(@, l)])>>
                  [] st.op = "JUMP" -> <<State(s.fn, st.to, t)>>
                  [] st.op = "JUMPI" -> <<State(s.fn, s.pc + 1, t), State(s.fn, st.to, t)>>
                  [] st.op \in {"STOP", "REVERT", "INVALID"} -> <<>>
      <3>1. Successors(s) = Next1(Statement(s), Location(s))
        BY <2>2 DEF Successors
      <3>2. Successors(s)' = Next1(Statement(s)', Location(s)')
        BY <2>2 DEF Successors, Dispatching, Seen, State, Address
      <3>. HIDE DEF Next1
      <3>. QED
        BY <1>4, <1>8, <3>1, <3>2
    <2>. QED
      BY <2>1, <2>2
  <1>11. \A sl : AllCollected(sl)' <=> AllCollected(sl)
    <2>1. \A f, op : Reached(f, op)' = Reached(f, op)
      BY DEF Reached
    <2>2. \A f, r : Together(f, r)' <=> Together(f, r)
      BY <1>3 DEF Together
    <2>3. \A f : Written(f)' = Written(f) /\ (Shallow(f)' <=> Shallow(f))
      BY <2>1 DEF Written, Shallow
    <2>. QED
      BY <1>1, <2>1, <2>2, <2>3 DEF AllCollected
  <1>. QED
    BY <1>1, <1>2, <1>5, <1>6, <1>7, <1>9, <1>10, <1>11

\* A preprocessing that is not cut off has executed some states, whose statements are in the tables,
\* and the states that come after them have been executed, too, or are in work_list.
CollectInv ==
  /\ contract \in Contracts
  /\ phase \in {"start", "preprocessing", "prepared", "guided", "rounds"}
  /\ phase = "start" => tables = NoTables /\ ~timeout
  /\ phase = "preprocessing" =>
       /\ work_list \in Seq(States) /\ Sound(tables)
       /\ ~timeout => \E D : Exploring(D, work_list, tables)
       /\ timeout => work_list = <<>>
  /\ phase \in {"prepared", "guided"} /\ ~timeout => AllCollected(slots)

\* What has been explored depends on the contract alone.
LEMMA Exploration ==
  ASSUME contract' = contract, NEW D, NEW w, NEW t
  PROVE  Exploring(D, w, t)' <=> Exploring(D, w, t)
  BY SameContract DEF Exploring

\* For every contract whose locations are met within the bounds of the loops and of the depth: the
\* tables of a preprocessing that is not cut off hold no slot that no path of a function writes, but
\* for the 0 of a key that reads the storage.  Of a function whose conditional jumps, with those that
\* lead to it, are fewer than max_depth they hold every slot that some path writes and its text
\* identifies, and every such slot that a condition reads outside keys, when its locations are kept
\* together.  No state of work_list is lost but those that TooOften and max_depth drop.
THEOREM SpecEverythingCollected ==
  ASSUME LocationsMet
  PROVE  Spec => []EverythingCollected
  <1>1. Init => CollectInv
    BY DEF Init, CollectInv
  <1>2. CollectInv /\ [Next]_vars => CollectInv'
    <2> SUFFICES ASSUME CollectInv, [Next]_vars PROVE CollectInv'
      OBVIOUS
    <2>0. contract' = contract
      BY DEF Next, vars, Start, exec_preprocessing, Interrupt, main_preprocessing_end, FirstRound, Round
    <2>00. contract \in Contracts /\ contract' \in Contracts
      BY <2>0 DEF CollectInv
    <2>1. CASE Start
      <3>1. CASE contract.guided
        <4>1. phase = "start" /\ phase' = "preprocessing" /\ work_list' = <<Entered>> /\ tables' = NoTables /\ ~timeout'
          BY <2>1, <3>1 DEF Start, CollectInv, Entered
        <4>2. Fine(Entered)
          <5>1. contract.stores \in Seq(Locations)
            BY <2>00, ContractsAssumption
          <5>2. Entered \in States
            BY <5>1 DEF Entered, State, States
          <5>. QED
            BY <5>2 DEF Fine, Entered, State
        <4>3. <<Entered>> \in Seq(States) /\ ToSet(<<Entered>>) = {Entered}
          BY <4>2, Single DEF Fine
        <4>4. Exploring({}, <<Entered>>, NoTables)
          BY <4>2, <4>3 DEF Exploring
        <4>5. Sound(NoTables)
          BY DEF Sound, NoTables
        <4>6. Exploring({}, work_list, tables)'
          BY <2>0, <4>1, <4>4, Exploration
        <4>7. Sound(tables)'
          BY <2>0, <4>1, <4>5, SameContract
        <4>. QED
          BY <2>00, <4>1, <4>3, <4>6, <4>7 DEF CollectInv
      <3>2. CASE ~contract.guided
        <4>1. phase' = "rounds"
          BY <2>1, <3>2 DEF Start
        <4>. QED
          BY <2>00, <4>1 DEF CollectInv
      <3>. QED
        BY <3>1, <3>2
    <2>2. CASE exec_preprocessing
      <3> DEFINE s == Head(work_list)
      <3> DEFINE next == IF Dropped(s) THEN <<>> ELSE Successors(s)
      <3> DEFINE rest == Tail(work_list)
      <3>1. phase = "preprocessing" /\ phase' = phase /\ work_list # <<>> /\ timeout' = timeout
        BY <2>2 DEF exec_preprocessing
      <3>2. work_list \in Seq(States) /\ Sound(tables)
        BY <3>1 DEF CollectInv
      <3>3. rest \in Seq(States)
        BY <3>1, <3>2, HeadAndTail
      <3>4. work_list' = rest \o next
        <4>1. Dropped(s) => work_list' = rest
          BY <2>2 DEF exec_preprocessing
        <4>2. ~Dropped(s) => work_list' = rest \o Successors(s)
          BY <2>2 DEF exec_preprocessing
        <4>. HIDE DEF s, rest
        <4>3. rest \o <<>> = rest
          BY <3>3
        <4>. QED
          BY <4>1, <4>2, <4>3
      <3>5. s \in ToSet(work_list)
        BY <3>1, <3>2, HeadAndTail
      <3>6. Dropped(s) => tables' = tables
        BY <2>2 DEF exec_preprocessing
      <3>7. ~Dropped(s) => tables' = Indexed(IF Dispatching(s) THEN tables ELSE Collected(s), s)
        BY <2>2 DEF exec_preprocessing
      <3>. HIDE DEF rest, s, next
      <3>8. ASSUME Fine(s)
            PROVE  /\ Sound(tables') /\ Noted(s, tables')
                   /\ tables.writes \subseteq tables'.writes /\ tables.conditions \subseteq tables'.conditions
                   /\ next \in Seq(States) /\ \A x \in ToSet(next) : Fine(x)
        <4>1. CASE Dropped(s)
          <5>1. next = <<>> /\ <<>> \in Seq(States)
            BY <4>1 DEF next
          <5>2. ToSet(<<>>) = {}
            BY Single
          <5>. QED
            BY <3>2, <3>6, <4>1, <5>1, <5>2 DEF Noted
        <4>2. CASE ~Dropped(s)
          <5>1. next = Successors(s) /\ Leads(s, Successors(s))
            BY <2>00, <3>8, <4>2, SuccessorsAre DEF next
          <5>2. \A u : u = Indexed(IF Dispatching(s) THEN tables ELSE Collected(s), s) =>
                  Sound(u) /\ Noted(s, u) /\ tables.writes \subseteq u.writes /\ tables.conditions \subseteq u.conditions
            BY <2>00, <3>2, <3>8, <4>2, CollectedIs
          <5>. QED
            BY <3>7, <4>2, <5>1, <5>2 DEF Leads
        <4>. QED
          BY <4>1, <4>2
      <3>9. ~timeout
        BY <3>1 DEF CollectInv
      <3>10. PICK D : Exploring(D, work_list, tables)
        BY <3>1, <3>9 DEF CollectInv
      <3>11. Fine(s)
        BY <3>5, <3>10 DEF Exploring
      <3>12. Exploring(D \cup {s}, rest \o next, tables')
        <4>1. ~Dropped(s) => next = Successors(s)
          BY DEF next
        <4>2. s = Head(work_list) /\ rest = Tail(work_list)
          BY DEF s, rest
        <4>3. \A u : u = tables' => Exploring(D \cup {s}, rest \o next, u)
          BY <2>00, <3>1, <3>2, <3>8, <3>10, <3>11, <4>1, <4>2, StateMore
        <4>. QED
          BY <4>3
      <3>13. PICK E : Exploring(E, rest \o next, tables')
        BY <3>12
      <3>14. Exploring(E, work_list, tables)'
        BY <2>0, <3>4, <3>13, Exploration
      <3>15. Sound(tables)'
        BY <2>0, <3>8, <3>11, SameContract
      <3>16. work_list' \in Seq(States)
        BY <3>3, <3>4, <3>8, <3>11
      <3>17. ~timeout' /\ \E C : Exploring(C, work_list, tables)'
        BY <3>1, <3>9, <3>14
      <3>. QED
        BY <2>00, <3>1, <3>15, <3>16, <3>17 DEF CollectInv
    <2>3. CASE Interrupt
      <3>1. phase = "preprocessing" /\ phase' = phase /\ tables' = tables /\ work_list' = <<>> /\ timeout' = TRUE
        BY <2>3 DEF Interrupt
      <3>2. Sound(tables) /\ <<>> \in Seq(States)
        BY <3>1 DEF CollectInv
      <3>3. Sound(tables)'
        BY <2>0, <3>1, <3>2, SameContract
      <3>. QED
        BY <2>00, <3>1, <3>2, <3>3 DEF CollectInv
    <2>4. CASE main_preprocessing_end
      <3>1. phase = "preprocessing" /\ phase' = "prepared" /\ work_list = <<>> /\ timeout' = timeout
            /\ slots'.write_slots = Refined(tables.writes)
            /\ slots'.read_slots_in_conditions =
                 [f \in Functions |-> Slots(UNION {Extracted(c) : c \in {d \in tables.conditions : d.fn = f}})]
        BY <2>4 DEF main_preprocessing_end
      <3>2. ASSUME ~timeout PROVE AllCollected(slots')
        <4>1. PICK D : Exploring(D, <<>>, tables)
          BY <3>1, <3>2 DEF CollectInv
        <4>2. Whole(D, tables)
          <5>1. D \cup ToSet(<<>>) = D
            BY Single
          <5>. QED
            BY <4>1, <5>1 DEF Exploring, Whole
        <4>3. Sound(tables)
          BY <3>1 DEF CollectInv
        <4>. QED
          BY <2>00, <3>1, <4>2, <4>3, Gathered
      <3>3. ~timeout' => AllCollected(slots)'
        BY <2>0, <3>1, <3>2, SameContract
      <3>. QED
        BY <2>00, <3>1, <3>3 DEF CollectInv
    <2>5. CASE FirstRound
      <3>1. phase = "prepared" /\ phase' = "guided" /\ timeout' = timeout /\ slots' = slots
        BY <2>5 DEF FirstRound
      <3>2. ~timeout' => AllCollected(slots)'
        BY <2>0, <3>1, SameContract DEF CollectInv
      <3>. QED
        BY <2>00, <3>1, <3>2 DEF CollectInv
    <2>6. CASE Round
      <3>1. phase = "rounds" /\ phase' = "rounds"
        BY <2>6 DEF Round
      <3>. QED
        BY <2>00, <3>1 DEF CollectInv
    <2>7. CASE UNCHANGED vars
      <3>1. phase' = phase /\ work_list' = work_list /\ tables' = tables /\ timeout' = timeout /\ slots' = slots
        BY <2>7 DEF vars
      <3>2. phase = "preprocessing" /\ ~timeout => \E D : Exploring(D, work_list, tables)'
        BY <2>0, <3>1, Exploration DEF CollectInv
      <3>. QED
        BY <2>0, <3>1, <3>2, SameContract DEF CollectInv
    <2>. QED
      BY <2>1, <2>2, <2>3, <2>4, <2>5, <2>6, <2>7 DEF Next
  <1>3. CollectInv => EverythingCollected
    BY DEF CollectInv, EverythingCollected, AllCollected
  <1>. QED
    BY <1>1, <1>2, <1>3, PTL DEF Spec
================================================================================
