----------------------------- MODULE MachineProofs -----------------------------
(* Theorems about Words and Machine, for words and bytes of any width, any programs, data and *)
(* limits.                                                                                    *)
EXTENDS Machine, SequenceTheorems, WellFoundedInduction, TLAPS

-------------------------------------------------------------------------------
(* Induction and recursion on the natural numbers, for sets and functions *)

LEMMA LeastElement ==
  ASSUME NEW T, T \subseteq Nat, T # {}
  PROVE  \E x \in T : \A y \in T : x <= y
  <1>1. \E x \in T : \A y \in T : ~(<<y, x>> \in OpToRel(<, Nat))
    BY NatLessThanWellFounded, WFMin
  <1>2. PICK x \in T : \A y \in T : ~(<<y, x>> \in OpToRel(<, Nat))
    BY <1>1
  <1>3. OpToRel(<, Nat) = {s \in Nat \X Nat : s[1] < s[2]}
    BY DEF OpToRel
  <1>4. ASSUME NEW y \in T PROVE x <= y
    <2>1. <<y, x>> \in Nat \X Nat /\ <<y, x>>[1] = y /\ <<y, x>>[2] = x
      OBVIOUS
    <2>2. ~(y < x)
      BY <1>2, <1>3, <2>1
    <2>. QED
      BY <2>2
  <1>. QED
    BY <1>4

LEMMA Induction ==
  ASSUME NEW T, 0 \in T, \A n \in Nat : n \in T => n + 1 \in T
  PROVE  \A n \in Nat : n \in T
  <1> DEFINE Rest == {n \in Nat : n \notin T}
  <1> SUFFICES ASSUME Rest # {} PROVE FALSE
    OBVIOUS
  <1>1. PICK x \in Rest : \A y \in Rest : x <= y
    BY LeastElement
  <1>2. x # 0 /\ x - 1 \in Nat
    BY <1>1
  <1>3. x - 1 \notin Rest
    BY <1>1, <1>2
  <1>4. (x - 1) + 1 \in T
    BY <1>2, <1>3
  <1>. QED
    BY <1>4

Follows(g, n, a, step) ==
  /\ g[0] = a
  /\ \A k \in Nat : k < n => g[k + 1] = step[<<k, g[k]>>]

LEMMA Unrolled ==
  ASSUME NEW S, NEW a \in S, NEW step \in [Nat \X S -> S], NEW n \in Nat
  PROVE  \E g \in [Nat -> S] : Follows(g, n, a, step)
  <1> DEFINE T == {k \in Nat : \E g \in [Nat -> S] : Follows(g, k, a, step)}
  <1>1. 0 \in T
    <2>1. [k \in Nat |-> a] \in [Nat -> S]
      OBVIOUS
    <2>2. Follows([k \in Nat |-> a], 0, a, step)
      BY DEF Follows
    <2>. QED
      BY <2>1, <2>2
  <1>2. ASSUME NEW k \in Nat, k \in T PROVE k + 1 \in T
    <2>1. PICK g \in [Nat -> S] : Follows(g, k, a, step)
      BY <1>2
    <2> DEFINE h == [g EXCEPT ![k + 1] = step[<<k, g[k]>>]]
    <2>2. h \in [Nat -> S]
      OBVIOUS
    <2>3. h[0] = a
      BY <2>1 DEF Follows
    <2>4. ASSUME NEW j \in Nat, j < k + 1 PROVE h[j + 1] = step[<<j, h[j]>>]
      <3>1. h[j] = g[j]
        BY <2>4
      <3>2. CASE j = k
        BY <3>1, <3>2
      <3>3. CASE j < k
        <4>1. h[j + 1] = g[j + 1]
          BY <3>3
        <4>. QED
          BY <2>1, <3>1, <3>3, <4>1 DEF Follows
      <3>. QED
        BY <2>4, <3>2, <3>3
    <2>5. Follows(h, k + 1, a, step)
      BY <2>3, <2>4 DEF Follows
    <2>. HIDE DEF h
    <2>6. \E f \in [Nat -> S] : Follows(f, k + 1, a, step)
      BY <2>2, <2>5
    <2>. QED
      BY <2>6
  <1>. HIDE DEF T
  <1>3. n \in T
    BY <1>1, <1>2, Induction
  <1>. QED
    BY <1>3 DEF T

LEMMA UnrolledOnce ==
  ASSUME NEW S, NEW a \in S, NEW step \in [Nat \X S -> S], NEW n \in Nat, NEW g, NEW h,
         Follows(g, n, a, step), Follows(h, n, a, step)
  PROVE  \A k \in 0..n : g[k] = h[k]
  <1> DEFINE T == {k \in Nat : k <= n => g[k] = h[k]}
  <1>1. 0 \in T
    BY DEF Follows
  <1>2. ASSUME NEW k \in Nat, k \in T PROVE k + 1 \in T
    <2> SUFFICES ASSUME k + 1 <= n PROVE g[k + 1] = h[k + 1]
      OBVIOUS
    <2>1. k < n /\ g[k] = h[k]
      BY <1>2
    <2>. QED
      BY <2>1 DEF Follows
  <1>. HIDE DEF T
  <1>3. \A k \in Nat : k \in T
    BY <1>1, <1>2, Induction
  <1>. QED
    BY <1>3 DEF T

\* A function defined by recursion on the natural numbers exists.
Recursive(g, S, a, step) ==
  /\ g \in [Nat -> S]
  /\ g[0] = a
  /\ \A k \in Nat : g[k + 1] = step[<<k, g[k]>>]

LEMMA Recursion ==
  ASSUME NEW S, NEW a \in S, NEW step \in [Nat \X S -> S]
  PROVE  \E g : Recursive(g, S, a, step)
  <1> DEFINE G(n) == CHOOSE g \in [Nat -> S] : Follows(g, n, a, step)
  <1> DEFINE f == [n \in Nat |-> G(n)[n]]
  <1>1. ASSUME NEW n \in Nat
        PROVE  G(n) \in [Nat -> S] /\ Follows(G(n), n, a, step)
    BY Unrolled
  <1>. HIDE DEF G
  <1>2. f \in [Nat -> S]
    BY <1>1
  <1>3. f[0] = a
    BY <1>1 DEF Follows
  <1>4. ASSUME NEW k \in Nat PROVE f[k + 1] = step[<<k, f[k]>>]
    <2>1. Follows(G(k), k, a, step) /\ Follows(G(k + 1), k + 1, a, step)
      BY <1>1
    <2>2. Follows(G(k + 1), k, a, step)
      BY <2>1 DEF Follows
    <2>3. \A j \in 0..k : G(k)[j] = G(k + 1)[j]
      BY <2>1, <2>2, UnrolledOnce
    <2>4. G(k)[k] = G(k + 1)[k]
      BY <2>3
    <2>5. G(k + 1)[k + 1] = step[<<k, G(k + 1)[k]>>]
      BY <2>1 DEF Follows
    <2>. QED
      BY <2>4, <2>5
  <1>. HIDE DEF f
  <1>5. Recursive(f, S, a, step)
    BY <1>2, <1>3, <1>4 DEF Recursive
  <1>. QED
    BY <1>5

-------------------------------------------------------------------------------
(* Division *)

Positive == Nat \ {0}

LEMMA ProductNat ==
  ASSUME NEW a \in Nat, NEW b \in Nat
  PROVE  a * b \in Nat
  OBVIOUS

LEMMA AtLeastFactor ==
  ASSUME NEW a \in Positive, NEW b \in Positive
  PROVE  a * b >= b
  <1>1. a - 1 \in Nat /\ (a - 1) * b >= 0
    BY DEF Positive
  <1>2. a * b = (a - 1) * b + b
    BY DEF Positive
  <1>. QED
    BY <1>1, <1>2 DEF Positive

\* A quotient and a remainder are the only ones.
LEMMA OneQuotient ==
  ASSUME NEW b \in Positive, NEW q \in Int, NEW p \in Int, NEW r \in 0..(b - 1), NEW s \in 0..(b - 1),
         q * b + r = p * b + s
  PROVE  q = p /\ r = s
  <1>1. (q - p) * b = s - r /\ (p - q) * b = r - s
    BY DEF Positive
  <1>2. ASSUME q - p > 0 PROVE FALSE
    <2>1. (q - p) * b >= b
      BY <1>2, AtLeastFactor DEF Positive
    <2>. QED
      BY <1>1, <2>1 DEF Positive
  <1>3. ASSUME p - q > 0 PROVE FALSE
    <2>1. (p - q) * b >= b
      BY <1>3, AtLeastFactor DEF Positive
    <2>. QED
      BY <1>1, <2>1 DEF Positive
  <1>4. q = p
    BY <1>2, <1>3
  <1>. QED
    BY <1>4, <1>1

LEMMA Quotient ==
  ASSUME NEW n \in Int, NEW b \in Positive
  PROVE  /\ n \div b \in Int /\ n % b \in 0..(b - 1)
         /\ n = (n \div b) * b + (n % b)
  BY DEF Positive

LEMMA Divided ==
  ASSUME NEW n \in Int, NEW b \in Positive
  PROVE  \E q \in Int, r \in 0..(b - 1) : n = q * b + r
  BY Quotient

LEMMA IsQuotient ==
  ASSUME NEW b \in Positive, NEW q \in Int, NEW r \in 0..(b - 1)
  PROVE  (q * b + r) \div b = q /\ (q * b + r) % b = r
  <1> DEFINE n == q * b + r
  <1>1. n \in Int
    BY DEF Positive
  <1>. HIDE DEF n
  <1>2. n \div b \in Int /\ n % b \in 0..(b - 1) /\ n = (n \div b) * b + (n % b)
    BY <1>1, Quotient
  <1>3. (n \div b) * b + (n % b) = q * b + r
    BY <1>2 DEF n
  <1>4. n \div b = q /\ n % b = r
    BY <1>2, <1>3, OneQuotient
  <1>. QED
    BY <1>4 DEF n

LEMMA SmallRemainder ==
  ASSUME NEW b \in Positive, NEW r \in 0..(b - 1)
  PROVE  r % b = r /\ r \div b = 0
  <1>1. 0 * b + r = r
    BY DEF Positive
  <1>. QED
    BY <1>1, IsQuotient

LEMMA MultipleRemainder ==
  ASSUME NEW b \in Positive, NEW q \in Int
  PROVE  (q * b) % b = 0 /\ (q * b) \div b = q
  <1>1. 0 \in 0..(b - 1) /\ q * b + 0 = q * b
    BY DEF Positive
  <1>. QED
    BY <1>1, IsQuotient

\* Multiples of the divisor do not change the remainder.
LEMMA AddMultiple ==
  ASSUME NEW b \in Positive, NEW q \in Int, NEW n \in Int
  PROVE  (q * b + n) % b = n % b
  <1>1. PICK p \in Int, r \in 0..(b - 1) : n = p * b + r
    BY Divided
  <1>2. n % b = r
    BY <1>1, IsQuotient
  <1>3. q * b + n = (q + p) * b + r
    BY <1>1 DEF Positive
  <1>4. ((q + p) * b + r) % b = r
    BY IsQuotient
  <1>. QED
    BY <1>2, <1>3, <1>4

LEMMA RemainderOfSum ==
  ASSUME NEW c \in Positive, NEW a \in Int, NEW b \in Int
  PROVE  ((a % c) + (b % c)) % c = (a + b) % c
  <1>1. PICK p \in Int, r \in 0..(c - 1) : a = p * c + r
    BY Divided
  <1>2. PICK q \in Int, s \in 0..(c - 1) : b = q * c + s
    BY Divided
  <1>3. a % c = r /\ b % c = s
    BY <1>1, <1>2, IsQuotient
  <1>4. a + b = (p + q) * c + (r + s)
    BY <1>1, <1>2 DEF Positive
  <1>5. ((p + q) * c + (r + s)) % c = (r + s) % c
    BY AddMultiple
  <1>. QED
    BY <1>3, <1>4, <1>5

LEMMA RemainderOfProduct ==
  ASSUME NEW c \in Positive, NEW a \in Int, NEW b \in Int
  PROVE  ((a % c) * (b % c)) % c = (a * b) % c
  <1>1. PICK p \in Int, r \in 0..(c - 1) : a = p * c + r
    BY Divided
  <1>2. PICK q \in Int, s \in 0..(c - 1) : b = q * c + s
    BY Divided
  <1>3. a % c = r /\ b % c = s
    BY <1>1, <1>2, IsQuotient
  <1>4. c \in Int /\ r \in Int /\ s \in Int
    BY DEF Positive
  <1>5. a * b = (p * q * c + p * s + q * r) * c + r * s
    BY <1>1, <1>2, <1>4
  <1>6. p * q * c + p * s + q * r \in Int /\ r * s \in Int
    BY <1>4
  <1>7. ((p * q * c + p * s + q * r) * c + r * s) % c = (r * s) % c
    BY <1>6, AddMultiple
  <1>. QED
    BY <1>3, <1>5, <1>7

-------------------------------------------------------------------------------
(* Powers of two *)

LEMMA TwoToIs ==
  /\ TwoTo \in [Nat -> Positive]
  /\ TwoTo[0] = 1
  /\ \A n \in Nat : TwoTo[n + 1] = 2 * TwoTo[n]
  <1> DEFINE step == [p \in Nat \X Positive |-> 2 * p[2]]
  <1>1. step \in [Nat \X Positive -> Positive] /\ 1 \in Positive
    BY DEF Positive
  <1>. HIDE DEF step
  <1>2. PICK g : Recursive(g, Positive, 1, step)
    BY <1>1, Recursion
  <1>3. g[0] = 1 /\ g \in [Nat -> Positive] /\ \A k \in Nat : g[k + 1] = 2 * g[k]
    BY <1>2 DEF Recursive, step
  <1>4. ASSUME NEW k \in Nat, k # 0 PROVE g[k] = 2 * g[k - 1]
    <2>1. k - 1 \in Nat /\ (k - 1) + 1 = k
      BY <1>4
    <2>. QED
      BY <1>3, <2>1
  <1>5. g = [k \in Nat |-> IF k = 0 THEN 1 ELSE 2 * g[k - 1]]
    BY <1>3, <1>4
  <1>6. TwoTo = [k \in Nat |-> IF k = 0 THEN 1 ELSE 2 * TwoTo[k - 1]]
    BY <1>5 DEF TwoTo
  <1>7. TwoTo[0] = 1
    BY <1>6
  <1>8. ASSUME NEW n \in Nat PROVE TwoTo[n + 1] = 2 * TwoTo[n]
    <2>1. n + 1 \in Nat /\ n + 1 # 0 /\ (n + 1) - 1 = n
      OBVIOUS
    <2>. QED
      BY <1>6, <2>1
  <1>9. \A n \in Nat : TwoTo[n] \in Positive
    <2> DEFINE T == {n \in Nat : TwoTo[n] \in Positive}
    <2>1. 0 \in T
      BY <1>7 DEF Positive
    <2>2. \A n \in Nat : n \in T => n + 1 \in T
      BY <1>8 DEF Positive
    <2>. HIDE DEF T
    <2>3. \A n \in Nat : n \in T
      BY <2>1, <2>2, Induction
    <2>. QED
      BY <2>3 DEF T
  <1>. QED
    BY <1>6, <1>7, <1>8, <1>9

LEMMA TwoToType == ASSUME NEW n \in Nat PROVE TwoTo[n] \in Positive
  BY TwoToIs

LEMMA TwoToSum ==
  ASSUME NEW a \in Nat, NEW b \in Nat
  PROVE  TwoTo[a + b] = TwoTo[a] * TwoTo[b]
  <1> DEFINE T == {n \in Nat : TwoTo[a + n] = TwoTo[a] * TwoTo[n]}
  <1>1. 0 \in T
    BY TwoToIs, TwoToType DEF Positive
  <1>2. ASSUME NEW n \in Nat, n \in T PROVE n + 1 \in T
    <2>1. TwoTo[a + (n + 1)] = 2 * TwoTo[a + n]
      <3>1. a + n \in Nat /\ a + (n + 1) = (a + n) + 1
        OBVIOUS
      <3>. QED
        BY <3>1, TwoToIs
    <2>2. TwoTo[n + 1] = 2 * TwoTo[n]
      BY TwoToIs
    <2>3. TwoTo[a] \in Positive /\ TwoTo[n] \in Positive
      BY TwoToType
    <2>4. TwoTo[a] * (2 * TwoTo[n]) = 2 * (TwoTo[a] * TwoTo[n])
      BY <2>3 DEF Positive
    <2>. QED
      BY <1>2, <2>1, <2>2, <2>4
  <1>. HIDE DEF T
  <1>3. b \in T
    BY <1>1, <1>2, Induction
  <1>. QED
    BY <1>3 DEF T

LEMMA TwoToLarger ==
  ASSUME NEW n \in Nat
  PROVE  n < TwoTo[n]
  <1> DEFINE T == {k \in Nat : k < TwoTo[k]}
  <1>1. 0 \in T
    BY TwoToIs
  <1>2. ASSUME NEW k \in Nat, k \in T PROVE k + 1 \in T
    <2>1. TwoTo[k + 1] = 2 * TwoTo[k] /\ TwoTo[k] \in Positive
      BY TwoToIs, TwoToType
    <2>. QED
      BY <1>2, <2>1 DEF Positive
  <1>. HIDE DEF T
  <1>3. n \in T
    BY <1>1, <1>2, Induction
  <1>. QED
    BY <1>3 DEF T

LEMMA TwoToGrows ==
  ASSUME NEW a \in Nat, NEW b \in Nat, a < b
  PROVE  2 * TwoTo[a] <= TwoTo[b]
  <1>1. b - a - 1 \in Nat /\ b = (a + 1) + (b - a - 1)
    OBVIOUS
  <1>2. TwoTo[b] = TwoTo[a + 1] * TwoTo[b - a - 1]
    BY <1>1, TwoToSum
  <1>3. TwoTo[a + 1] \in Positive /\ TwoTo[b - a - 1] \in Positive /\ TwoTo[a + 1] = 2 * TwoTo[a]
    BY <1>1, TwoToIs, TwoToType
  <1>4. TwoTo[b - a - 1] * TwoTo[a + 1] >= TwoTo[a + 1]
    BY <1>3, AtLeastFactor
  <1>. QED
    BY <1>2, <1>3, <1>4 DEF Positive

-------------------------------------------------------------------------------
(* Words *)

LEMMA Widths ==
  /\ B \in Positive /\ W \in Positive /\ Bytes \in Positive /\ W = Bytes * B /\ B < W /\ Bytes > 1
  /\ Size \in Positive /\ Size > 1 /\ W < Size
  <1>1. B \in Positive /\ W \in Nat /\ W > B /\ W % B = 0
    BY WidthAssumption DEF Positive
  <1>2. W \div B \in Int /\ W = (W \div B) * B + (W % B)
    BY <1>1, Quotient
  <1>3. Bytes \in Int /\ W = Bytes * B
    <2>1. (W \div B) * B \in Int /\ W = (W \div B) * B
      BY <1>1, <1>2 DEF Positive
    <2>. QED
      BY <1>2, <2>1 DEF Bytes
  <1>4. Bytes > 1
    <2>1. ASSUME Bytes <= 0 PROVE FALSE
      <3>1. -Bytes \in Nat /\ (-Bytes) * B >= 0
        BY <1>1, <1>3, <2>1 DEF Positive
      <3>2. (-Bytes) * B = -(Bytes * B)
        BY <1>1, <1>3 DEF Positive
      <3>. QED
        BY <1>1, <1>3, <3>1, <3>2 DEF Positive
    <2>2. Bytes # 1
      BY <1>1, <1>3 DEF Positive
    <2>. QED
      BY <1>3, <2>1, <2>2
  <1>5. W < Size /\ Size \in Positive
    BY <1>1, TwoToLarger, TwoToType DEF Size
  <1>. QED
    BY <1>1, <1>3, <1>4, <1>5 DEF Positive

LEMMA Wrapped ==
  ASSUME NEW n \in Int
  PROVE  Wrap(n) \in Word
  BY Widths, Quotient DEF Wrap, Word

LEMMA WrapOfWord ==
  ASSUME NEW n \in Word
  PROVE  Wrap(n) = n
  BY Widths, SmallRemainder DEF Wrap, Word

LEMMA WordType == Word \subseteq Nat /\ 0 \in Word /\ 1 \in Word
  BY Widths DEF Word, Positive

LEMMA SignedType ==
  ASSUME NEW a \in Word
  PROVE  Signed(a) \in Int
  BY Widths DEF Signed, Word, Positive

LEMMA SignedNot ==
  ASSUME NEW a \in Word, Signed(a) >= 0
  PROVE  Signed(a) = a
  BY Widths DEF Signed, Word, Positive

-------------------------------------------------------------------------------
(* Powers *)

LEMMA PowerIs ==
  ASSUME NEW a \in Word
  PROVE  /\ Power(a, 0) = 1
         /\ \A n \in Nat : Power(a, n) \in Word /\ Power(a, n + 1) = Wrap(Power(a, n) * a)
  <1> DEFINE step == [p \in Nat \X Word |-> Wrap(p[2] * a)]
  <1>1. step \in [Nat \X Word -> Word] /\ 1 \in Word
    <2>1. ASSUME NEW p \in Nat \X Word PROVE Wrap(p[2] * a) \in Word
      <3>1. p[2] \in Nat /\ a \in Nat
        BY WordType
      <3>2. p[2] * a \in Int
        BY <3>1
      <3>. QED
        BY <3>2, Wrapped
    <2>. QED
      BY <2>1, WordType
  <1>2. PICK g : Recursive(g, Word, 1, step)
    <2>. HIDE DEF step
    <2>. QED
      BY <1>1, Recursion
  <1>3. g[0] = 1 /\ g \in [Nat -> Word] /\ \A k \in Nat : g[k + 1] = Wrap(g[k] * a)
    BY <1>2 DEF Recursive
  <1>. HIDE DEF step
  <1>4. ASSUME NEW b \in Nat PROVE Power(a, b) = g[b]
    <2> DEFINE to[n \in 0..b] == IF n = 0 THEN 1 ELSE Wrap(to[n - 1] * a)
    <2> DEFINE h == [n \in 0..b |-> g[n]]
    <2>1. ASSUME NEW n \in 0..b, n # 0 PROVE h[n] = Wrap(h[n - 1] * a)
      <3>1. n - 1 \in Nat /\ (n - 1) + 1 = n /\ n - 1 \in 0..b
        BY <2>1
      <3>. QED
        BY <1>3, <3>1
    <2>2. h = [n \in 0..b |-> IF n = 0 THEN 1 ELSE Wrap(h[n - 1] * a)]
      BY <1>3, <2>1
    <2>. HIDE DEF h
    <2>3. to = [n \in 0..b |-> IF n = 0 THEN 1 ELSE Wrap(to[n - 1] * a)]
      BY <2>2
    <2>4. Power(a, b) = to[b]
      BY DEF Power
    <2>. HIDE DEF to
    <2> DEFINE T == {k \in Nat : k <= b => to[k] = g[k]}
    <2>5. 0 \in T
      BY <1>3, <2>3
    <2>6. ASSUME NEW k \in Nat, k \in T PROVE k + 1 \in T
      <3> SUFFICES ASSUME k + 1 <= b PROVE to[k + 1] = g[k + 1]
        OBVIOUS
      <3>1. k + 1 \in 0..b /\ k + 1 # 0 /\ (k + 1) - 1 = k /\ to[k] = g[k]
        BY <2>6
      <3>. QED
        BY <1>3, <2>3, <3>1
    <2>. HIDE DEF T
    <2>7. b \in T
      BY <2>5, <2>6, Induction
    <2>. QED
      BY <2>4, <2>7 DEF T
  <1>. QED
    BY <1>3, <1>4

LEMMA PowerOfByte ==
  ASSUME NEW n \in Nat
  PROVE  TwoTo[B] \in Word /\ Power(TwoTo[B], n) = Wrap(TwoTo[B * n])
  <1>1. TwoTo[B] \in Word
    <2>1. TwoTo[B] \in Positive /\ 2 * TwoTo[B] <= Size
      BY Widths, TwoToType, TwoToGrows DEF Size, Positive
    <2>. QED
      BY <2>1, Widths DEF Word, Positive
  <1> DEFINE T == {k \in Nat : Power(TwoTo[B], k) = Wrap(TwoTo[B * k])}
  <1>2. 0 \in T
    <2>1. B * 0 = 0
      BY Widths DEF Positive
    <2>2. Wrap(1) = 1
      BY WrapOfWord, WordType
    <2>. QED
      BY <1>1, <2>1, <2>2, PowerIs, TwoToIs
  <1>3. ASSUME NEW k \in Nat, k \in T PROVE k + 1 \in T
    <2> DEFINE p == TwoTo[B * k]
    <2>1. B * k \in Nat /\ B * (k + 1) = B * k + B /\ B \in Nat
      BY Widths DEF Positive
    <2>2. TwoTo[B * (k + 1)] = p * TwoTo[B] /\ p \in Positive
      BY <2>1, TwoToSum, TwoToType
    <2>. HIDE DEF p
    <2>3. Power(TwoTo[B], k + 1) = Wrap(Wrap(p) * TwoTo[B])
      BY <1>1, <1>3, PowerIs DEF p
    <2>4. Wrap(TwoTo[B]) = TwoTo[B]
      BY <1>1, WrapOfWord
    <2>5. p \in Int /\ TwoTo[B] \in Int /\ Size \in Positive
      <3>1. TwoTo[B] \in Positive
        BY <2>1, TwoToType
      <3>. QED
        BY <2>2, <3>1, Widths DEF Positive
    <2>6. ((p % Size) * (TwoTo[B] % Size)) % Size = (p * TwoTo[B]) % Size
      BY <2>5, RemainderOfProduct
    <2>. QED
      BY <2>2, <2>3, <2>4, <2>6 DEF Wrap
  <1>. HIDE DEF T
  <1>4. n \in T
    BY <1>2, <1>3, Induction
  <1>. QED
    BY <1>1, <1>4 DEF T

\* The power is zero from the first exponent on that shifts everything out of the word.
LEMMA PowerOutOfWord ==
  ASSUME NEW n \in Nat, n >= Bytes
  PROVE  Power(TwoTo[B], n) = 0
  <1>1. B * (n - Bytes) \in Nat /\ B * n = W + B * (n - Bytes)
    BY Widths DEF Positive
  <1>2. TwoTo[B * n] = Size * TwoTo[B * (n - Bytes)] /\ TwoTo[B * (n - Bytes)] \in Int
    <2>1. W \in Nat
      BY Widths DEF Positive
    <2>2. TwoTo[W + B * (n - Bytes)] = TwoTo[W] * TwoTo[B * (n - Bytes)]
      BY <1>1, <2>1, TwoToSum
    <2>3. TwoTo[B * (n - Bytes)] \in Positive
      BY <1>1, TwoToType
    <2>. QED
      BY <1>1, <2>2, <2>3 DEF Size, Positive
  <1>3. TwoTo[B * n] = TwoTo[B * (n - Bytes)] * Size
    BY <1>2, Widths DEF Positive
  <1>4. Wrap(TwoTo[B * n]) = 0
    BY <1>2, <1>3, Widths, MultipleRemainder DEF Wrap
  <1>. QED
    BY <1>4, PowerOfByte

-------------------------------------------------------------------------------
(* Bits *)

LEMMA DigitType ==
  ASSUME NEW a \in Nat, NEW n \in Nat
  PROVE  Digit(a, n) \in {0, 1} /\ a \div TwoTo[n] \in Nat
  <1>1. TwoTo[n] \in Positive
    BY TwoToType
  <1>2. a \div TwoTo[n] \in Nat
    BY <1>1 DEF Positive
  <1>. QED
    BY <1>2 DEF Digit

LEMMA RemainderStep ==
  ASSUME NEW a \in Nat, NEW n \in Nat
  PROVE  a % TwoTo[n + 1] = (a % TwoTo[n]) + Digit(a, n) * TwoTo[n]
  <1> DEFINE t == TwoTo[n]
  <1> DEFINE q == a \div t
  <1>1. t \in Positive /\ TwoTo[n + 1] = 2 * t
    BY TwoToType, TwoToIs
  <1>. HIDE DEF t
  <1>2. q \in Int /\ a % t \in 0..(t - 1) /\ a = q * t + (a % t)
    BY <1>1, Quotient
  <1>. HIDE DEF q
  <1>3. PICK p \in Int, d \in 0..1 : q = p * 2 + d
    <2>1. 2 \in Positive
      BY DEF Positive
    <2>2. PICK p \in Int, d \in 0..(2 - 1) : q = p * 2 + d
      BY <1>2, <2>1, Divided
    <2>. QED
      BY <2>2
  <1>4. d = q % 2
    <2>1. 2 \in Positive /\ 0..1 = 0..(2 - 1)
      BY DEF Positive
    <2>. QED
      BY <1>3, <2>1, IsQuotient
  <1>5. d * t + (a % t) \in 0..(2 * t - 1)
    <2>1. CASE d = 0
      BY <1>1, <1>2, <2>1 DEF Positive
    <2>2. CASE d = 1
      BY <1>1, <1>2, <2>2 DEF Positive
    <2>. QED
      BY <2>1, <2>2
  <1>6. a = p * (2 * t) + (d * t + (a % t))
    <2>1. (p * 2 + d) * t = p * (2 * t) + d * t
      BY <1>1 DEF Positive
    <2>2. p * (2 * t) \in Int /\ d * t \in Int
      BY <1>1 DEF Positive
    <2>. QED
      BY <1>2, <1>3, <2>1, <2>2
  <1>7. 2 * t \in Positive
    BY <1>1 DEF Positive
  <1>8. a % (2 * t) = d * t + (a % t)
    BY <1>5, <1>6, <1>7, IsQuotient
  <1>9. Digit(a, n) = d
    BY <1>4 DEF Digit, q, t
  <1>10. d * t \in Int
    BY <1>1 DEF Positive
  <1>. QED
    BY <1>1, <1>2, <1>8, <1>9, <1>10 DEF t

LEMMA AndIs ==
  ASSUME NEW a \in Nat, NEW b \in Nat
  PROVE  \E low \in [Nat -> Nat] :
           /\ low[0] = 0
           /\ \A n \in Nat : low[n + 1] = low[n] + Digit(a, n) * Digit(b, n) * TwoTo[n]
           /\ And(a, b) = low[W]
  <1> DEFINE Bitwise(n) == Digit(a, n) * Digit(b, n) * TwoTo[n]
  <1> DEFINE step == [p \in Nat \X Nat |-> p[2] + Bitwise(p[1])]
  <1>1. ASSUME NEW n \in Nat PROVE Bitwise(n) \in Nat
    <2>1. Digit(a, n) \in {0, 1} /\ Digit(b, n) \in {0, 1}
      BY DigitType
    <2>2. TwoTo[n] \in Nat
      BY TwoToType DEF Positive
    <2>3. Digit(a, n) * Digit(b, n) \in {0, 1}
      BY <2>1
    <2>. QED
      BY <2>2, <2>3
  <1>. HIDE DEF Bitwise
  <1>2. step \in [Nat \X Nat -> Nat]
    BY <1>1
  <1>3. PICK g : Recursive(g, Nat, 0, step)
    <2>. HIDE DEF step
    <2>. QED
      BY <1>2, Recursion
  <1>4. g[0] = 0 /\ g \in [Nat -> Nat] /\ \A k \in Nat : g[k + 1] = g[k] + Bitwise(k)
    BY <1>3 DEF Recursive
  <1>. HIDE DEF step
  <1>5. And(a, b) = g[W]
    <2> DEFINE low[n \in 0..W] == IF n = 0 THEN 0
                         ELSE low[n - 1] + Digit(a, n - 1) * Digit(b, n - 1) * TwoTo[n - 1]
    <2> DEFINE h == [n \in 0..W |-> g[n]]
    <2>1. ASSUME NEW n \in 0..W, n # 0 PROVE h[n] = h[n - 1] + Bitwise(n - 1)
      <3>1. W \in Nat
        BY Widths DEF Positive
      <3>2. n - 1 \in Nat /\ (n - 1) + 1 = n /\ n - 1 \in 0..W
        BY <2>1, <3>1
      <3>. QED
        BY <1>4, <3>2
    <2>2. h = [n \in 0..W |-> IF n = 0 THEN 0 ELSE h[n - 1] + Bitwise(n - 1)]
      BY <1>4, <2>1
    <2>. HIDE DEF h
    <2>3. low = [n \in 0..W |-> IF n = 0 THEN 0 ELSE low[n - 1] + Bitwise(n - 1)]
      BY <2>2 DEF Bitwise
    <2>4. And(a, b) = low[W]
      BY DEF And
    <2>. HIDE DEF low
    <2> DEFINE T == {k \in Nat : k <= W => low[k] = g[k]}
    <2>5. 0 \in T
      BY <1>4, <2>3, Widths DEF Positive
    <2>6. ASSUME NEW k \in Nat, k \in T PROVE k + 1 \in T
      <3> SUFFICES ASSUME k + 1 <= W PROVE low[k + 1] = g[k + 1]
        OBVIOUS
      <3>1. W \in Nat
        BY Widths DEF Positive
      <3>2. k + 1 \in 0..W /\ k + 1 # 0 /\ (k + 1) - 1 = k /\ low[k] = g[k]
        BY <2>6, <3>1
      <3>3. low[k + 1] = low[(k + 1) - 1] + Bitwise((k + 1) - 1)
        BY <2>3, <3>2
      <3>4. g[k + 1] = g[k] + Bitwise(k)
        BY <1>4
      <3>. QED
        BY <3>2, <3>3, <3>4
    <2>. HIDE DEF T
    <2>7. W \in T
      BY <2>5, <2>6, Induction, Widths DEF Positive
    <2>. QED
      BY <2>4, <2>7, Widths DEF T, Positive
  <1>. QED
    BY <1>4, <1>5 DEF Bitwise

LEMMA BitwiseType ==
  ASSUME NEW a \in Word, NEW b \in Word
  PROVE  And(a, b) \in Word /\ Or(a, b) \in Word /\ Xor(a, b) \in Word
  <1>1. a \in Nat /\ b \in Nat
    BY WordType
  <1>2. PICK low \in [Nat -> Nat] :
          /\ low[0] = 0
          /\ \A n \in Nat : low[n + 1] = low[n] + Digit(a, n) * Digit(b, n) * TwoTo[n]
          /\ And(a, b) = low[W]
    BY <1>1, AndIs
  <1> DEFINE Bounded(n) ==
        /\ low[n] <= a % TwoTo[n]
        /\ low[n] <= b % TwoTo[n]
        /\ (a % TwoTo[n]) + (b % TwoTo[n]) - low[n] < TwoTo[n]
  <1> DEFINE T == {n \in Nat : Bounded(n)}
  <1>3. 0 \in T
    <2>1. TwoTo[0] = 1 /\ a % 1 = 0 /\ b % 1 = 0
      BY <1>1, TwoToIs
    <2>. QED
      BY <1>2, <2>1
  <1>4. ASSUME NEW n \in Nat, n \in T PROVE n + 1 \in T
    <2> DEFINE t == TwoTo[n]
    <2>1. t \in Positive /\ TwoTo[n + 1] = 2 * t
      BY TwoToType, TwoToIs
    <2>. HIDE DEF t
    <2>2. /\ a % TwoTo[n + 1] = (a % t) + Digit(a, n) * t
          /\ b % TwoTo[n + 1] = (b % t) + Digit(b, n) * t
          /\ low[n + 1] = low[n] + Digit(a, n) * Digit(b, n) * t
      BY <1>1, <1>2, RemainderStep DEF t
    <2>3. Digit(a, n) \in {0, 1} /\ Digit(b, n) \in {0, 1}
      BY <1>1, DigitType
    <2>4. a % t \in Int /\ b % t \in Int /\ low[n] \in Nat
      BY <1>1, <1>2, <2>1, Quotient
    <2>5. low[n] <= a % t /\ low[n] <= b % t /\ (a % t) + (b % t) - low[n] < t
      BY <1>4 DEF t
    <2>6. Bounded(n + 1)
      <3>1. CASE Digit(a, n) = 0 /\ Digit(b, n) = 0
        BY <2>1, <2>2, <2>4, <2>5, <3>1 DEF Positive
      <3>2. CASE Digit(a, n) = 1 /\ Digit(b, n) = 0
        BY <2>1, <2>2, <2>4, <2>5, <3>2 DEF Positive
      <3>3. CASE Digit(a, n) = 0 /\ Digit(b, n) = 1
        BY <2>1, <2>2, <2>4, <2>5, <3>3 DEF Positive
      <3>4. CASE Digit(a, n) = 1 /\ Digit(b, n) = 1
        BY <2>1, <2>2, <2>4, <2>5, <3>4 DEF Positive
      <3>. QED
        BY <2>3, <3>1, <3>2, <3>3, <3>4
    <2>. QED
      BY <2>6
  <1>. HIDE DEF T
  <1>5. W \in T
    BY <1>3, <1>4, Induction, Widths DEF Positive
  <1>6. TwoTo[W] = Size /\ a % Size = a /\ b % Size = b
    BY Widths, SmallRemainder DEF Size, Word
  <1>7. low[W] \in Nat /\ low[W] <= a /\ low[W] <= b /\ a + b - low[W] < Size
    BY <1>2, <1>5, <1>6, Widths DEF T, Positive
  <1>. QED
    BY <1>1, <1>2, <1>7, Widths DEF Or, Xor, Word, Positive

\* The digits of a mask that has the bits from k to j - 1.
LEMMA DigitsOfMask ==
  ASSUME NEW j \in Nat, NEW k \in 0..j, NEW n \in Nat
  PROVE  /\ TwoTo[j] - TwoTo[k] \in Nat
         /\ Digit(TwoTo[j] - TwoTo[k], n) = IF k <= n /\ n < j THEN 1 ELSE 0
  <1> DEFINE mask == TwoTo[j] - TwoTo[k]
  <1> DEFINE t == TwoTo[n]
  <1>1. t \in Positive /\ TwoTo[j] \in Positive /\ TwoTo[k] \in Positive
    BY TwoToType
  <1>2. mask \in Nat
    BY <1>1, TwoToGrows DEF Positive
  <1>3. CASE n < k
    <2>1. j - n - 1 \in Nat /\ k - n - 1 \in Nat /\ j = (j - n - 1) + (n + 1) /\ k = (k - n - 1) + (n + 1)
      BY <1>3
    <2>2. TwoTo[n + 1] = 2 * t
      BY TwoToIs
    <2> DEFINE u == TwoTo[j - n - 1]
    <2> DEFINE v == TwoTo[k - n - 1]
    <2>3. TwoTo[j] = u * (2 * t) /\ TwoTo[k] = v * (2 * t) /\ u \in Int /\ v \in Int
      <3>1. n + 1 \in Nat
        OBVIOUS
      <3>2. TwoTo[j] = u * TwoTo[n + 1] /\ TwoTo[k] = v * TwoTo[n + 1]
        BY <2>1, <3>1, TwoToSum
      <3>3. u \in Positive /\ v \in Positive
        BY <2>1, TwoToType
      <3>. QED
        BY <2>2, <3>2, <3>3 DEF Positive
    <2>. HIDE DEF u, v, t
    <2>4. mask = ((u - v) * 2) * t
      BY <1>1, <2>3 DEF Positive
    <2>5. mask \div t = (u - v) * 2
      BY <1>1, <2>3, <2>4, MultipleRemainder
    <2>6. ((u - v) * 2) % 2 = 0
      BY <2>3, MultipleRemainder DEF Positive
    <2>. QED
      BY <1>2, <1>3, <2>5, <2>6 DEF Digit, t
  <1>4. CASE k <= n /\ n < j
    <2>1. j - n - 1 \in Nat /\ j = (j - n - 1) + (n + 1)
      BY <1>4
    <2>2. TwoTo[n + 1] = 2 * t
      BY TwoToIs
    <2> DEFINE u == TwoTo[j - n - 1]
    <2>3. TwoTo[j] = u * (2 * t) /\ u \in Int
      <3>1. n + 1 \in Nat
        OBVIOUS
      <3>2. TwoTo[j] = u * TwoTo[n + 1]
        BY <2>1, <3>1, TwoToSum
      <3>3. u \in Positive
        BY <2>1, TwoToType
      <3>. QED
        BY <2>2, <3>2, <3>3 DEF Positive
    <2>4. t - TwoTo[k] \in 0..(t - 1)
      BY <1>1, <1>4, TwoToGrows DEF Positive
    <2>. HIDE DEF u, t
    <2>5. mask = ((u - 1) * 2 + 1) * t + (t - TwoTo[k])
      BY <1>1, <2>3 DEF Positive
    <2>6. mask \div t = (u - 1) * 2 + 1
      BY <1>1, <2>3, <2>4, <2>5, IsQuotient
    <2>7. ((u - 1) * 2 + 1) % 2 = 1
      BY <2>3, IsQuotient DEF Positive
    <2>. QED
      BY <1>2, <1>4, <2>6, <2>7 DEF Digit, t
  <1>5. CASE n >= j
    <2>1. mask \in 0..(t - 1)
      BY <1>1, <1>2, <1>5, TwoToGrows DEF Positive
    <2>2. mask \div t = 0
      BY <1>1, <2>1, SmallRemainder
    <2>. QED
      BY <1>2, <1>5, <2>2 DEF Digit
  <1>. QED
    BY <1>3, <1>4, <1>5

LEMMA AndWithMask ==
  ASSUME NEW y \in Nat, NEW j \in 0..W, NEW k \in 0..j
  PROVE  And(y, TwoTo[j] - TwoTo[k]) = (y % TwoTo[j]) - (y % TwoTo[k])
  <1> DEFINE mask == TwoTo[j] - TwoTo[k]
  <1>1. W \in Nat /\ j \in Nat /\ k \in Nat
    BY Widths DEF Positive
  <1>2. \A n \in Nat : mask \in Nat /\ Digit(mask, n) = IF k <= n /\ n < j THEN 1 ELSE 0
    BY <1>1, DigitsOfMask
  <1>. HIDE DEF mask
  <1>3. PICK low \in [Nat -> Nat] :
          /\ low[0] = 0
          /\ \A n \in Nat : low[n + 1] = low[n] + Digit(y, n) * Digit(mask, n) * TwoTo[n]
          /\ And(y, mask) = low[W]
    BY <1>2, AndIs
  <1> DEFINE rest(n) == y % TwoTo[n]
  <1>4. ASSUME NEW n \in Nat
        PROVE  rest(n) \in Nat /\ rest(n + 1) = rest(n) + Digit(y, n) * TwoTo[n]
    <2>1. TwoTo[n] \in Positive
      BY TwoToType
    <2>2. y % TwoTo[n] \in 0..(TwoTo[n] - 1)
      BY <2>1, Quotient
    <2>3. y % TwoTo[n] \in Nat
      BY <2>2
    <2>. QED
      BY <2>3, RemainderStep
  <1>. HIDE DEF rest
  <1> DEFINE kept(n) == IF n <= k THEN 0 ELSE IF n <= j THEN rest(n) - rest(k) ELSE rest(j) - rest(k)
  <1> DEFINE T == {n \in Nat : low[n] = kept(n)}
  <1>5. 0 \in T
    BY <1>1, <1>3
  <1>6. ASSUME NEW n \in Nat, n \in T PROVE n + 1 \in T
    <2> DEFINE p == Digit(y, n) * TwoTo[n]
    <2>1. Digit(y, n) \in {0, 1} /\ TwoTo[n] \in Nat
      BY DigitType, TwoToType DEF Positive
    <2>2. p \in Int /\ Digit(y, n) * 1 * TwoTo[n] = p /\ Digit(y, n) * 0 * TwoTo[n] = 0
      BY <2>1
    <2>3. rest(n + 1) = rest(n) + p /\ rest(n) \in Nat /\ rest(k) \in Nat /\ rest(j) \in Nat
      BY <1>1, <1>4
    <2>4. low[n + 1] = low[n] + IF k <= n /\ n < j THEN p ELSE 0
      BY <1>2, <1>3, <2>2
    <2>5. low[n] = kept(n)
      BY <1>6
    <2>. HIDE DEF p
    <2>6. CASE n < k
      BY <1>1, <2>3, <2>4, <2>5, <2>6
    <2>7. CASE n = k /\ n < j
      BY <1>1, <2>2, <2>3, <2>4, <2>5, <2>7
    <2>8. CASE k < n /\ n < j
      BY <1>1, <2>2, <2>3, <2>4, <2>5, <2>8
    <2>9. CASE j <= n
      <3>1. k <= n /\ ~(n < j) /\ k <= j
        BY <1>1, <2>9
      <3>2. low[n + 1] = kept(n)
        BY <1>3, <2>4, <2>5, <3>1
      <3>3. kept(n + 1) = rest(j) - rest(k)
        BY <1>1, <2>3, <2>9, <3>1
      <3>4. kept(n) = rest(j) - rest(k)
        BY <1>1, <2>3, <2>9, <3>1
      <3>. QED
        BY <3>2, <3>3, <3>4
    <2>. QED
      BY <1>1, <2>6, <2>7, <2>8, <2>9
  <1>. HIDE DEF T
  <1>7. low[W] = kept(W)
    <2>1. W \in T
      BY <1>1, <1>5, <1>6, Induction
    <2>. QED
      BY <2>1 DEF T
  <1>8. kept(W) = rest(j) - rest(k)
    <2>1. rest(k) \in Nat
      BY <1>1, <1>4
    <2>. QED
      BY <1>1, <2>1
  <1>. QED
    BY <1>3, <1>7, <1>8 DEF rest, mask

LEMMA BitTested ==
  ASSUME NEW y \in Word, NEW k \in 0..(W - 1)
  PROVE  /\ And(y, TwoTo[k]) = Digit(y, k) * TwoTo[k]
         /\ And(y, TwoTo[k] - 1) = y % TwoTo[k]
         /\ And(y, Size - TwoTo[k]) = y - (y % TwoTo[k])
  <1>1. W \in Nat /\ k \in Nat /\ y \in Nat /\ k \in 0..W /\ k + 1 \in 0..W /\ 0 \in 0..k /\ k \in 0..(k + 1) /\ W \in 0..W
    BY Widths, WordType DEF Positive
  <1>2. TwoTo[k] \in Positive /\ TwoTo[k + 1] = 2 * TwoTo[k] /\ TwoTo[0] = 1 /\ TwoTo[W] = Size
    BY <1>1, TwoToType, TwoToIs DEF Size
  <1>3. y % Size = y /\ y % 1 = 0
    BY <1>1, Widths, SmallRemainder DEF Word
  <1>4. y % TwoTo[k] \in Int
    BY <1>1, <1>2, Quotient
  <1>5. And(y, TwoTo[k]) = Digit(y, k) * TwoTo[k]
    <2>1. TwoTo[k + 1] - TwoTo[k] = TwoTo[k]
      BY <1>2 DEF Positive
    <2>2. And(y, TwoTo[k]) = (y % TwoTo[k + 1]) - (y % TwoTo[k])
      BY <1>1, <2>1, AndWithMask
    <2>3. y % TwoTo[k + 1] = (y % TwoTo[k]) + Digit(y, k) * TwoTo[k]
      BY <1>1, RemainderStep
    <2>4. Digit(y, k) * TwoTo[k] \in Int
      <3>1. Digit(y, k) \in {0, 1}
        BY <1>1, DigitType
      <3>. QED
        BY <1>2, <3>1 DEF Positive
    <2>. QED
      BY <1>4, <2>2, <2>3, <2>4
  <1>6. And(y, TwoTo[k] - 1) = y % TwoTo[k]
    <2>1. And(y, TwoTo[k] - TwoTo[0]) = (y % TwoTo[k]) - (y % TwoTo[0])
      BY <1>1, AndWithMask
    <2>. QED
      BY <1>2, <1>3, <1>4, <2>1
  <1>7. And(y, Size - TwoTo[k]) = y - (y % TwoTo[k])
    <2>1. And(y, TwoTo[W] - TwoTo[k]) = (y % TwoTo[W]) - (y % TwoTo[k])
      BY <1>1, AndWithMask
    <2>. QED
      BY <1>2, <1>3, <2>1
  <1>. QED
    BY <1>5, <1>6, <1>7

-------------------------------------------------------------------------------
(* The instructions compute words *)

LEMMA SmallPowers ==
  ASSUME NEW n \in 0..(W - 1)
  PROVE  TwoTo[n] \in Word /\ TwoTo[n] \in Positive /\ 2 * TwoTo[n] <= Size
  <1>1. n \in Nat /\ W \in Nat /\ n < W
    BY Widths DEF Positive
  <1>2. TwoTo[n] \in Positive /\ 2 * TwoTo[n] <= Size
    BY <1>1, TwoToType, TwoToGrows DEF Size
  <1>. QED
    BY <1>2, Widths DEF Word, Positive

LEMMA Divides ==
  ASSUME NEW a \in Nat, NEW b \in Positive
  PROVE  a \div b \in 0..a /\ a % b \in 0..(b - 1) /\ a % b <= a
  <1>1. a \div b \in Int /\ a % b \in 0..(b - 1) /\ a = (a \div b) * b + (a % b)
    BY Quotient
  <1>2. a \div b \in Nat
    BY DEF Positive
  <1>3. CASE a \div b = 0
    BY <1>1, <1>3 DEF Positive
  <1>4. CASE a \div b # 0
    <2>1. b * (a \div b) >= a \div b
      BY <1>2, <1>4, AtLeastFactor DEF Positive
    <2>2. (a \div b) * b = b * (a \div b) /\ (a \div b) * b \in Int
      BY <1>2 DEF Positive
    <2>. QED
      BY <1>1, <1>2, <2>1, <2>2
  <1>. QED
    BY <1>3, <1>4

LEMMA TruncatedType ==
  ASSUME NEW a \in Int, NEW b \in Int, b # 0
  PROVE  Truncated(a, b) \in Int
  <1>1. ASSUME NEW n \in Nat, NEW d \in Nat, d # 0 PROVE n \div d \in Int
    BY <1>1
  <1>2. a < 0 => -a \in Nat
    OBVIOUS
  <1>3. b < 0 => -b \in Nat /\ -b # 0
    OBVIOUS
  <1> DEFINE q == (IF a < 0 THEN -a ELSE a) \div (IF b < 0 THEN -b ELSE b)
  <1>4. q \in Int
    BY <1>1, <1>2, <1>3
  <1>5. Truncated(a, b) = IF (a < 0) = (b < 0) THEN q ELSE -q
    BY DEF Truncated
  <1>. HIDE DEF q
  <1>. QED
    BY <1>4, <1>5

LEMMA SignedZero ==
  ASSUME NEW a \in Word
  PROVE  Signed(a) = 0 <=> a = 0
  BY Widths DEF Signed, Word, Positive

LEMMA BytePosition ==
  ASSUME NEW a \in Word, a < Bytes
  PROVE  /\ B * (Bytes - 1 - a) \in 0..(W - 1)
         /\ a * B + (B - 1) \in 0..(W - 1)
         /\ B * (a + 1) = a * B + (B - 1) + 1
  <1>1. a \in Nat /\ B \in Nat /\ B > 0 /\ Bytes \in Nat /\ W = Bytes * B /\ W \in Nat
    BY Widths, WordType DEF Positive
  <1>2. Bytes - 1 - a \in Nat
    BY <1>1
  <1>3. a * B \in Nat /\ B * (Bytes - 1 - a) \in Nat
    BY <1>1, <1>2
  <1>4. B * (Bytes - 1 - a) = Bytes * B - B - a * B /\ B * (a + 1) = a * B + B
    BY <1>1
  <1>. QED
    BY <1>1, <1>3, <1>4

Instructions == Unary \cup Binary \cup Ternary

LEMMA EvmType ==
  ASSUME NEW op \in Instructions, NEW a \in Word, NEW b \in Word, NEW c \in Word
  PROVE  Evm(op, a, b, c) \in Word
  <1>1. a \in Nat /\ b \in Nat /\ c \in Nat /\ Size \in Positive /\ Size \in Nat
    BY Widths, WordType DEF Positive
  <1>2. Signed(a) \in Int /\ Signed(b) \in Int /\ (b # 0 => Signed(b) # 0)
    BY SignedType, SignedZero
  <1>3. \A n \in Int : n % Size \in Word
    BY Wrapped DEF Wrap
  <1>4. ASSUME NEW p PROVE Bit(p) \in Word
    BY WordType DEF Bit
  <1>5. CASE op = "ADD"
    BY <1>1, <1>3, <1>5 DEF Evm
  <1>6. CASE op = "SUB"
    BY <1>1, <1>3, <1>6 DEF Evm
  <1>7. CASE op = "MUL"
    BY <1>1, <1>3, <1>7 DEF Evm
  <1>8. CASE op = "DIV"
    <2>1. b # 0 => a \div b \in 0..a
      <3>1. b # 0 => b \in Positive
        BY <1>1 DEF Positive
      <3>. QED
        BY <1>1, <3>1, Divides
    <2>2. b # 0 => a \div b \in Word
      BY <1>1, <2>1 DEF Word
    <2>. QED
      BY <1>8, <2>2, WordType DEF Evm
  <1>9. CASE op = "SDIV"
    <2>1. b # 0 => Truncated(Signed(a), Signed(b)) \in Int
      BY <1>2, TruncatedType
    <2>. QED
      BY <1>3, <1>9, <2>1, WordType DEF Evm
  <1>10. CASE op = "MOD"
    <2>1. b # 0 => a % b \in Word
      BY <1>1, Divides DEF Positive, Word
    <2>. QED
      BY <1>10, <2>1, WordType DEF Evm
  <1>11. CASE op = "SMOD"
    <2>1. b # 0 => Truncated(Signed(a), Signed(b)) \in Int
      BY <1>2, TruncatedType
    <2>2. b # 0 => Signed(a) - Signed(b) * Truncated(Signed(a), Signed(b)) \in Int
      BY <1>2, <2>1
    <2>. QED
      BY <1>3, <1>11, <2>2, WordType DEF Evm
  <1>12. CASE op = "ADDMOD"
    <2>1. c # 0 => (a + b) % c \in Word
      <3>1. a + b \in Int
        BY <1>1
      <3>2. c # 0 => (a + b) % c \in 0..(c - 1)
        BY <1>1, <3>1, Quotient DEF Positive
      <3>. QED
        BY <1>1, <3>2 DEF Word
    <2>. QED
      BY <1>12, <2>1, WordType DEF Evm
  <1>13. CASE op = "MULMOD"
    <2>1. c # 0 => (a * b) % c \in Word
      <3>1. a * b \in Int
        BY <1>1
      <3>2. c # 0 => (a * b) % c \in 0..(c - 1)
        BY <1>1, <3>1, Quotient DEF Positive
      <3>. QED
        BY <1>1, <3>2 DEF Word
    <2>. QED
      BY <1>13, <2>1, WordType DEF Evm
  <1>14. CASE op = "EXP"
    BY <1>1, <1>14, PowerIs DEF Evm
  <1>15. CASE op = "SIGNEXTEND"
    <2>1. CASE a >= Bytes
      BY <1>15, <2>1 DEF Evm
    <2>2. CASE a < Bytes
      <3> DEFINE high == TwoTo[B * (a + 1)]
      <3>1. high \in Positive /\ high <= Size
        <4>1. a * B + (B - 1) \in 0..(W - 1) /\ B * (a + 1) = a * B + (B - 1) + 1
          BY <2>2, BytePosition
        <4>2. 2 * TwoTo[a * B + (B - 1)] <= Size /\ TwoTo[a * B + (B - 1)] \in Positive
          BY <4>1, SmallPowers
        <4>3. high = 2 * TwoTo[a * B + (B - 1)]
          BY <4>1, TwoToIs
        <4>. QED
          BY <4>2, <4>3 DEF Positive
      <3>2. Evm(op, a, b, c) = IF 2 * (b % high) >= high THEN Size - high + (b % high) ELSE b % high
        <4>1. ~(a >= Bytes)
          BY <1>1, <2>2, Widths DEF Positive
        <4>. QED
          BY <1>15, <4>1 DEF Evm
      <3>. HIDE DEF high
      <3>3. b % high \in 0..(high - 1)
        BY <1>1, <3>1, Divides
      <3>. QED
        BY <1>1, <3>1, <3>2, <3>3 DEF Word, Positive
    <2>. QED
      BY <1>1, <2>1, <2>2, Widths DEF Positive
  <1>16. CASE op = "BYTE"
    <2> DEFINE n == B * (Bytes - 1 - a)
    <2>1. a < Bytes => (b \div TwoTo[n]) % TwoTo[B] \in Word
      <3> SUFFICES ASSUME a < Bytes PROVE (b \div TwoTo[n]) % TwoTo[B] \in Word
        OBVIOUS
      <3>1. TwoTo[n] \in Positive
        BY BytePosition, SmallPowers
      <3>2. b \div TwoTo[n] \in 0..b
        BY <1>1, <3>1, Divides
      <3>3. TwoTo[B] \in Word /\ TwoTo[B] \in Positive
        BY Widths, SmallPowers DEF Positive
      <3>4. b \div TwoTo[n] \in Int
        BY <1>1, <3>2
      <3>5. (b \div TwoTo[n]) % TwoTo[B] \in 0..(TwoTo[B] - 1)
        BY <3>3, <3>4, Quotient
      <3>. QED
        BY <1>1, <3>3, <3>5 DEF Word
    <2>2. Evm(op, a, b, c) = IF a >= Bytes THEN 0 ELSE (b \div TwoTo[n]) % TwoTo[B]
      BY <1>16 DEF Evm
    <2>. HIDE DEF n
    <2>3. a >= Bytes \/ a < Bytes
      BY <1>1, Widths DEF Positive
    <2>. QED
      BY <2>1, <2>2, <2>3, WordType
  <1>17. CASE op \in {"LT", "GT", "SLT", "SGT", "EQ", "ISZERO"}
    BY <1>4, <1>17 DEF Evm
  <1>18. CASE op \in {"AND", "OR", "XOR"}
    BY <1>18, BitwiseType DEF Evm
  <1>19. CASE op = "SHL"
    <2>1. b * TwoTo[a] \in Int
      BY <1>1, TwoToType DEF Positive
    <2>. QED
      BY <1>3, <1>19, <2>1, WordType DEF Evm
  <1>20. CASE op = "SHR"
    <2>1. b \div TwoTo[a] \in 0..b
      BY <1>1, TwoToType, Divides
    <2>2. b \div TwoTo[a] \in Word
      BY <1>1, <2>1 DEF Word
    <2>. QED
      BY <1>20, <2>2, WordType DEF Evm
  <1>21. CASE op = "SAR"
    <2>1. Signed(b) \div TwoTo[a] \in Int
      BY <1>1, <1>2, TwoToType, Quotient
    <2>. QED
      BY <1>3, <1>21, <2>1 DEF Evm
  <1>22. CASE op = "NOT"
    <2>1. Size - 1 - a \in Word
      BY <1>1 DEF Word
    <2>. QED
      BY <1>22, <2>1 DEF Evm
  <1>. QED
    BY <1>5, <1>6, <1>7, <1>8, <1>9, <1>10, <1>11, <1>12, <1>13, <1>14, <1>15, <1>16, <1>17, <1>18,
       <1>19, <1>20, <1>21, <1>22 DEF Instructions, Unary, Binary, Ternary

-------------------------------------------------------------------------------
(* The handlers against the instructions *)

LEMMA OperandType ==
  ASSUME NEW x \in Operands
  PROVE  x.v \in Word /\ x.sym \in BOOLEAN /\ x.v \in Nat
  BY WordType DEF Operands

LEMMA ArithmeticShiftAgrees ==
  ASSUME NEW a \in Word, NEW n \in Nat
  PROVE  ArithmeticShift(a, n)
           = (IF n >= W THEN (IF Signed(a) < 0 THEN -1 ELSE 0) ELSE Signed(a) \div TwoTo[n]) % Size
  <1> DEFINE t == TwoTo[n]
  <1>1. t \in Positive /\ Size \in Positive /\ a \in Nat /\ a < Size /\ W \in Nat /\ Size - 1 \in 0..(Size - 1)
    BY Widths, WordType, TwoToType DEF Word, Positive
  <1>. HIDE DEF t
  <1>2. \A k \in 0..(Size - 1) : k % Size = k /\ ((-1) * Size + k) % Size = k
    BY <1>1, SmallRemainder, IsQuotient
  <1>3. CASE Signed(a) >= 0
    <2>1. Signed(a) = a
      BY <1>3, SignedNot
    <2>2. a \div t \in 0..a
      BY <1>1, Divides
    <2>3. (a \div t) % Size = a \div t /\ 0 % Size = 0
      BY <1>1, <1>2, <2>2 DEF Positive
    <2>4. ~(Signed(a) < 0)
      BY <1>1, <2>1
    <2>. QED
      BY <1>3, <2>1, <2>3, <2>4 DEF ArithmeticShift, ShiftRight, t
  <1>4. CASE Signed(a) < 0
    <2>1. Signed(a) = a - Size
      BY <1>1, <1>4 DEF Signed
    <2> DEFINE u == Size - 1 - a
    <2>2. u \in Nat /\ u <= Size - 1
      BY <1>1 DEF Positive
    <2>. HIDE DEF u
    <2>3. u \div t \in 0..u /\ u % t \in 0..(t - 1) /\ u = (u \div t) * t + (u % t)
      BY <1>1, <2>2, Divides, Quotient
    <2>4. a - Size = (-(u \div t) - 1) * t + (t - 1 - (u % t))
      <3>1. (-(u \div t) - 1) * t = -((u \div t) * t) - t
        BY <1>1, <2>2, <2>3 DEF Positive
      <3>2. (u \div t) * t \in Int /\ u = Size - 1 - a
        BY <1>1, <2>2, <2>3 DEF Positive, u
      <3>. QED
        BY <1>1, <2>2, <2>3, <3>1, <3>2 DEF Positive
    <2>5. (a - Size) \div t = -(u \div t) - 1
      <3>1. t - 1 - (u % t) \in 0..(t - 1) /\ -(u \div t) - 1 \in Int
        BY <1>1, <2>2, <2>3 DEF Positive
      <3>. QED
        BY <1>1, <2>4, <3>1, IsQuotient
    <2>6. (-(u \div t) - 1) % Size = (Size - 1) - (u \div t)
      <3>1. (Size - 1) - (u \div t) \in 0..(Size - 1)
        BY <1>1, <2>2, <2>3 DEF Positive
      <3>2. (-1) * Size + ((Size - 1) - (u \div t)) = -(u \div t) - 1
        BY <1>1, <2>2, <2>3 DEF Positive
      <3>. QED
        BY <1>2, <3>1, <3>2
    <2>7. (-1) % Size = Size - 1
      <3>1. (-1) * Size + (Size - 1) = -1
        BY <1>1 DEF Positive
      <3>. QED
        BY <1>1, <1>2, <3>1
    <2>8. ~(Signed(a) >= 0)
      BY <1>1, <1>4, <2>1 DEF Positive
    <2>. QED
      BY <1>4, <2>1, <2>5, <2>6, <2>7, <2>8 DEF ArithmeticShift, t, u
  <1>. QED
    BY <1>1, <1>3, <1>4, SignedType

LEMMA SignextendAgrees ==
  ASSUME NEW x \in Operands, NEW y \in Operands, Signed(x.v) >= 0
  PROVE  signextend(x, y) = Evm("SIGNEXTEND", x.v, y.v, 0)
  <1>1. x.v \in Word /\ y.v \in Word /\ x.v \in Nat /\ y.v \in Nat /\ Signed(x.v) = x.v
    BY OperandType, SignedNot
  <1>2. CASE x.v >= Bytes
    <2>1. Signed(x.v) > Bytes - 1
      BY <1>1, <1>2, Widths DEF Positive
    <2>. QED
      BY <1>2, <2>1 DEF signextend, Evm
  <1>3. CASE x.v < Bytes
    <2> DEFINE k == x.v * B + (B - 1)
    <2> DEFINE bit == TwoTo[k]
    <2> DEFINE b == y.v
    <2>1. k \in 0..(W - 1) /\ B * (x.v + 1) = k + 1
      BY <1>1, <1>3, BytePosition
    <2>2. k \in Nat /\ k < W /\ k \in Word /\ W \in Nat
      BY <2>1, Widths DEF Word, Positive
    <2>. HIDE DEF k
    <2>3. bit \in Word /\ bit \in Positive /\ 2 * bit <= Size /\ Size \in Positive
      BY <2>1, SmallPowers, Widths
    <2>4. /\ And(b, bit) = Digit(b, k) * bit
          /\ And(b, bit - 1) = b % bit
          /\ And(b, Size - bit) = b - (b % bit)
      BY <1>1, <2>1, BitTested
    <2>5. Digit(b, k) \in {0, 1} /\ b % bit \in 0..(bit - 1)
      BY <1>1, <2>2, <2>3, DigitType, Divides
    <2>6. TwoTo[B * (x.v + 1)] = 2 * bit /\ b % (2 * bit) = (b % bit) + Digit(b, k) * bit
      <3>1. TwoTo[k + 1] = 2 * bit /\ b % TwoTo[k + 1] = (b % bit) + Digit(b, k) * bit
        BY <1>1, <2>2, TwoToIs, RemainderStep
      <3>. QED
        BY <2>1, <3>1
    <2>7. ShiftLeft(1, Wrap(k)) = bit
      <3>1. Wrap(k) = k /\ Wrap(bit) = bit /\ 1 * bit = bit /\ ~(k >= W)
        BY <2>2, <2>3, WrapOfWord DEF Positive
      <3>. QED
        BY <3>1 DEF ShiftLeft
    <2>8. Wrap(-bit) = Size - bit /\ Wrap(bit - 1) = bit - 1
      <3>1. Size - bit \in 0..(Size - 1) /\ bit - 1 \in Word
        BY <2>3 DEF Positive, Word
      <3>2. (-1) * Size + (Size - bit) = -bit
        BY <2>3 DEF Positive
      <3>3. (-bit) % Size = Size - bit
        BY <2>3, <3>1, <3>2, IsQuotient
      <3>. QED
        BY <3>1, <3>3, WrapOfWord DEF Wrap
    <2>9. signextend(x, y) = IF And(b, bit) # 0 THEN Or(b, Size - bit) ELSE And(b, bit - 1)
      <3>1. ~(Signed(x.v) > Bytes - 1)
        BY <1>1, <1>3, Widths DEF Positive
      <3>. QED
        BY <2>7, <2>8, <3>1 DEF signextend, k
    <2>10. Evm("SIGNEXTEND", x.v, b, 0)
             = IF 2 * (b % (2 * bit)) >= 2 * bit THEN Size - 2 * bit + (b % (2 * bit)) ELSE b % (2 * bit)
      <3>1. ~(x.v >= Bytes)
        BY <1>1, <1>3, Widths DEF Positive
      <3> DEFINE high == TwoTo[B * (x.v + 1)]
      <3>2. Evm("SIGNEXTEND", x.v, b, 0) = IF 2 * (b % high) >= high THEN Size - high + (b % high) ELSE b % high
        BY <3>1 DEF Evm
      <3>3. high = 2 * bit
        BY <2>6
      <3>. HIDE DEF high, bit
      <3>. QED
        BY <3>2, <3>3
    <2>11. Or(b, Size - bit) = b + (Size - bit) - (b - (b % bit))
      BY <2>4 DEF Or
    <2>. HIDE DEF bit
    <2>12. CASE Digit(b, k) = 1
      <3>1. And(b, bit) # 0 /\ b % (2 * bit) = (b % bit) + bit
        BY <2>3, <2>4, <2>5, <2>6, <2>12 DEF Positive
      <3>2. 2 * (b % (2 * bit)) >= 2 * bit
        BY <2>3, <2>5, <3>1 DEF Positive
      <3>. QED
        BY <1>1, <2>3, <2>5, <2>9, <2>10, <2>11, <3>1, <3>2 DEF Positive
    <2>13. CASE Digit(b, k) = 0
      <3>1. And(b, bit) = 0 /\ b % (2 * bit) = b % bit
        BY <2>3, <2>4, <2>5, <2>6, <2>13 DEF Positive
      <3>2. ~(2 * (b % (2 * bit)) >= 2 * bit)
        BY <2>3, <2>5, <3>1 DEF Positive
      <3>. QED
        BY <2>4, <2>9, <2>10, <3>1, <3>2
    <2>. QED
      BY <2>5, <2>12, <2>13
  <1>. QED
    BY <1>1, <1>2, <1>3, Widths DEF Positive

LEMMA ExpAgrees ==
  ASSUME NEW x \in Operands, NEW y \in Operands,
         ~((x.sym \/ y.sym) /\ Signed(Power(x.v, y.v)) <= 0)
  PROVE  Power(x.v, y.v) \in exp(x, y)
  <1>1. x.v \in Word /\ y.v \in Nat /\ Power(x.v, y.v) \in Word
    BY OperandType, PowerIs
  <1>2. CASE ~x.sym /\ ~y.sym
    BY <1>2 DEF exp
  <1>3. CASE ~(~x.sym /\ ~y.sym)
    <2> DEFINE exponent == IF x.sym THEN y.v ELSE y.v % Bytes
    <2>1. Signed(Power(x.v, y.v)) > 0
      BY <1>1, <1>3, SignedType
    <2>2. ASSUME x.v = TwoTo[B], exponent < Bytes PROVE Power(x.v, y.v) = Power(x.v, exponent)
      <3>1. CASE x.sym
        BY <3>1
      <3>2. CASE ~x.sym /\ y.v < Bytes
        <4>1. y.v % Bytes = y.v
          BY <1>1, <3>2, Widths, SmallRemainder DEF Positive
        <4>. QED
          BY <3>2, <4>1
      <3>3. CASE y.v >= Bytes
        <4>1. Power(x.v, y.v) = 0
          BY <1>1, <2>2, <3>3, PowerOutOfWord
        <4>2. Signed(0) = 0
          BY SignedZero, WordType
        <4>. QED
          BY <2>1, <4>1, <4>2
      <3>. QED
        BY <1>1, <3>1, <3>2, <3>3, Widths DEF Positive
    <2>3. exp(x, y) = IF x.v = TwoTo[B] /\ exponent < Bytes THEN {v \in {Power(x.v, exponent)} : Signed(v) > 0}
                      ELSE {v \in Word : Signed(v) > 0}
      BY <1>3 DEF exp
    <2>. HIDE DEF exponent
    <2>. QED
      BY <1>1, <2>1, <2>2, <2>3
  <1>. QED
    BY <1>2, <1>3

\* Whatever the width, the operation and the operands, constant or symbolic: outside of the
\* cases that Differs names, the values a path can hold after an instruction include the one
\* the Ethereum machine computes (the arithmetic, comparison and bit handlers of
\* instructions.py).
THEOREM InstructionsExact ==
  ASSUME NEW op \in Instructions, NEW x \in Operands, NEW y \in Operands, NEW z \in Operands
  PROVE  Exact(op, x, y, z)
  <1> SUFFICES ASSUME ~Differs(op, x, y, z) PROVE Evm(op, x.v, y.v, z.v) \in Results(op, x, y, z)
    BY DEF Exact
  <1> DEFINE a == x.v
  <1> DEFINE b == y.v
  <1> DEFINE c == z.v
  <1>1. /\ a \in Word /\ b \in Word /\ c \in Word /\ a \in Nat /\ b \in Nat /\ c \in Nat
        /\ x.sym \in BOOLEAN /\ y.sym \in BOOLEAN /\ z.sym \in BOOLEAN /\ Size \in Positive
    BY OperandType, Widths
  <1>. HIDE DEF a, b, c
  <1>2. (op # "EXP" /\ op # "BYTE") => Results(op, x, y, z) = {Simple(op, x, y, z)}
    BY DEF Results
  <1>3. CASE op \in {"ADD", "SUB", "MUL"}
    <2>1. Simple(op, x, y, z) = Evm(op, a, b, c)
      BY <1>3 DEF Simple, Evm, Wrap, a, b
    <2>. QED
      BY <1>2, <1>3, <2>1 DEF a, b, c
  <1>4. CASE op = "DIV"
    <2>1. ~(y.sym /\ b = 0)
      BY <1>4 DEF Differs, b
    <2>2. Simple(op, x, y, z) = Evm(op, a, b, c)
      BY <1>1, <1>4, <2>1 DEF Simple, Evm, div, IsZero, UDiv, a, b
    <2>. QED
      BY <1>2, <1>4, <2>2 DEF a, b, c
  <1>5. CASE op = "SDIV"
    <2>1. ~(y.sym /\ b = 0)
      BY <1>5 DEF Differs, b
    <2>2. Simple(op, x, y, z) = sdiv(x, y)
      BY <1>5 DEF Simple
    <2>3. sdiv(x, y) = IF b = 0 THEN 0 ELSE Wrap(Truncated(Signed(a), Signed(b)))
      BY <1>1, <2>1 DEF sdiv, IsZero, SDiv, a, b
    <2>4. Evm(op, a, b, c) = IF b = 0 THEN 0 ELSE Truncated(Signed(a), Signed(b)) % Size
      BY <1>5 DEF Evm
    <2>. QED
      BY <1>2, <1>5, <2>2, <2>3, <2>4 DEF Wrap, a, b, c
  <1>6. CASE op = "MOD"
    <2>1. ~(y.sym /\ b = 0)
      BY <1>6 DEF Differs, b
    <2>2. Simple(op, x, y, z) = Evm(op, a, b, c)
      BY <1>1, <1>6, <2>1 DEF Simple, Evm, mod, IsZero, URem, a, b
    <2>. QED
      BY <1>2, <1>6, <2>2 DEF a, b, c
  <1>7. CASE op = "SMOD"
    <2>1. ~(y.sym /\ b = 0)
      BY <1>7 DEF Differs, b
    <2>2. Simple(op, x, y, z) = smod(x, y)
      BY <1>7 DEF Simple
    <2>3. smod(x, y) = IF b = 0 THEN 0
                       ELSE Wrap(Signed(a) - Signed(b) * Truncated(Signed(a), Signed(b)))
      BY <1>1, <2>1 DEF smod, IsZero, SRem, a, b
    <2>4. Evm(op, a, b, c) = IF b = 0 THEN 0
                             ELSE (Signed(a) - Signed(b) * Truncated(Signed(a), Signed(b))) % Size
      BY <1>7 DEF Evm
    <2>. QED
      BY <1>2, <1>7, <2>2, <2>3, <2>4 DEF Wrap, a, b, c
  <1>8. CASE op = "ADDMOD"
    <2>1. c # 0 /\ ~((a % c) + (b % c) >= Size)
      BY <1>8 DEF Differs, Ternary, a, b, c
    <2>2. c \in Positive
      BY <1>1, <2>1 DEF Positive
    <2>3. a % c \in 0..(c - 1) /\ b % c \in 0..(c - 1)
      BY <1>1, <2>2, Divides
    <2>4. Wrap((a % c) + (b % c)) = (a % c) + (b % c)
      <3>1. (a % c) + (b % c) \in Word
        BY <1>1, <2>1, <2>3 DEF Word, Positive
      <3>. QED
        BY <3>1, WrapOfWord
    <2>5. ((a % c) + (b % c)) % c = (a + b) % c
      BY <1>1, <2>2, RemainderOfSum
    <2>6. Simple(op, x, y, z) = addmod(x, y, z)
      BY <1>8 DEF Simple
    <2>7. addmod(x, y, z) = (a + b) % c
      BY <2>1, <2>4, <2>5 DEF addmod, URem, a, b, c
    <2>8. Evm(op, a, b, c) = (a + b) % c
      BY <1>8, <2>1 DEF Evm
    <2>. QED
      BY <1>2, <1>8, <2>6, <2>7, <2>8 DEF a, b, c
  <1>9. CASE op = "MULMOD"
    <2>1. c # 0 /\ ~((a % c) * (b % c) >= Size)
      BY <1>9 DEF Differs, Ternary, a, b, c
    <2>2. c \in Positive
      BY <1>1, <2>1 DEF Positive
    <2>3. a % c \in 0..(c - 1) /\ b % c \in 0..(c - 1)
      BY <1>1, <2>2, Divides
    <2>4. Wrap((a % c) * (b % c)) = (a % c) * (b % c)
      <3>1. (a % c) * (b % c) \in Nat
        BY <2>3
      <3>2. (a % c) * (b % c) \in Word
        BY <1>1, <2>1, <3>1 DEF Word, Positive
      <3>. QED
        BY <3>2, WrapOfWord
    <2>5. ((a % c) * (b % c)) % c = (a * b) % c
      BY <1>1, <2>2, RemainderOfProduct
    <2>6. Simple(op, x, y, z) = mulmod(x, y, z)
      BY <1>9 DEF Simple
    <2>7. mulmod(x, y, z) = (a * b) % c
      BY <2>1, <2>4, <2>5 DEF mulmod, URem, a, b, c
    <2>8. Evm(op, a, b, c) = (a * b) % c
      BY <1>9, <2>1 DEF Evm
    <2>. QED
      BY <1>2, <1>9, <2>6, <2>7, <2>8 DEF a, b, c
  <1>10. CASE op = "EXP"
    <2>1. Power(a, b) \in exp(x, y)
      BY <1>10, ExpAgrees DEF Differs, a, b
    <2>2. Evm(op, a, b, c) = Power(a, b) /\ Results(op, x, y, z) = exp(x, y)
      BY <1>10 DEF Evm, Results
    <2>. QED
      BY <2>1, <2>2 DEF a, b, c
  <1>11. CASE op = "SIGNEXTEND"
    <2>1. Signed(a) >= 0
      BY <1>1, <1>11, SignedType DEF Differs, a
    <2>2. signextend(x, y) = Evm("SIGNEXTEND", a, b, 0)
      BY <2>1, SignextendAgrees DEF a, b
    <2>3. Evm("SIGNEXTEND", a, b, 0) = Evm("SIGNEXTEND", a, b, c)
      BY DEF Evm
    <2>4. Simple(op, x, y, z) = signextend(x, y)
      BY <1>11 DEF Simple
    <2>. QED
      BY <1>2, <1>11, <2>2, <2>3, <2>4 DEF a, b, c
  <1>12. CASE op = "BYTE"
    <2>1. Results(op, x, y, z) = byte(x, y)
      BY <1>12 DEF Results
    <2>2. CASE x.sym
      <3>1. byte(x, y) = Word
        BY <2>2 DEF byte
      <3>2. Evm(op, a, b, c) \in Word
        BY <1>1, EvmType
      <3>. QED
        BY <2>1, <3>1, <3>2 DEF a, b, c
    <2>3. CASE ~x.sym
      <3> DEFINE taken == (b \div TwoTo[B * (Bytes - 1 - a)]) % TwoTo[B]
      <3>1. byte(x, y) = {IF a < Bytes THEN taken ELSE 0}
        BY <2>3 DEF byte, a, b
      <3>2. Evm(op, a, b, c) = IF a >= Bytes THEN 0 ELSE taken
        BY <1>12 DEF Evm
      <3>3. a < Bytes <=> ~(a >= Bytes)
        BY <1>1, Widths DEF Positive
      <3>. HIDE DEF taken
      <3>. QED
        BY <2>1, <3>1, <3>2, <3>3 DEF a, b, c
    <2>. QED
      BY <2>2, <2>3
  <1>13. CASE op \in {"LT", "GT", "EQ", "ISZERO"}
    <2>1. Simple(op, x, y, z) = Evm(op, a, b, c)
      BY <1>1, <1>13 DEF Simple, Evm, Bit, a, b
    <2>. QED
      BY <1>2, <1>13, <2>1 DEF a, b, c
  <1>14. CASE op \in {"SLT", "SGT"}
    <2>1. Signed(a) \in Int /\ Signed(b) \in Int
      BY <1>1, SignedType
    <2>2. Simple(op, x, y, z) = Evm(op, a, b, c)
      BY <1>14, <2>1 DEF Simple, Evm, Bit, a, b
    <2>. QED
      BY <1>2, <1>14, <2>2 DEF a, b, c
  <1>15. CASE op \in {"AND", "OR", "XOR"}
    <2>1. Simple(op, x, y, z) = Evm(op, a, b, c)
      BY <1>15 DEF Simple, Evm, a, b
    <2>. QED
      BY <1>2, <1>15, <2>1 DEF a, b, c
  <1>16. CASE op = "SHL"
    <2>1. Simple(op, x, y, z) = Evm(op, a, b, c)
      BY <1>16 DEF Simple, Evm, ShiftLeft, Wrap, a, b
    <2>. QED
      BY <1>2, <1>16, <2>1 DEF a, b, c
  <1>17. CASE op = "SHR"
    <2>1. Simple(op, x, y, z) = Evm(op, a, b, c)
      BY <1>17 DEF Simple, Evm, ShiftRight, a, b
    <2>. QED
      BY <1>2, <1>17, <2>1 DEF a, b, c
  <1>18. CASE op = "SAR"
    <2>1. Simple(op, x, y, z) = ArithmeticShift(b, a)
      BY <1>18 DEF Simple, a, b
    <2>2. ArithmeticShift(b, a) = Evm(op, a, b, c)
      BY <1>1, <1>18, ArithmeticShiftAgrees DEF Evm
    <2>. QED
      BY <1>2, <1>18, <2>1, <2>2 DEF a, b, c
  <1>19. CASE op = "NOT"
    <2>1. Size - 1 - a \in Word
      BY <1>1 DEF Word, Positive
    <2>2. Simple(op, x, y, z) = Evm(op, a, b, c)
      BY <1>19, <2>1, WrapOfWord DEF Simple, Evm, a
    <2>. QED
      BY <1>2, <1>19, <2>2 DEF a, b, c
  <1>. QED
    BY <1>3, <1>4, <1>5, <1>6, <1>7, <1>8, <1>9, <1>10, <1>11, <1>12, <1>13, <1>14, <1>15, <1>16, <1>17,
       <1>18, <1>19 DEF Instructions, Unary, Binary, Ternary

-------------------------------------------------------------------------------
(* The handlers compute words *)

LEMMA SolverTypes ==
  ASSUME NEW a \in Word, NEW b \in Word
  PROVE  /\ UDiv(a, b) \in Word /\ URem(a, b) \in Word
         /\ SDiv(a, b) \in Word /\ SRem(a, b) \in Word
         /\ ShiftLeft(a, b) \in Word /\ ShiftRight(a, b) \in Word /\ ArithmeticShift(a, b) \in Word
  <1>1. a \in Nat /\ b \in Nat /\ Size \in Positive /\ Size > 1 /\ Size - 1 \in Word
    BY Widths, WordType DEF Word, Positive
  <1>2. Signed(a) \in Int /\ Signed(b) \in Int /\ (b # 0 => Signed(b) # 0)
    BY SignedType, SignedZero
  <1>3. b # 0 => a \div b \in Word /\ a % b \in Word
    <2> SUFFICES ASSUME b # 0 PROVE a \div b \in Word /\ a % b \in Word
      OBVIOUS
    <2>1. b \in Positive
      BY <1>1 DEF Positive
    <2>2. a \div b \in 0..a /\ a % b \in 0..(b - 1)
      BY <1>1, <2>1, Divides
    <2>. QED
      BY <1>1, <2>2 DEF Word
  <1>4. b # 0 => Truncated(Signed(a), Signed(b)) \in Int
    BY <1>2, TruncatedType
  <1>5. SDiv(a, b) \in Word
    <2>1. CASE b = 0
      <3>1. SDiv(a, b) = Bit(Signed(a) < 0) + (Size - 1) * Bit(Signed(a) >= 0)
        BY <2>1 DEF SDiv
      <3>2. (Size - 1) * 0 = 0 /\ (Size - 1) * 1 = Size - 1
        BY <1>1 DEF Positive
      <3>3. CASE Signed(a) < 0
        <4>1. ~(Signed(a) >= 0)
          BY <1>2, <3>3
        <4>2. SDiv(a, b) = 1
          BY <3>1, <3>2, <3>3, <4>1 DEF Bit
        <4>. QED
          BY <4>2, WordType
      <3>4. CASE Signed(a) >= 0
        <4>1. ~(Signed(a) < 0)
          BY <1>2, <3>4
        <4>2. SDiv(a, b) = Size - 1
          BY <1>1, <3>1, <3>2, <3>4, <4>1 DEF Bit, Positive
        <4>. QED
          BY <1>1, <4>2
      <3>. QED
        BY <1>2, <3>3, <3>4
    <2>2. CASE b # 0
      BY <1>4, <2>2, Wrapped DEF SDiv
    <2>. QED
      BY <2>1, <2>2
  <1>6. SRem(a, b) \in Word
    <2>1. b # 0 => Signed(a) - Signed(b) * Truncated(Signed(a), Signed(b)) \in Int
      BY <1>2, <1>4
    <2>. QED
      BY <2>1, Wrapped DEF SRem
  <1>7. ShiftLeft(a, b) \in Word
    <2>1. a * TwoTo[b] \in Int
      BY <1>1, TwoToType DEF Positive
    <2>. QED
      BY <2>1, Wrapped, WordType DEF ShiftLeft
  <1>8. ShiftRight(a, b) \in Word
    <2>1. a \div TwoTo[b] \in 0..a
      BY <1>1, TwoToType, Divides
    <2>2. a \div TwoTo[b] \in Word
      BY <1>1, <2>1 DEF Word
    <2>. QED
      BY <2>2, WordType DEF ShiftRight
  <1>9. ArithmeticShift(a, b) \in Word
    <2>1. Signed(a) \div TwoTo[b] \in Int
      BY <1>1, <1>2, TwoToType, Quotient
    <2> DEFINE n == IF b >= W THEN (IF Signed(a) < 0 THEN -1 ELSE 0) ELSE Signed(a) \div TwoTo[b]
    <2>2. n \in Int
      BY <2>1
    <2>3. ArithmeticShift(a, b) = n % Size
      BY <1>1, ArithmeticShiftAgrees
    <2>. HIDE DEF n
    <2>. QED
      BY <2>2, <2>3, Wrapped DEF Wrap
  <1>. QED
    BY <1>1, <1>3, <1>5, <1>6, <1>7, <1>8, <1>9 DEF UDiv, URem

LEMMA SimpleType ==
  ASSUME NEW op \in Instructions \ {"EXP", "BYTE"}, NEW x \in Operands, NEW y \in Operands,
         NEW z \in Operands
  PROVE  Simple(op, x, y, z) \in Word
  <1>1. /\ x.v \in Word /\ y.v \in Word /\ z.v \in Word /\ x.v \in Nat /\ y.v \in Nat /\ z.v \in Nat
        /\ Size \in Positive
    BY OperandType, Widths
  <1>2. ASSUME NEW p PROVE Bit(p) \in Word
    BY WordType DEF Bit
  <1>3. CASE op \in {"ADD", "SUB", "MUL", "NOT"}
    <2>1. x.v + y.v \in Int /\ x.v - y.v \in Int /\ x.v * y.v \in Int /\ Size - 1 - x.v \in Int
      BY <1>1 DEF Positive
    <2>. QED
      BY <1>3, <2>1, Wrapped DEF Simple
  <1>4. CASE op \in {"DIV", "SDIV", "MOD", "SMOD"}
    BY <1>1, <1>4, SolverTypes, WordType DEF Simple, div, sdiv, mod, smod
  <1>5. CASE op = "ADDMOD"
    <2>1. URem(x.v, z.v) \in Nat /\ URem(y.v, z.v) \in Nat
      BY <1>1, SolverTypes, WordType
    <2>2. Wrap(URem(x.v, z.v) + URem(y.v, z.v)) \in Word
      <3>1. URem(x.v, z.v) + URem(y.v, z.v) \in Int
        BY <2>1
      <3>. QED
        BY <3>1, Wrapped
    <2>. QED
      BY <1>1, <1>5, <2>2, SolverTypes DEF Simple, addmod
  <1>6. CASE op = "MULMOD"
    <2>1. URem(x.v, z.v) \in Nat /\ URem(y.v, z.v) \in Nat
      BY <1>1, SolverTypes, WordType
    <2>2. Wrap(URem(x.v, z.v) * URem(y.v, z.v)) \in Word
      <3>1. URem(x.v, z.v) * URem(y.v, z.v) \in Int
        BY <2>1
      <3>. QED
        BY <3>1, Wrapped
    <2>. QED
      BY <1>1, <1>6, <2>2, SolverTypes DEF Simple, mulmod
  <1>7. CASE op = "SIGNEXTEND"
    <2> DEFINE bit == ShiftLeft(1, Wrap(x.v * B + (B - 1)))
    <2>1. x.v * B + (B - 1) \in Int
      BY <1>1, Widths DEF Positive
    <2>2. Wrap(x.v * B + (B - 1)) \in Word
      BY <2>1, Wrapped
    <2>3. bit \in Word
      BY <2>2, SolverTypes, WordType
    <2>4. signextend(x, y) = IF Signed(x.v) > Bytes - 1 THEN y.v
                             ELSE IF And(y.v, bit) # 0 THEN Or(y.v, Wrap(-bit)) ELSE And(y.v, Wrap(bit - 1))
      BY DEF signextend
    <2>. HIDE DEF bit
    <2>5. Wrap(-bit) \in Word /\ Wrap(bit - 1) \in Word
      <3>1. -bit \in Int /\ bit - 1 \in Int
        BY <2>3, WordType
      <3>. QED
        BY <3>1, Wrapped
    <2>6. Or(y.v, Wrap(-bit)) \in Word /\ And(y.v, Wrap(bit - 1)) \in Word
      BY <1>1, <2>5, BitwiseType
    <2>7. Simple(op, x, y, z) = signextend(x, y)
      BY <1>7 DEF Simple
    <2>. QED
      BY <1>1, <2>4, <2>6, <2>7
  <1>8. CASE op \in {"LT", "GT", "SLT", "SGT", "EQ", "ISZERO"}
    BY <1>2, <1>8 DEF Simple
  <1>9. CASE op \in {"AND", "OR", "XOR"}
    BY <1>1, <1>9, BitwiseType DEF Simple
  <1>10. CASE op \in {"SHL", "SHR", "SAR"}
    BY <1>1, <1>10, SolverTypes DEF Simple
  <1>. QED
    BY <1>3, <1>4, <1>5, <1>6, <1>7, <1>8, <1>9, <1>10 DEF Instructions, Unary, Binary, Ternary

LEMMA ResultsType ==
  ASSUME NEW op \in Instructions, NEW x \in Operands, NEW y \in Operands, NEW z \in Operands
  PROVE  Results(op, x, y, z) \subseteq Word
  <1>1. x.v \in Word /\ y.v \in Word /\ z.v \in Word /\ x.v \in Nat /\ y.v \in Nat /\ Bytes \in Positive
    BY OperandType, Widths
  <1>2. CASE op = "EXP"
    <2>1. y.v % Bytes \in Nat
      <3>1. y.v % Bytes \in 0..(Bytes - 1)
        BY <1>1, Quotient
      <3>. QED
        BY <1>1, <3>1 DEF Positive
    <2>2. \A n \in Nat : Power(x.v, n) \in Word
      BY <1>1, PowerIs
    <2>3. exp(x, y) \subseteq Word
      BY <1>1, <2>1, <2>2 DEF exp
    <2>. QED
      BY <1>2, <2>3 DEF Results
  <1>3. CASE op = "BYTE"
    <2>1. byte(x, y) \subseteq Word
      <3>1. CASE x.sym
        BY <3>1 DEF byte
      <3>2. CASE ~x.sym
        <4> DEFINE taken == (y.v \div TwoTo[B * (Bytes - 1 - x.v)]) % TwoTo[B]
        <4>1. Evm("BYTE", x.v, y.v, 0) = IF x.v >= Bytes THEN 0 ELSE taken
          BY DEF Evm
        <4>2. byte(x, y) = {IF x.v < Bytes THEN taken ELSE 0}
          BY <3>2 DEF byte
        <4>3. x.v < Bytes <=> ~(x.v >= Bytes)
          BY <1>1 DEF Positive
        <4>. HIDE DEF taken
        <4>4. Evm("BYTE", x.v, y.v, 0) \in Word
          <5>1. "BYTE" \in Instructions
            BY DEF Instructions, Binary
          <5>. QED
            BY <1>1, <5>1, EvmType, WordType
        <4>. QED
          BY <4>1, <4>2, <4>3, <4>4
      <3>. QED
        BY <3>1, <3>2
    <2>. QED
      BY <1>3, <2>1 DEF Results
  <1>4. CASE op # "EXP" /\ op # "BYTE"
    BY <1>4, SimpleType DEF Results
  <1>. QED
    BY <1>2, <1>3, <1>4

-------------------------------------------------------------------------------
(* Sequences *)

LEMMA Made ==
  ASSUME NEW S, NEW n \in Nat, NEW f \in [1..n -> S]
  PROVE  f \in Seq(S) /\ Len(f) = n /\ DOMAIN f = 1..n
  OBVIOUS

LEMMA ValuesType ==
  ASSUME NEW s \in Seq(Operands)
  PROVE  /\ Values(s) \in Seq(Word) /\ Len(Values(s)) = Len(s)
         /\ \A i \in 1..Len(s) : Values(s)[i] = s[i].v /\ s[i] \in Operands /\ s[i].v \in Word
  <1>1. Len(s) \in Nat /\ DOMAIN s = 1..Len(s) /\ \A i \in 1..Len(s) : s[i] \in Operands
    OBVIOUS
  <1>2. \A i \in 1..Len(s) : s[i].v \in Word
    BY <1>1 DEF Operands
  <1>3. Values(s) \in [1..Len(s) -> Word]
    BY <1>1, <1>2 DEF Values
  <1>4. Values(s) \in Seq(Word) /\ Len(Values(s)) = Len(s)
    BY <1>1, <1>3, Made
  <1>. QED
    BY <1>1, <1>2, <1>4 DEF Values

LEMMA ValuesAppend ==
  ASSUME NEW s \in Seq(Operands), NEW w \in Operands
  PROVE  Append(s, w) \in Seq(Operands) /\ Values(Append(s, w)) = Append(Values(s), w.v)
  <1> DEFINE t == Append(s, w)
  <1>1. t \in Seq(Operands) /\ Len(t) = Len(s) + 1 /\ t[Len(s) + 1] = w /\ \A i \in 1..Len(s) : t[i] = s[i]
    OBVIOUS
  <1>. HIDE DEF t
  <1>2. w.v \in Word
    BY DEF Operands
  <1>3. /\ Values(t) \in Seq(Word) /\ Len(Values(t)) = Len(s) + 1
        /\ \A i \in 1..(Len(s) + 1) : Values(t)[i] = t[i].v
    BY <1>1, ValuesType
  <1>4. /\ Values(s) \in Seq(Word) /\ Len(Values(s)) = Len(s)
        /\ \A i \in 1..Len(s) : Values(s)[i] = s[i].v
    BY ValuesType
  <1>5. /\ Append(Values(s), w.v) \in Seq(Word)
        /\ Len(Append(Values(s), w.v)) = Len(s) + 1
        /\ Append(Values(s), w.v)[Len(s) + 1] = w.v
        /\ \A i \in 1..Len(s) : Append(Values(s), w.v)[i] = Values(s)[i]
    BY <1>2, <1>4
  <1>6. \A i \in 1..(Len(s) + 1) : Values(t)[i] = Append(Values(s), w.v)[i]
    <2>1. Len(s) \in Nat
      OBVIOUS
    <2>. QED
      BY <1>1, <1>3, <1>4, <1>5, <2>1
  <1>7. Values(t) = Append(Values(s), w.v)
    BY <1>3, <1>5, <1>6, SeqEqual
  <1>. QED
    BY <1>1, <1>7 DEF t

LEMMA ValuesPop ==
  ASSUME NEW s \in Seq(Operands), NEW n \in 0..Len(s)
  PROVE  /\ SubSeq(s, 1, Len(s) - n) \in Seq(Operands)
         /\ Values(SubSeq(s, 1, Len(s) - n)) = SubSeq(Values(s), 1, Len(Values(s)) - n)
  <1> DEFINE t == SubSeq(s, 1, Len(s) - n)
  <1>1. t \in Seq(Operands) /\ Len(t) = Len(s) - n /\ \A i \in 1..(Len(s) - n) : t[i] = s[i]
    OBVIOUS
  <1>. HIDE DEF t
  <1>2. /\ Values(t) \in Seq(Word) /\ Len(Values(t)) = Len(s) - n
        /\ \A i \in 1..(Len(s) - n) : Values(t)[i] = t[i].v
    BY <1>1, ValuesType
  <1>3. /\ Values(s) \in Seq(Word) /\ Len(Values(s)) = Len(s)
        /\ \A i \in 1..Len(s) : Values(s)[i] = s[i].v
    BY ValuesType
  <1> DEFINE u == SubSeq(Values(s), 1, Len(s) - n)
  <1>4. u \in Seq(Word) /\ Len(u) = Len(s) - n /\ \A i \in 1..(Len(s) - n) : u[i] = Values(s)[i]
    BY <1>3
  <1>. HIDE DEF u
  <1>5. ASSUME NEW i \in 1..(Len(s) - n) PROVE Values(t)[i] = u[i]
    <2>1. i \in 1..Len(s)
      OBVIOUS
    <2>. QED
      BY <1>1, <1>2, <1>3, <1>4, <2>1
  <1>6. Values(t) = u
    BY <1>2, <1>4, <1>5, SeqEqual
  <1>. QED
    BY <1>1, <1>3, <1>6 DEF t, u

-------------------------------------------------------------------------------
(* Bytes and words *)

Digits == 0..(TwoTo[B] - 1)

LEMMA JoinedBound ==
  ASSUME NEW n \in Nat, NEW bytes \in [1..n -> Digits]
  PROVE  Joined(bytes) \in 0..(TwoTo[B * n] - 1)
  <1> DEFINE D == TwoTo[B]
  <1>1. D \in Positive /\ B \in Nat /\ Len(bytes) = n
    BY Widths, TwoToType, Made DEF Positive
  <1> DEFINE step == [p \in Nat \X Nat |-> IF p[1] + 1 \in 1..n THEN p[2] * D + bytes[p[1] + 1] ELSE 0]
  <1>2. step \in [Nat \X Nat -> Nat]
    <2>1. ASSUME NEW k \in Nat, NEW v \in Nat, k + 1 \in 1..n PROVE v * D + bytes[k + 1] \in Nat
      <3>1. bytes[k + 1] \in Nat
        BY <1>1, <2>1 DEF Digits, Positive
      <3>2. v * D \in Nat
        BY <1>1 DEF Positive
      <3>. QED
        BY <3>1, <3>2
    <2>. HIDE DEF D
    <2>2. ASSUME NEW p \in Nat \X Nat
          PROVE  (IF p[1] + 1 \in 1..n THEN p[2] * D + bytes[p[1] + 1] ELSE 0) \in Nat
      <3>1. p[1] \in Nat /\ p[2] \in Nat
        OBVIOUS
      <3>. QED
        BY <2>1, <3>1
    <2>. QED
      BY <2>2
  <1>3. PICK g : Recursive(g, Nat, 0, step)
    <2>. HIDE DEF step
    <2>. QED
      BY <1>2, Recursion
  <1>4. g[0] = 0 /\ g \in [Nat -> Nat] /\ \A k \in Nat : k + 1 \in 1..n => g[k + 1] = g[k] * D + bytes[k + 1]
    BY <1>3 DEF Recursive
  <1>. HIDE DEF step, D
  <1>5. Joined(bytes) = g[n]
    <2> DEFINE to[k \in 0..Len(bytes)] == IF k = 0 THEN 0 ELSE to[k - 1] * TwoTo[B] + bytes[k]
    <2> DEFINE h == [k \in 0..n |-> g[k]]
    <2>1. ASSUME NEW k \in 0..n, k # 0 PROVE h[k] = h[k - 1] * TwoTo[B] + bytes[k]
      <3>1. k - 1 \in Nat /\ (k - 1) + 1 = k /\ k - 1 \in 0..n /\ k \in 1..n
        BY <2>1
      <3>. QED
        BY <1>4, <3>1 DEF D
    <2>2. h = [k \in 0..Len(bytes) |-> IF k = 0 THEN 0 ELSE h[k - 1] * TwoTo[B] + bytes[k]]
      BY <1>1, <1>4, <2>1
    <2>. HIDE DEF h
    <2>3. to = [k \in 0..Len(bytes) |-> IF k = 0 THEN 0 ELSE to[k - 1] * TwoTo[B] + bytes[k]]
      BY <2>2
    <2>4. Joined(bytes) = to[n]
      BY <1>1 DEF Joined
    <2>. HIDE DEF to
    <2> DEFINE T == {k \in Nat : k <= n => to[k] = g[k]}
    <2>5. 0 \in T
      BY <1>1, <1>4, <2>3
    <2>6. ASSUME NEW k \in Nat, k \in T PROVE k + 1 \in T
      <3> SUFFICES ASSUME k + 1 <= n PROVE to[k + 1] = g[k + 1]
        OBVIOUS
      <3>1. k + 1 \in 0..Len(bytes) /\ k + 1 \in 1..n /\ k + 1 # 0 /\ (k + 1) - 1 = k /\ to[k] = g[k]
        BY <1>1, <2>6
      <3>2. to[k + 1] = to[(k + 1) - 1] * TwoTo[B] + bytes[k + 1]
        BY <2>3, <3>1
      <3>3. g[k + 1] = g[k] * TwoTo[B] + bytes[k + 1]
        BY <1>4, <3>1 DEF D
      <3>. QED
        BY <3>1, <3>2, <3>3
    <2>. HIDE DEF T
    <2>7. n \in T
      BY <2>5, <2>6, Induction
    <2>. QED
      BY <2>4, <2>7 DEF T
  <1> DEFINE T == {k \in Nat : k <= n => g[k] < TwoTo[B * k]}
  <1>6. 0 \in T
    <2>1. B * 0 = 0
      BY <1>1
    <2>. QED
      BY <1>4, <2>1, TwoToIs
  <1>7. ASSUME NEW k \in Nat, k \in T PROVE k + 1 \in T
    <2> SUFFICES ASSUME k + 1 <= n PROVE g[k + 1] < TwoTo[B * (k + 1)]
      OBVIOUS
    <2> DEFINE t == TwoTo[B * k]
    <2>1. B * k \in Nat /\ B * (k + 1) = B * k + B
      BY <1>1
    <2>2. TwoTo[B * (k + 1)] = t * D /\ t \in Positive /\ g[k] < t
      BY <1>1, <1>7, <2>1, TwoToSum, TwoToType DEF D
    <2>. HIDE DEF t
    <2>3. k + 1 \in 1..n /\ g[k] \in Nat
      BY <1>4
    <2>4. g[k + 1] = g[k] * D + bytes[k + 1] /\ bytes[k + 1] \in 0..(D - 1)
      BY <1>4, <2>3 DEF D, Digits
    <2>5. (t - 1 - g[k]) * D >= 0
      <3>1. t - 1 - g[k] \in Nat /\ D \in Nat
        BY <1>1, <2>2, <2>3 DEF Positive
      <3>. QED
        BY <3>1
    <2>6. (t - 1 - g[k]) * D = t * D - D - g[k] * D
      BY <1>1, <2>2, <2>3 DEF Positive
    <2>7. t * D \in Int /\ g[k] * D \in Int /\ D \in Int
      BY <1>1, <2>2, <2>3 DEF Positive
    <2>. QED
      BY <2>2, <2>4, <2>5, <2>6, <2>7
  <1>. HIDE DEF T
  <1>8. n \in T
    BY <1>6, <1>7, Induction
  <1>9. TwoTo[B * n] \in Positive
    <2>1. B * n \in Nat
      BY <1>1
    <2>. QED
      BY <2>1, TwoToType
  <1>. QED
    BY <1>4, <1>5, <1>8, <1>9 DEF T, Positive

LEMMA JoinedWord ==
  ASSUME NEW bytes \in [1..Bytes -> Digits]
  PROVE  Joined(bytes) \in Word
  <1>1. Bytes \in Nat /\ B * Bytes = W
    BY Widths DEF Positive
  <1>2. Joined(bytes) \in 0..(TwoTo[B * Bytes] - 1)
    BY <1>1, JoinedBound
  <1>. QED
    BY <1>1, <1>2 DEF Word, Size

LEMMA SplitType ==
  ASSUME NEW n \in Word
  PROVE  Split(n) \in [1..Bytes -> Digits]
  <1> SUFFICES ASSUME NEW i \in 1..Bytes PROVE (n \div TwoTo[B * (Bytes - i)]) % TwoTo[B] \in Digits
    BY DEF Split
  <1>1. Bytes - i \in Nat /\ B \in Nat /\ n \in Nat
    BY Widths, WordType DEF Positive
  <1>2. B * (Bytes - i) \in Nat
    BY <1>1
  <1>3. n \div TwoTo[B * (Bytes - i)] \in Int /\ TwoTo[B] \in Positive
    BY <1>1, <1>2, TwoToType, Quotient
  <1>. QED
    BY <1>3, Quotient DEF Digits

LEMMA LowByte ==
  ASSUME NEW n \in Word
  PROVE  n % TwoTo[B] \in Digits /\ n % TwoTo[B] \in Word
  <1>1. TwoTo[B] \in Positive /\ n \in Nat /\ n < Size /\ Size \in Nat
    BY Widths, WordType, TwoToType DEF Word, Positive
  <1>2. n % TwoTo[B] \in 0..(TwoTo[B] - 1) /\ n % TwoTo[B] <= n
    BY <1>1, Divides
  <1>. QED
    BY <1>1, <1>2 DEF Digits, Word, Positive

-------------------------------------------------------------------------------
(* Addresses *)

LEMMA AddressIs ==
  ASSUME NEW p \in Seq(SUBSET STRING)
  PROVE  \E g \in [Nat -> Nat] :
           /\ \A i \in 1..Len(p) : Address(p, i) = g[i - 1]
           /\ \A k \in Nat : k + 1 <= Len(p) => g[k + 1] > g[k]
  <1> DEFINE width(k) == IF k \in 1..Len(p) THEN IF "PUSH" \in p[k] THEN 2 ELSE 1 ELSE 0
  <1> DEFINE step == [q \in Nat \X Nat |-> q[2] + width(q[1] + 1)]
  <1>1. Len(p) \in Nat /\ \A k \in Nat : width(k) \in Nat /\ (k \in 1..Len(p) => width(k) > 0)
    OBVIOUS
  <1>. HIDE DEF width
  <1>2. step \in [Nat \X Nat -> Nat]
    <2>1. ASSUME NEW q \in Nat \X Nat PROVE q[2] + width(q[1] + 1) \in Nat
      <3>1. q[1] + 1 \in Nat /\ q[2] \in Nat
        OBVIOUS
      <3>2. width(q[1] + 1) \in Nat
        BY <1>1, <3>1
      <3>. QED
        BY <3>1, <3>2
    <2>. QED
      BY <2>1
  <1>3. PICK g : Recursive(g, Nat, 0, step)
    <2>. HIDE DEF step
    <2>. QED
      BY <1>2, Recursion
  <1>4. g[0] = 0 /\ g \in [Nat -> Nat] /\ \A k \in Nat : g[k + 1] = g[k] + width(k + 1)
    BY <1>3 DEF Recursive
  <1>. HIDE DEF step
  <1>5. ASSUME NEW i \in 1..Len(p) PROVE Address(p, i) = g[i - 1]
    <2> DEFINE to[n \in 0..Len(p)] ==
          IF n = 0 THEN 0 ELSE to[n - 1] + (IF "PUSH" \in p[n] THEN 2 ELSE 1)
    <2> DEFINE h == [n \in 0..Len(p) |-> g[n]]
    <2>1. ASSUME NEW n \in 0..Len(p), n # 0
          PROVE  h[n] = h[n - 1] + (IF "PUSH" \in p[n] THEN 2 ELSE 1)
      <3>1. n - 1 \in Nat /\ (n - 1) + 1 = n /\ n - 1 \in 0..Len(p) /\ n \in 1..Len(p)
        BY <1>1, <2>1
      <3>. QED
        BY <1>4, <3>1 DEF width
    <2>2. h = [n \in 0..Len(p) |-> IF n = 0 THEN 0 ELSE h[n - 1] + (IF "PUSH" \in p[n] THEN 2 ELSE 1)]
      BY <1>1, <1>4, <2>1
    <2>. HIDE DEF h
    <2>3. to = [n \in 0..Len(p) |-> IF n = 0 THEN 0 ELSE to[n - 1] + (IF "PUSH" \in p[n] THEN 2 ELSE 1)]
      BY <2>2
    <2>4. Address(p, i) = to[i - 1]
      BY DEF Address
    <2>. HIDE DEF to
    <2> DEFINE T == {k \in Nat : k <= Len(p) => to[k] = g[k]}
    <2>5. 0 \in T
      BY <1>1, <1>4, <2>3
    <2>6. ASSUME NEW k \in Nat, k \in T PROVE k + 1 \in T
      <3> SUFFICES ASSUME k + 1 <= Len(p) PROVE to[k + 1] = g[k + 1]
        OBVIOUS
      <3>1. k + 1 \in 0..Len(p) /\ k + 1 \in 1..Len(p) /\ k + 1 # 0 /\ (k + 1) - 1 = k /\ to[k] = g[k]
        <4>1. Len(p) \in Nat
          BY <1>1
        <4>. QED
          BY <2>6, <4>1
      <3>2. to[k + 1] = to[(k + 1) - 1] + (IF "PUSH" \in p[k + 1] THEN 2 ELSE 1)
        BY <2>3, <3>1
      <3>3. g[k + 1] = g[k] + (IF "PUSH" \in p[k + 1] THEN 2 ELSE 1)
        BY <1>4, <3>1 DEF width
      <3>. QED
        BY <3>1, <3>2, <3>3
    <2>. HIDE DEF T
    <2>7. i - 1 \in Nat /\ i - 1 <= Len(p)
      BY <1>1
    <2>8. i - 1 \in T
      BY <2>5, <2>6, <2>7, Induction
    <2>. QED
      BY <2>4, <2>7, <2>8 DEF T
  <1>6. ASSUME NEW k \in Nat, k + 1 <= Len(p) PROVE g[k + 1] > g[k]
    <2>1. k + 1 \in 1..Len(p) /\ k + 1 \in Nat
      BY <1>1, <1>6
    <2>2. width(k + 1) > 0 /\ width(k + 1) \in Nat /\ g[k] \in Nat /\ g[k + 1] = g[k] + width(k + 1)
      BY <1>1, <1>4, <2>1
    <2>. QED
      BY <2>2
  <1>. QED
    BY <1>4, <1>5, <1>6

LEMMA AddressGrows ==
  ASSUME NEW p \in Seq(SUBSET STRING), NEW i \in 1..Len(p)
  PROVE  /\ Address(p, i) \in Nat
         /\ \A j \in 1..Len(p) : i < j => Address(p, i) < Address(p, j)
  <1>1. PICK g \in [Nat -> Nat] :
           /\ \A j \in 1..Len(p) : Address(p, j) = g[j - 1]
           /\ \A k \in Nat : k + 1 <= Len(p) => g[k + 1] > g[k]
    BY AddressIs
  <1>2. Len(p) \in Nat /\ i - 1 \in Nat /\ g[i - 1] \in Nat
    OBVIOUS
  <1> DEFINE T == {n \in Nat : i + n <= Len(p) => n = 0 \/ g[i + n - 1] > g[i - 1]}
  <1>3. 0 \in T
    OBVIOUS
  <1>4. ASSUME NEW n \in Nat, n \in T PROVE n + 1 \in T
    <2> SUFFICES ASSUME i + (n + 1) <= Len(p) PROVE g[i + (n + 1) - 1] > g[i - 1]
      OBVIOUS
    <2>1. i + n - 1 \in Nat /\ (i + n - 1) + 1 = i + (n + 1) - 1 /\ (i + n - 1) + 1 <= Len(p)
      BY <1>2
    <2>2. g[i + (n + 1) - 1] > g[i + n - 1]
      <3>1. g[(i + n - 1) + 1] > g[i + n - 1]
        BY <1>1, <2>1
      <3>. QED
        BY <2>1, <3>1
    <2>3. n = 0 \/ g[i + n - 1] > g[i - 1]
      BY <1>4
    <2>4. g[i + (n + 1) - 1] \in Nat /\ g[i + n - 1] \in Nat
      <3>1. i + (n + 1) - 1 \in Nat
        OBVIOUS
      <3>. QED
        BY <2>1, <3>1
    <2>5. g[i + n - 1] >= g[i - 1]
      <3>1. CASE n = 0
        <4>1. i + n - 1 = i - 1
          BY <3>1
        <4>. QED
          BY <1>2, <4>1
      <3>. QED
        BY <1>2, <2>3, <2>4, <3>1
    <2>. QED
      BY <1>2, <2>2, <2>4, <2>5
  <1>. HIDE DEF T
  <1>5. ASSUME NEW j \in 1..Len(p), i < j PROVE Address(p, i) < Address(p, j)
    <2>1. j - i \in Nat /\ i + (j - i) = j /\ j - i # 0 /\ j <= Len(p)
      BY <1>5
    <2>2. j - i \in T
      BY <1>3, <1>4, <2>1, Induction
    <2>3. g[j - 1] > g[i - 1]
      BY <2>1, <2>2 DEF T
    <2>4. g[j - 1] \in Nat
      <3>1. j - 1 \in Nat
        OBVIOUS
      <3>. QED
        BY <3>1
    <2>. QED
      BY <1>1, <1>2, <2>3, <2>4
  <1>. QED
    BY <1>1, <1>2, <1>5

\* An instruction that stands at an address is the first at or behind it.
LEMMA IndexOfAddress ==
  ASSUME NEW p \in Seq(SUBSET STRING), NEW j \in DOMAIN p
  PROVE  get_instruction_index(p, Address(p, j)) = j
  <1> DEFINE at == {i \in DOMAIN p : Address(p, i) >= Address(p, j)}
  <1>1. DOMAIN p = 1..Len(p) /\ Len(p) \in Nat
    OBVIOUS
  <1>2. \A i \in 1..Len(p) : Address(p, i) \in Nat /\ \A k \in 1..Len(p) : i < k => Address(p, i) < Address(p, k)
    BY AddressGrows
  <1>3. j \in at
    BY <1>1, <1>2
  <1>4. ASSUME NEW i \in at PROVE j <= i
    <2>1. i \in 1..Len(p) /\ Address(p, i) >= Address(p, j)
      BY <1>1
    <2>2. ~(i < j)
      BY <1>1, <1>2, <2>1
    <2>. QED
      BY <1>1, <2>1, <2>2
  <1>5. get_instruction_index(p, Address(p, j)) = IF at = {} THEN 0 ELSE CHOOSE i \in at : \A k \in at : i <= k
    BY DEF get_instruction_index
  <1>6. at \subseteq Nat
    BY <1>1
  <1>. HIDE DEF at
  <1>7. (CHOOSE i \in at : \A k \in at : i <= k) = j
    <2>1. PICK i \in at : i = (CHOOSE h \in at : \A k \in at : h <= k) /\ \A k \in at : i <= k
      BY <1>3, <1>4
    <2>2. i <= j /\ j <= i
      BY <1>3, <1>4, <2>1
    <2>. QED
      BY <1>3, <1>6, <2>1, <2>2
  <1>. QED
    BY <1>3, <1>5, <1>7

-------------------------------------------------------------------------------
(* The inductive invariant *)

Cells == [v : Digits, sym : BOOLEAN]

MachineFields == {"pc", "stack", "mem", "aside", "msize", "subs", "min", "max", "paid", "limit",
                  "depth", "status"}
EvmFields == {"pc", "stack", "mem", "msize", "subs", "status"}

MachineShape(s) == s = [f \in MachineFields |-> s[f]]
EvmShape(x) == x = [f \in EvmFields |-> x[f]]

Paid(s) == s.paid = Fee(s.msize \div Bytes) /\ s.msize % Bytes = 0

CellsIn(s) == DOMAIN s.mem \subseteq 0..(s.msize - 1) /\ \A i \in DOMAIN s.mem : s.mem[i] \in Cells

\* The symbolic machine on its own.
MachineType(s) ==
  /\ MachineShape(s)
  /\ s.pc \in Nat /\ s.msize \in Nat
  /\ s.stack \in Seq(Operands)
  /\ s.subs \in Seq(Nat)
  /\ s.aside \subseteq Operands
  /\ CellsIn(s)
  /\ Paid(s)

SameMemory(s, x) == \A i \in Nat : ByteAt(s.mem, i, Const(0)).v = ByteAt(x.mem, i, 0)

Same(s, x) == s.pc = x.pc /\ x.stack = Values(s.stack) /\ s.subs = x.subs /\ SameMemory(s, x)

\* Both machines, while neither has stopped and nothing was approximated.
Agree(s, x) ==
  /\ x.status = "run" => s.status \in {"run", "OutOfGas"}
  /\ x.status = "stopped" => s.status \in {"stopped", "OutOfGas"}
  /\ s.status = "run" /\ x.status = "run" => Same(s, x)

CodeInv == \A k \in DOMAIN code : code[k].arg \in Word /\ (k \in DOMAIN program \/ code[k].op = "STOP")

WorldInv == \A o \in DOMAIN world : world[o] \in Word

IInv ==
  /\ program \in Seq(SUBSET STRING)
  /\ CodeInv
  /\ WorldInv
  /\ MachineType(m)
  /\ EvmShape(e)
  /\ Agree(m, e)

-------------------------------------------------------------------------------
(* What the helpers do to a state *)

\* t is s but for its gas and the size of its memory, or s out of gas.
Continues(t, s) ==
  /\ MachineType(t)
  /\ t.pc = s.pc /\ t.stack = s.stack /\ t.subs = s.subs /\ t.mem = s.mem /\ t.aside = s.aside
  /\ (t.status = s.status \/ (s.status = "run" /\ t.status = "OutOfGas"))

LEMMA ContinuesAgree ==
  ASSUME NEW s, NEW t, NEW x, Continues(t, s), Agree(s, x)
  PROVE  Agree(t, x)
  BY DEF Continues, Agree, Same, SameMemory

LEMMA ContinuesTwice ==
  ASSUME NEW s, NEW t, NEW u, Continues(t, s), Continues(u, t)
  PROVE  Continues(u, s)
  BY DEF Continues

\* The parts of a state that the invariant relates are the same.
Like(t, s) ==
  /\ t.pc = s.pc /\ t.stack = s.stack /\ t.subs = s.subs /\ t.mem = s.mem /\ t.aside = s.aside
  /\ t.msize = s.msize /\ t.paid = s.paid

LEMMA LikeType ==
  ASSUME NEW s, MachineType(s), NEW t, MachineShape(t), Like(t, s)
  PROVE  MachineType(t)
  <1>1. CellsIn(t) /\ Paid(t)
    BY DEF MachineType, Like, CellsIn, Paid
  <1>. QED
    BY <1>1 DEF MachineType, Like

LEMMA StopType ==
  ASSUME NEW s, MachineType(s), NEW why
  PROVE  MachineType(Stop(s, why)) /\ Stop(s, why).status = why /\ Like(Stop(s, why), s)
  <1> DEFINE t == Stop(s, why)
  <1>1. MachineShape(s)
    BY DEF MachineType
  <1>2. MachineShape(t)
    BY <1>1 DEF Stop, MachineShape
  <1>3. t.status = why /\ Like(t, s)
    BY <1>1 DEF Stop, MachineShape, MachineFields, Like
  <1>. QED
    BY <1>2, <1>3, LikeType

LEMMA OutOfGasContinues ==
  ASSUME NEW s, MachineType(s), s.status = "run"
  PROVE  Continues(Stop(s, "OutOfGas"), s)
  BY StopType DEF Continues, Like

LEMMA ChargeContinues ==
  ASSUME NEW s, MachineType(s), NEW gas
  PROVE  Continues(Charge(s, gas), s) /\ Charge(s, gas).status = s.status
  <1> DEFINE t == Charge(s, gas)
  <1>1. MachineShape(s)
    BY DEF MachineType
  <1>2. MachineShape(t)
    BY <1>1 DEF Charge, MachineShape
  <1>3. t.status = s.status /\ Like(t, s)
    BY <1>1 DEF Charge, MachineShape, MachineFields, Like
  <1>4. MachineType(t)
    BY <1>2, <1>3, LikeType
  <1>. HIDE DEF t
  <1>. QED
    BY <1>3, <1>4 DEF Continues, Like, t

LEMMA CheckContinues ==
  ASSUME NEW s, MachineType(s)
  PROVE  Continues(check_gas_usage_limit(s), s)
  <1>1. Continues(s, s)
    BY DEF Continues
  <1>2. s.status = "run" => Continues(Stop(s, "OutOfGas"), s)
    BY OutOfGasContinues
  <1>. QED
    BY <1>1, <1>2 DEF check_gas_usage_limit

LEMMA AccumulateContinues ==
  ASSUME NEW s, MachineType(s), NEW op
  PROVE  Continues(accumulate_gas(s, op), s)
  <1> DEFINE t == Charge(s, OPCODES_gas(op))
  <1>1. Continues(t, s)
    BY ChargeContinues
  <1>2. Continues(check_gas_usage_limit(t), t)
    BY <1>1, CheckContinues DEF Continues
  <1>3. Continues(s, s)
    BY DEF Continues
  <1>. QED
    BY <1>1, <1>2, <1>3, ContinuesTwice DEF accumulate_gas

LEMMA FeeType ==
  ASSUME NEW n \in Nat
  PROVE  Fee(n) \in Int
  <1>1. n * n \in Int
    OBVIOUS
  <1>2. (n * n) \div 512 \in Int
    BY <1>1
  <1>. QED
    BY <1>2 DEF Fee

LEMMA CeilIs ==
  ASSUME NEW n \in Nat
  PROVE  Ceil(n) \in Nat /\ Ceil(n) * Bytes \in Nat /\ Ceil(n) * Bytes >= n
  <1>1. Bytes \in Positive
    BY Widths
  <1>2. n + Bytes - 1 \in Nat
    BY <1>1 DEF Positive
  <1>3. /\ Ceil(n) \in Nat /\ (n + Bytes - 1) % Bytes \in 0..(Bytes - 1)
        /\ n + Bytes - 1 = Ceil(n) * Bytes + ((n + Bytes - 1) % Bytes)
    BY <1>1, <1>2, Quotient, Divides DEF Ceil
  <1>4. Ceil(n) * Bytes \in Nat
    BY <1>1, <1>3 DEF Positive
  <1>. QED
    BY <1>1, <1>3, <1>4 DEF Positive

\* Memory is paid for by its size, and large enough behind an access.
LEMMA ExtendContinues ==
  ASSUME NEW s, MachineType(s), s.status \in {"run", "OutOfGas"},
         NEW start \in [v : Nat, sym : BOOLEAN], NEW size \in [v : Nat, sym : BOOLEAN]
  PROVE  /\ Continues(mem_extend(s, start, size), s)
         /\ (~start.sym /\ ~size.sym /\ mem_extend(s, start, size).status = "run")
              => start.v + size.v <= mem_extend(s, start, size).msize
  <1> DEFINE n == start.v + size.v
  <1> DEFINE words == Ceil(n)
  <1> DEFINE fee == Fee(words) - Fee(s.msize \div Bytes)
  <1> DEFINE paid == [s EXCEPT !.min = @ + fee, !.max = @ + fee, !.paid = @ + fee]
  <1>1. n \in Nat /\ s.msize \in Nat
    BY DEF MachineType
  <1>. HIDE DEF n
  <1>2. words \in Nat /\ words * Bytes \in Nat /\ words * Bytes >= n
    BY <1>1, CeilIs
  <1>. HIDE DEF words
  <1>3. Continues(s, s)
    BY DEF Continues
  <1>4. mem_extend(s, start, size) =
          IF start.sym \/ size.sym \/ s.msize > n THEN s
          ELSE IF words * Bytes = s.msize THEN s
          ELSE IF paid.min > s.limit THEN Stop(s, "OutOfGas")
          ELSE [paid EXCEPT !.msize = words * Bytes]
    BY DEF mem_extend, n, words
  <1>. HIDE DEF paid
  <1>5. CASE start.sym \/ size.sym \/ s.msize > n
    BY <1>1, <1>3, <1>4, <1>5 DEF n
  <1>6. CASE ~(start.sym \/ size.sym \/ s.msize > n) /\ words * Bytes = s.msize
    BY <1>1, <1>2, <1>3, <1>4, <1>6 DEF n
  <1>7. CASE ~(start.sym \/ size.sym \/ s.msize > n) /\ words * Bytes # s.msize /\ paid.min > s.limit
    <2>1. mem_extend(s, start, size) = Stop(s, "OutOfGas")
      BY <1>4, <1>7
    <2>2. Stop(s, "OutOfGas").status = "OutOfGas" /\ MachineType(Stop(s, "OutOfGas"))
      BY StopType
    <2>3. Continues(Stop(s, "OutOfGas"), s)
      BY StopType DEF Continues, Like
    <2>. QED
      BY <2>1, <2>2, <2>3
  <1>8. CASE ~(start.sym \/ size.sym \/ s.msize > n) /\ words * Bytes # s.msize /\ ~(paid.min > s.limit)
    <2> DEFINE t == [paid EXCEPT !.msize = words * Bytes]
    <2>1. mem_extend(s, start, size) = t
      BY <1>4, <1>8
    <2>2. MachineShape(s)
      BY DEF MachineType
    <2>. HIDE DEF fee
    <2> DEFINE space == words * Bytes
    <2>. HIDE DEF space
    <2> DEFINE u == [paid EXCEPT !.msize = space]
    <2>20. u = t
      BY DEF space
    <2>21. MachineShape(paid)
      BY <2>2 DEF MachineShape, paid
    <2>22. MachineShape(u)
      BY <2>21 DEF MachineShape
    <2>3. /\ MachineShape(t)
          /\ t.pc = s.pc /\ t.stack = s.stack /\ t.subs = s.subs /\ t.mem = s.mem /\ t.aside = s.aside
          /\ t.status = s.status /\ t.msize = words * Bytes /\ t.paid = s.paid + fee
      BY <2>2, <2>20, <2>22 DEF MachineShape, MachineFields, paid, space
    <2>. HIDE DEF t
    <2>4. (words * Bytes) \div Bytes = words /\ (words * Bytes) % Bytes = 0
      BY <1>2, Widths, MultipleRemainder
    <2>5. Fee(words) \in Int /\ Fee(s.msize \div Bytes) \in Int /\ s.paid = Fee(s.msize \div Bytes)
      <3>1. s.msize \div Bytes \in 0..s.msize
        BY <1>1, Widths, Divides
      <3>2. s.msize \div Bytes \in Nat
        BY <3>1
      <3>. QED
        BY <1>2, <3>2, FeeType DEF MachineType, Paid
    <2>6. Paid(t)
      <3>1. t.paid = Fee(words)
        BY <2>3, <2>5 DEF fee
      <3>. QED
        BY <2>3, <2>4, <3>1 DEF Paid
    <2>7. CellsIn(t)
      <3>1. words * Bytes >= s.msize
        BY <1>1, <1>2, <1>8
      <3>. QED
        BY <1>1, <1>2, <2>3, <3>1 DEF MachineType, CellsIn
    <2>8. MachineType(t)
      BY <1>2, <2>3, <2>6, <2>7 DEF MachineType
    <2>9. Continues(t, s)
      BY <2>3, <2>8 DEF Continues
    <2>. QED
      BY <1>2, <2>1, <2>3, <2>9 DEF n
  <1>. QED
    BY <1>5, <1>6, <1>7, <1>8

LEMMA PushType ==
  ASSUME NEW s, MachineType(s), NEW w \in Operands
  PROVE  MachineType(Push(s, w))
  <1>1. MachineType(Stop(s, "failed"))
    BY StopType
  <1>2. MachineType([s EXCEPT !.stack = Append(@, w)])
    <2> DEFINE t == [s EXCEPT !.stack = Append(@, w)]
    <2>1. MachineShape(s) /\ s.stack \in Seq(Operands)
      BY DEF MachineType
    <2>2. MachineShape(t)
      BY <2>1 DEF MachineShape
    <2>3. /\ t.stack = Append(s.stack, w)
          /\ t.pc = s.pc /\ t.subs = s.subs /\ t.mem = s.mem /\ t.aside = s.aside
          /\ t.msize = s.msize /\ t.paid = s.paid
      BY <2>1 DEF MachineShape, MachineFields
    <2>. HIDE DEF t
    <2>4. t.stack \in Seq(Operands)
      BY <2>1, <2>3
    <2>5. MachineType(t)
      BY <2>2, <2>3, <2>4 DEF MachineType, CellsIn, Paid
    <2>. QED
      BY <2>5 DEF t
  <1>. QED
    BY <1>1, <1>2 DEF Push

LEMMA PushIs ==
  ASSUME NEW s, MachineType(s), NEW w
  PROVE  /\ s.status # "run" => Push(s, w) = s
         /\ s.status = "run" /\ Len(s.stack) >= StackLimit => Push(s, w).status = "failed"
         /\ s.status = "run" /\ ~(Len(s.stack) >= StackLimit) =>
              /\ Push(s, w).stack = Append(s.stack, w) /\ Push(s, w).status = "run"
              /\ Push(s, w).pc = s.pc /\ Push(s, w).subs = s.subs /\ Push(s, w).mem = s.mem
              /\ Push(s, w).aside = s.aside
  <1>1. MachineShape(s)
    BY DEF MachineType
  <1>. QED
    BY <1>1 DEF Push, Stop, MachineShape, MachineFields

LEMMA EvmPushIs ==
  ASSUME NEW x, EvmShape(x), NEW w
  PROVE  /\ EvmShape(Push(x, w))
         /\ x.status # "run" => Push(x, w) = x
         /\ x.status = "run" /\ Len(x.stack) >= StackLimit => Push(x, w).status = "failed"
         /\ x.status = "run" /\ ~(Len(x.stack) >= StackLimit) =>
              /\ Push(x, w).stack = Append(x.stack, w) /\ Push(x, w).status = "run"
              /\ Push(x, w).pc = x.pc /\ Push(x, w).subs = x.subs /\ Push(x, w).mem = x.mem
  <1>1. EvmShape(Stop(x, "failed")) /\ EvmShape([x EXCEPT !.stack = Append(@, w)])
    BY DEF Stop, EvmShape
  <1>2. EvmShape(Push(x, w))
    BY <1>1 DEF Push
  <1>. QED
    BY <1>2 DEF Push, Stop, EvmShape, EvmFields

\* The same word on both stacks.
LEMMA PushAgree ==
  ASSUME NEW s, MachineType(s), NEW x, EvmShape(x), Agree(s, x), NEW w \in Operands
  PROVE  MachineType(Push(s, w)) /\ EvmShape(Push(x, w.v)) /\ Agree(Push(s, w), Push(x, w.v))
  <1>1. MachineType(Push(s, w)) /\ EvmShape(Push(x, w.v))
    BY PushType, EvmPushIs
  <1>2. CASE x.status # "run"
    <2>1. Push(x, w.v) = x
      BY <1>2, EvmPushIs
    <2>2. x.status = "stopped" => Push(s, w) = s
      BY PushIs DEF Agree
    <2>. QED
      BY <1>1, <1>2, <2>1, <2>2 DEF Agree
  <1>3. CASE x.status = "run" /\ s.status # "run"
    <2>1. Push(s, w) = s /\ s.status = "OutOfGas"
      BY <1>3, PushIs DEF Agree
    <2>2. Push(x, w.v).status \in {"run", "failed"}
      BY <1>3, EvmPushIs
    <2>. QED
      BY <1>1, <2>1, <2>2 DEF Agree
  <1>4. CASE x.status = "run" /\ s.status = "run"
    <2>1. Same(s, x) /\ s.stack \in Seq(Operands)
      BY <1>4 DEF Agree, MachineType
    <2>2. Len(x.stack) = Len(s.stack) /\ x.stack = Values(s.stack)
      BY <2>1, ValuesType DEF Same
    <2>3. CASE Len(s.stack) >= StackLimit
      <3>1. Push(x, w.v).status = "failed"
        BY <1>4, <2>2, <2>3, EvmPushIs
      <3>. QED
        BY <1>1, <3>1 DEF Agree
    <2>4. CASE ~(Len(s.stack) >= StackLimit)
      <3> DEFINE t == Push(s, w)
      <3> DEFINE y == Push(x, w.v)
      <3>1. /\ t.stack = Append(s.stack, w) /\ t.status = "run"
            /\ t.pc = s.pc /\ t.subs = s.subs /\ t.mem = s.mem
        BY <1>4, <2>4, PushIs
      <3>2. /\ y.stack = Append(x.stack, w.v) /\ y.status = "run"
            /\ y.pc = x.pc /\ y.subs = x.subs /\ y.mem = x.mem
        BY <1>4, <2>2, <2>4, EvmPushIs
      <3>. HIDE DEF t, y
      <3>3. y.stack = Values(t.stack)
        BY <2>1, <2>2, <3>1, <3>2, ValuesAppend
      <3>4. Same(t, y)
        BY <2>1, <3>1, <3>2, <3>3 DEF Same, SameMemory
      <3>. QED
        BY <1>1, <3>1, <3>2, <3>4 DEF Agree, t, y
    <2>. QED
      BY <2>3, <2>4
  <1>. QED
    BY <1>2, <1>3, <1>4

LEMMA PopType ==
  ASSUME NEW s, MachineType(s), NEW n \in 0..Len(s.stack)
  PROVE  /\ MachineType(Pop(s, n)) /\ Pop(s, n).status = s.status
         /\ Pop(s, n).stack = SubSeq(s.stack, 1, Len(s.stack) - n)
         /\ Pop(s, n).pc = s.pc /\ Pop(s, n).subs = s.subs /\ Pop(s, n).mem = s.mem
         /\ Pop(s, n).msize = s.msize /\ Pop(s, n).aside = s.aside
  <1> DEFINE t == Pop(s, n)
  <1>1. MachineShape(s) /\ s.stack \in Seq(Operands)
    BY DEF MachineType
  <1>2. MachineShape(t)
    BY <1>1 DEF MachineShape, Pop
  <1>3. /\ t.stack = SubSeq(s.stack, 1, Len(s.stack) - n) /\ t.status = s.status
        /\ t.pc = s.pc /\ t.subs = s.subs /\ t.mem = s.mem /\ t.aside = s.aside
        /\ t.msize = s.msize /\ t.paid = s.paid
    BY <1>1 DEF MachineShape, MachineFields, Pop
  <1>. HIDE DEF t
  <1>4. t.stack \in Seq(Operands)
    BY <1>1, <1>3, ValuesPop
  <1>5. MachineType(t)
    BY <1>2, <1>3, <1>4 DEF MachineType, CellsIn, Paid
  <1>. QED
    BY <1>3, <1>5 DEF t

LEMMA EvmPopIs ==
  ASSUME NEW x, EvmShape(x), NEW n
  PROVE  /\ EvmShape(Pop(x, n)) /\ Pop(x, n).status = x.status
         /\ Pop(x, n).stack = SubSeq(x.stack, 1, Len(x.stack) - n)
         /\ Pop(x, n).pc = x.pc /\ Pop(x, n).subs = x.subs /\ Pop(x, n).mem = x.mem
  <1>1. EvmShape(Pop(x, n))
    BY DEF EvmShape, Pop
  <1>. QED
    BY <1>1 DEF EvmShape, EvmFields, Pop

LEMMA PopAgree ==
  ASSUME NEW s, MachineType(s), NEW x, EvmShape(x), Agree(s, x), NEW n \in 0..Len(s.stack)
  PROVE  MachineType(Pop(s, n)) /\ EvmShape(Pop(x, n)) /\ Agree(Pop(s, n), Pop(x, n))
  <1> DEFINE t == Pop(s, n)
  <1> DEFINE y == Pop(x, n)
  <1>1. /\ MachineType(t) /\ t.stack = SubSeq(s.stack, 1, Len(s.stack) - n) /\ t.status = s.status
        /\ t.pc = s.pc /\ t.subs = s.subs /\ t.mem = s.mem
    BY PopType
  <1>2. /\ EvmShape(y) /\ y.stack = SubSeq(x.stack, 1, Len(x.stack) - n) /\ y.status = x.status
        /\ y.pc = x.pc /\ y.subs = x.subs /\ y.mem = x.mem
    BY EvmPopIs
  <1>. HIDE DEF t, y
  <1>3. s.stack \in Seq(Operands)
    BY DEF MachineType
  <1>4. ASSUME Same(s, x) PROVE Same(t, y)
    <2>1. y.stack = Values(t.stack)
      BY <1>1, <1>2, <1>3, <1>4, ValuesPop DEF Same
    <2>. QED
      BY <1>1, <1>2, <1>4, <2>1 DEF Same, SameMemory
  <1>5. Agree(t, y)
    BY <1>1, <1>2, <1>4 DEF Agree
  <1>. QED
    BY <1>1, <1>2, <1>5 DEF t, y

LEMMA AdvanceType ==
  ASSUME NEW s, MachineType(s)
  PROVE  /\ MachineType(Advance(s)) /\ Advance(s).status = s.status
         /\ s.status # "run" => Advance(s) = s
         /\ s.status = "run" => Advance(s).pc = s.pc + 1
         /\ Advance(s).stack = s.stack /\ Advance(s).subs = s.subs /\ Advance(s).mem = s.mem
  <1> DEFINE t == [s EXCEPT !.pc = @ + 1]
  <1>1. MachineShape(s) /\ s.pc \in Nat
    BY DEF MachineType
  <1>2. MachineShape(t)
    BY <1>1 DEF MachineShape
  <1>3. /\ t.stack = s.stack /\ t.status = s.status /\ t.pc = s.pc + 1
        /\ t.subs = s.subs /\ t.mem = s.mem /\ t.aside = s.aside
        /\ t.msize = s.msize /\ t.paid = s.paid
    BY <1>1 DEF MachineShape, MachineFields
  <1>. HIDE DEF t
  <1>4. t.pc \in Nat
    BY <1>1, <1>3
  <1>5. MachineType(t)
    BY <1>2, <1>3, <1>4 DEF MachineType, CellsIn, Paid
  <1>6. Advance(s) = IF s.status = "run" THEN t ELSE s
    BY DEF Advance, t
  <1>. QED
    BY <1>3, <1>5, <1>6

LEMMA EvmAdvanceIs ==
  ASSUME NEW x, EvmShape(x)
  PROVE  /\ EvmShape(Advance(x)) /\ Advance(x).status = x.status
         /\ x.status # "run" => Advance(x) = x
         /\ x.status = "run" => Advance(x).pc = x.pc + 1
         /\ Advance(x).stack = x.stack /\ Advance(x).subs = x.subs /\ Advance(x).mem = x.mem
  <1>1. EvmShape(Advance(x))
    BY DEF EvmShape, Advance
  <1>. QED
    BY <1>1 DEF EvmShape, EvmFields, Advance

LEMMA AdvanceAgree ==
  ASSUME NEW s, MachineType(s), NEW x, EvmShape(x), Agree(s, x)
  PROVE  MachineType(Advance(s)) /\ EvmShape(Advance(x)) /\ Agree(Advance(s), Advance(x))
  <1> DEFINE t == Advance(s)
  <1> DEFINE y == Advance(x)
  <1>1. /\ MachineType(t) /\ t.stack = s.stack /\ t.status = s.status
        /\ (s.status = "run" => t.pc = s.pc + 1) /\ t.subs = s.subs /\ t.mem = s.mem
    BY AdvanceType
  <1>2. /\ EvmShape(y) /\ y.stack = x.stack /\ y.status = x.status
        /\ (x.status = "run" => y.pc = x.pc + 1) /\ y.subs = x.subs /\ y.mem = x.mem
    BY EvmAdvanceIs
  <1>. HIDE DEF t, y
  <1>3. Agree(t, y)
    BY <1>1, <1>2 DEF Agree, Same, SameMemory
  <1>. QED
    BY <1>1, <1>2, <1>3 DEF t, y

\* Where a handler is known to approximate nothing is claimed.
LEMMA PartAgree ==
  ASSUME NEW s, NEW x, EvmShape(x), NEW cond \in BOOLEAN, ~cond => Agree(s, x)
  PROVE  EvmShape(Part(x, cond)) /\ Agree(s, Part(x, cond))
  <1>1. EvmShape(Stop(x, "apart")) /\ Stop(x, "apart").status = "apart"
    <2>1. EvmShape(Stop(x, "apart"))
      BY DEF Stop, EvmShape
    <2>. QED
      BY <2>1 DEF Stop, EvmShape, EvmFields
  <1>2. Agree(s, Stop(x, "apart"))
    BY <1>1 DEF Agree
  <1>. QED
    BY <1>1, <1>2 DEF Part

-------------------------------------------------------------------------------
(* Memory *)

LEMMA SetitemType ==
  ASSUME NEW s, MachineType(s), NEW start \in Nat, NEW n \in Nat, NEW bytes \in [1..n -> Cells]
  PROVE  LET t == setitem(s, start, bytes)
         IN  /\ MachineType(t) /\ t.status = s.status
             /\ t.pc = s.pc /\ t.stack = s.stack /\ t.subs = s.subs
             /\ s.status = "run" /\ start + n <= s.msize =>
                  \A i \in Nat : \A none : ByteAt(t.mem, i, none)
                    = IF start <= i /\ i < start + n THEN bytes[i - start + 1] ELSE ByteAt(s.mem, i, none)
  <1> DEFINE kept == {k \in start..(start + Len(bytes) - 1) : k < s.msize}
  <1> DEFINE new == [i \in kept |-> bytes[i - start + 1]]
  <1> DEFINE t == [s EXCEPT !.mem = Over(new, @)]
  <1>1. Len(bytes) = n
    BY Made
  <1>2. MachineShape(s) /\ s.msize \in Nat /\ CellsIn(s)
    BY DEF MachineType
  <1>3. kept \subseteq 0..(s.msize - 1) /\ \A i \in kept : new[i] \in Cells
    BY <1>1, <1>2
  <1>4. ASSUME start + n <= s.msize PROVE \A i \in Nat : i \in kept <=> start <= i /\ i < start + n
    BY <1>1, <1>2, <1>4
  <1>5. \A i \in kept : new[i] = bytes[i - start + 1]
    OBVIOUS
  <1>6. setitem(s, start, bytes) = IF s.status # "run" THEN s ELSE t
    BY DEF setitem
  <1>7. DOMAIN new = kept
    OBVIOUS
  <1>. HIDE DEF new, kept
  <1>8. MachineShape(t)
    BY <1>2 DEF MachineShape
  <1>9. /\ t.mem = Over(new, s.mem) /\ t.status = s.status
        /\ t.pc = s.pc /\ t.stack = s.stack /\ t.subs = s.subs /\ t.aside = s.aside
        /\ t.msize = s.msize /\ t.paid = s.paid
    BY <1>2 DEF MachineShape, MachineFields
  <1>. HIDE DEF t
  <1>10. DOMAIN t.mem = kept \cup DOMAIN s.mem
         /\ \A i \in DOMAIN t.mem : t.mem[i] = IF i \in kept THEN new[i] ELSE s.mem[i]
    BY <1>7, <1>9 DEF Over
  <1>11. CellsIn(t)
    BY <1>2, <1>3, <1>9, <1>10 DEF CellsIn
  <1>12. MachineType(t)
    BY <1>8, <1>9, <1>11 DEF MachineType, Paid
  <1>13. ASSUME start + n <= s.msize, NEW i \in Nat, NEW none
         PROVE  ByteAt(t.mem, i, none)
                  = IF start <= i /\ i < start + n THEN bytes[i - start + 1] ELSE ByteAt(s.mem, i, none)
    BY <1>4, <1>5, <1>10, <1>13 DEF ByteAt
  <1>. QED
    BY <1>6, <1>9, <1>12, <1>13

LEMMA EvmExtendIs ==
  ASSUME NEW x, EvmShape(x), NEW start, NEW size
  PROVE  LET y == EvmExtend(x, start, size)
         IN  /\ EvmShape(y) /\ y.status = x.status
             /\ y.pc = x.pc /\ y.stack = x.stack /\ y.subs = x.subs /\ y.mem = x.mem
  <1> DEFINE y == [x EXCEPT !.msize = Ceil(start + size) * Bytes]
  <1>1. EvmShape(y)
    BY DEF EvmShape
  <1>2. y.status = x.status /\ y.pc = x.pc /\ y.stack = x.stack /\ y.subs = x.subs /\ y.mem = x.mem
    BY DEF EvmShape, EvmFields
  <1>3. EvmExtend(x, start, size) \in {x, y}
    BY DEF EvmExtend
  <1>. QED
    BY <1>1, <1>2, <1>3

LEMMA EvmWriteIs ==
  ASSUME NEW x, EvmShape(x), NEW start \in Nat, NEW n \in Nat, NEW bytes, bytes \in [1..n -> Digits]
  PROVE  LET y == EvmWrite(x, start, bytes)
         IN  /\ EvmShape(y) /\ y.status = x.status
             /\ y.pc = x.pc /\ y.stack = x.stack /\ y.subs = x.subs
             /\ \A i \in Nat : ByteAt(y.mem, i, 0)
                  = IF start <= i /\ i < start + n THEN bytes[i - start + 1] ELSE ByteAt(x.mem, i, 0)
  <1> DEFINE z == EvmExtend(x, start, Len(bytes))
  <1> DEFINE y == [z EXCEPT !.mem = Put(@, start, bytes)]
  <1> DEFINE new == [i \in start..(start + Len(bytes) - 1) |-> bytes[i - start + 1]]
  <1>1. Len(bytes) = n
    BY Made
  <1>2. /\ EvmShape(z) /\ z.status = x.status
        /\ z.pc = x.pc /\ z.stack = x.stack /\ z.subs = x.subs /\ z.mem = x.mem
    BY EvmExtendIs
  <1>3. EvmWrite(x, start, bytes) = y
    BY DEF EvmWrite
  <1>. HIDE DEF z
  <1>4. EvmShape(y)
    BY <1>2 DEF EvmShape
  <1>5. /\ y.status = x.status /\ y.pc = x.pc /\ y.stack = x.stack /\ y.subs = x.subs
        /\ y.mem = Put(x.mem, start, bytes)
    BY <1>2 DEF EvmShape, EvmFields
  <1>. HIDE DEF y
  <1>6. \A i \in Nat : i \in DOMAIN new <=> start <= i /\ i < start + n
    BY <1>1
  <1>7. \A i \in DOMAIN new : new[i] = bytes[i - start + 1]
    OBVIOUS
  <1>8. y.mem = Over(new, x.mem)
    BY <1>5 DEF Put
  <1>. HIDE DEF new
  <1>9. ASSUME NEW i \in Nat
        PROVE  ByteAt(y.mem, i, 0)
                 = IF start <= i /\ i < start + n THEN bytes[i - start + 1] ELSE ByteAt(x.mem, i, 0)
    BY <1>6, <1>7, <1>8 DEF ByteAt, Over
  <1>. QED
    BY <1>3, <1>4, <1>5, <1>9

\* What the symbolic machine stores is the first part of what the other stores, whose rest
\* is in its memory already.
LEMMA WriteAgree ==
  ASSUME NEW s, MachineType(s), NEW x, EvmShape(x), Agree(s, x), NEW start \in Nat,
         NEW n \in Nat, NEW k \in 0..n, NEW cells \in [1..k -> Cells], NEW bytes \in [1..n -> Digits],
         s.status = "run" => start + k <= s.msize,
         \A j \in 1..k : cells[j].v = bytes[j],
         \A j \in 1..n : j > k => bytes[j] = ByteAt(x.mem, start + j - 1, 0)
  PROVE  /\ MachineType(setitem(s, start, cells)) /\ EvmShape(EvmWrite(x, start, bytes))
         /\ Agree(setitem(s, start, cells), EvmWrite(x, start, bytes))
  <1> DEFINE t == setitem(s, start, cells)
  <1> DEFINE y == EvmWrite(x, start, bytes)
  <1>1. k \in Nat
    OBVIOUS
  <1>2. /\ MachineType(t) /\ t.status = s.status
        /\ t.pc = s.pc /\ t.stack = s.stack /\ t.subs = s.subs
        /\ s.status = "run" /\ start + k <= s.msize =>
              \A i \in Nat : \A none : ByteAt(t.mem, i, none)
                = IF start <= i /\ i < start + k THEN cells[i - start + 1] ELSE ByteAt(s.mem, i, none)
    BY <1>1, SetitemType
  <1>3. /\ EvmShape(y) /\ y.status = x.status
        /\ y.pc = x.pc /\ y.stack = x.stack /\ y.subs = x.subs
        /\ \A i \in Nat : ByteAt(y.mem, i, 0)
             = IF start <= i /\ i < start + n THEN bytes[i - start + 1] ELSE ByteAt(x.mem, i, 0)
    BY EvmWriteIs
  <1>. HIDE DEF t, y
  <1>4. ASSUME s.status = "run", Same(s, x) PROVE SameMemory(t, y)
    <2> SUFFICES ASSUME NEW i \in Nat PROVE ByteAt(t.mem, i, Const(0)).v = ByteAt(y.mem, i, 0)
      BY DEF SameMemory
    <2>1. ByteAt(t.mem, i, Const(0))
            = IF start <= i /\ i < start + k THEN cells[i - start + 1] ELSE ByteAt(s.mem, i, Const(0))
      BY <1>2, <1>4
    <2>2. ByteAt(y.mem, i, 0)
             = IF start <= i /\ i < start + n THEN bytes[i - start + 1] ELSE ByteAt(x.mem, i, 0)
      BY <1>3
    <2>3. ByteAt(s.mem, i, Const(0)).v = ByteAt(x.mem, i, 0)
      BY <1>4 DEF Same, SameMemory
    <2>4. CASE start <= i /\ i < start + k
      <3>1. i - start + 1 \in 1..k /\ i < start + n
        BY <2>4
      <3>. QED
        BY <2>1, <2>2, <2>4, <3>1
    <2>5. CASE start <= i /\ ~(i < start + k) /\ i < start + n
      <3>1. i - start + 1 \in 1..n /\ i - start + 1 > k /\ start + (i - start + 1) - 1 = i
        BY <2>5
      <3>2. bytes[i - start + 1] = ByteAt(x.mem, i, 0)
        BY <3>1
      <3>. QED
        BY <2>1, <2>2, <2>3, <2>5, <3>2
    <2>6. CASE ~(start <= i /\ i < start + n)
      <3>1. ~(start <= i /\ i < start + k)
        BY <2>6
      <3>. QED
        BY <2>1, <2>2, <2>3, <2>6, <3>1
    <2>. QED
      BY <2>4, <2>5, <2>6
  <1>5. Agree(t, y)
    BY <1>2, <1>3, <1>4 DEF Agree, Same
  <1>. QED
    BY <1>2, <1>3, <1>5 DEF t, y

LEMMA ReadAgree ==
  ASSUME NEW s, MachineType(s), NEW start \in Nat, NEW n \in Nat
  PROVE  /\ Values(Read(s, start, n)) \in [1..n -> Digits]
         /\ DOMAIN Read(s, start, n) = 1..n
         /\ \A i \in 1..n : Read(s, start, n)[i] \in Cells
         /\ \A x : SameMemory(s, x) => Values(Read(s, start, n)) = Slice(x.mem, start, n, 0)
  <1> DEFINE bytes == Read(s, start, n)
  <1>1. DOMAIN bytes = 1..n /\ \A i \in 1..n : bytes[i] = ByteAt(s.mem, start + i - 1, Const(0))
    BY DEF Read, Slice
  <1>2. Const(0) \in Cells /\ \A i \in DOMAIN s.mem : s.mem[i] \in Cells
    <2>1. 0 \in Digits
      BY Widths, TwoToType DEF Digits, Positive
    <2>. QED
      BY <2>1 DEF Const, Cells, MachineType, CellsIn
  <1>3. \A i \in 1..n : bytes[i] \in Cells
    BY <1>1, <1>2 DEF ByteAt
  <1>. HIDE DEF bytes
  <1>4. Values(bytes) \in [1..n -> Digits]
    BY <1>1, <1>3 DEF Values, Cells
  <1>5. ASSUME NEW x, SameMemory(s, x) PROVE Values(bytes) = Slice(x.mem, start, n, 0)
    <2>1. \A i \in 1..n : start + i - 1 \in Nat
      OBVIOUS
    <2>2. \A i \in 1..n : bytes[i].v = ByteAt(x.mem, start + i - 1, 0)
      BY <1>1, <1>5, <2>1 DEF SameMemory
    <2>. QED
      BY <1>1, <2>2 DEF Values, Slice
  <1>. QED
    BY <1>1, <1>3, <1>4, <1>5 DEF bytes

-------------------------------------------------------------------------------
(* Steps *)

LEMMA InstructionIs ==
  ASSUME IInv, NEW i \in get_current_instruction
  PROVE  i.arg \in Word /\ (m.pc \in DOMAIN program \/ i.op = "STOP")
  <1>1. CASE m.pc \in DOMAIN code
    BY <1>1 DEF get_current_instruction, IInv, CodeInv
  <1>2. CASE m.pc \notin DOMAIN code /\ m.pc \notin DOMAIN program
    BY <1>2, WordType DEF get_current_instruction
  <1>3. CASE m.pc \notin DOMAIN code /\ m.pc \in DOMAIN program
    <2>1. PICK o \in program[m.pc] : i \in [op : {o}, arg : IF o = "PUSH" THEN PushValues ELSE {0}]
      BY <1>3 DEF get_current_instruction
    <2>2. i.arg \in IF o = "PUSH" THEN PushValues ELSE {0}
      BY <2>1
    <2>. QED
      BY <1>3, <2>2, WordType, MachineAssumption
  <1>. QED
    BY <1>1, <1>2, <1>3

\* While both machines run their stacks hold the same words.
LEMMA Stacked ==
  ASSUME IInv, m.status = "run"
  PROVE  /\ MachineType(m) /\ EvmShape(e) /\ Agree(m, e)
         /\ Len(m.stack) \in Nat /\ m.stack \in Seq(Operands)
         /\ \A n \in 1..Len(m.stack) : Arg(n) \in Operands /\ Arg(n).v \in Word /\ Arg(n).v \in Nat
         /\ e.status = "run" => /\ Same(m, e) /\ Len(e.stack) = Len(m.stack)
                                /\ \A n \in 1..Len(m.stack) : EArg(n) = Arg(n).v
  <1>1. MachineType(m) /\ EvmShape(e) /\ Agree(m, e) /\ m.stack \in Seq(Operands)
    BY DEF IInv, MachineType
  <1>2. Len(m.stack) \in Nat
    BY <1>1
  <1>3. \A n \in 1..Len(m.stack) : Len(m.stack) - n + 1 \in 1..Len(m.stack)
    BY <1>2
  <1>4. /\ Len(Values(m.stack)) = Len(m.stack)
        /\ \A k \in 1..Len(m.stack) : Values(m.stack)[k] = m.stack[k].v /\ m.stack[k] \in Operands
    BY <1>1, ValuesType
  <1>5. \A n \in 1..Len(m.stack) : Arg(n) \in Operands /\ Arg(n).v \in Word /\ Arg(n).v \in Nat
    BY <1>3, <1>4, OperandType DEF Arg
  <1>6. e.status = "run" => /\ Same(m, e) /\ Len(e.stack) = Len(m.stack)
                            /\ \A n \in 1..Len(m.stack) : EArg(n) = Arg(n).v
    BY <1>1, <1>3, <1>4 DEF Agree, Same, Arg, EArg
  <1>. QED
    BY <1>1, <1>2, <1>5, <1>6

\* What a handler and the instruction have to do for the invariant to be kept.
LEMMA PerformKeeps ==
  ASSUME IInv, m.status = "run", WorldInv',
         NEW i \in get_current_instruction, NEW n \in Nat, NEW s, NEW x, Perform(i, n, s, x),
         n <= Len(m.stack) => MachineType(s),
         n <= Len(m.stack) /\ e.status = "run" => EvmShape(x) /\ Agree(s, x)
  PROVE  IInv'
  <1>1. /\ MachineType(m) /\ EvmShape(e) /\ Agree(m, e) /\ Len(m.stack) \in Nat
        /\ e.status = "run" => Len(e.stack) = Len(m.stack)
    BY Stacked
  <1>2. code' = Over([pc \in {m.pc} |-> i], code) /\ program' = program
    BY DEF Perform
  <1>3. CodeInv'
    <2>1. i.arg \in Word /\ (m.pc \in DOMAIN program \/ i.op = "STOP")
      BY InstructionIs
    <2>2. ASSUME NEW k \in DOMAIN code' PROVE (code'[k] = i /\ k = m.pc) \/ (k \in DOMAIN code /\ code'[k] = code[k])
      BY <1>2 DEF Over
    <2>. QED
      BY <1>2, <2>1, <2>2 DEF CodeInv, IInv
  <1>4. m' = IF Len(m.stack) < n THEN Stop(m, "failed") ELSE s
    BY DEF Perform
  <1>5. e' = IF e.status # "run" THEN e ELSE IF Len(e.stack) < n THEN Stop(e, "failed") ELSE x
    BY DEF Perform
  <1>6. CASE Len(m.stack) < n
    <2>1. m' = Stop(m, "failed") /\ MachineType(m') /\ m'.status = "failed"
      BY <1>1, <1>4, <1>6, StopType
    <2>2. e.status = "run" => e' = Stop(e, "failed") /\ EvmShape(e') /\ e'.status = "failed"
      <3>1. EvmShape(Stop(e, "failed"))
        BY <1>1 DEF Stop, EvmShape
      <3>2. Stop(e, "failed").status = "failed"
        BY <1>1 DEF Stop, EvmShape, EvmFields
      <3>. QED
        BY <1>1, <1>5, <1>6, <3>1, <3>2
    <2>3. e.status # "run" => e' = e /\ e.status # "stopped"
      BY <1>1, <1>5 DEF Agree
    <2>4. MachineType(m') /\ EvmShape(e') /\ Agree(m', e')
      BY <1>1, <2>1, <2>2, <2>3 DEF Agree
    <2>. QED
      BY <1>2, <1>3, <2>4 DEF IInv, MachineType, MachineShape, EvmShape, Agree, Same, SameMemory, CellsIn, Paid
  <1>7. CASE n <= Len(m.stack)
    <2>1. m' = s /\ MachineType(s)
      BY <1>1, <1>4, <1>7
    <2>2. e.status = "run" => e' = x /\ EvmShape(x) /\ Agree(s, x)
      BY <1>1, <1>5, <1>7
    <2>3. e.status # "run" => e' = e /\ e.status # "stopped"
      BY <1>1, <1>5 DEF Agree
    <2>4. MachineType(m') /\ EvmShape(e') /\ Agree(m', e')
      BY <1>1, <2>1, <2>2, <2>3 DEF Agree
    <2>. QED
      BY <1>2, <1>3, <2>4 DEF IInv, MachineType, MachineShape, EvmShape, Agree, Same, SameMemory, CellsIn, Paid
  <1>. QED
    BY <1>1, <1>6, <1>7

LEMMA StraightKeeps ==
  ASSUME IInv, m.status = "run", WorldInv',
         NEW i \in get_current_instruction, NEW n \in Nat, NEW s, NEW x, Straight(i, n, s, x),
         n <= Len(m.stack) => MachineType(s),
         n <= Len(m.stack) /\ e.status = "run" => EvmShape(x) /\ Agree(s, x)
  PROVE  IInv'
  <1> DEFINE t == accumulate_gas(s, i.op)
  <1>1. n <= Len(m.stack) => MachineType(t) /\ Continues(t, s)
    BY AccumulateContinues DEF Continues
  <1>. HIDE DEF t
  <1>2. n <= Len(m.stack) => MachineType(Advance(t))
    BY <1>1, AdvanceType
  <1>3. n <= Len(m.stack) /\ e.status = "run" => EvmShape(x) /\ Agree(t, x)
    BY <1>1, ContinuesAgree
  <1>4. n <= Len(m.stack) /\ e.status = "run" => EvmShape(Advance(x)) /\ Agree(Advance(t), Advance(x))
    BY <1>1, <1>3, AdvanceAgree
  <1>5. Perform(i, n, Advance(t), Advance(x))
    BY DEF Straight, t
  <1>. QED
    BY <1>2, <1>4, <1>5, PerformKeeps

-------------------------------------------------------------------------------
(* The instructions *)

LEMMA Kept == ASSUME IInv, UNCHANGED world PROVE WorldInv'
  BY DEF IInv, WorldInv

LEMMA ConstType == ASSUME NEW w \in Word PROVE Const(w) \in Operands /\ Const(w).v = w /\ Term(w) \in Operands /\ Term(w).v = w
  BY DEF Const, Term, Operands

LEMMA StacksKeeps == ASSUME IInv, Stacks PROVE IInv'
  <1>1. PICK i \in get_current_instruction :
          /\ Running({"PUSH", "DUP1", "DUP2", "SWAP1", "POP", "JUMPDEST", "EMPTY"}, i)
          /\ UNCHANGED world
          /\ LET k == CASE i.op \in {"DUP1", "POP"} -> 1 [] i.op \in {"DUP2", "SWAP1"} -> 2 [] OTHER -> 0
                 Moved(s, lit) ==
                   CASE i.op = "PUSH" -> Push(s, lit)
                     [] i.op \in {"DUP1", "DUP2"} -> Push(s, s.stack[Len(s.stack) - k + 1])
                     [] i.op = "SWAP1" -> [s EXCEPT !.stack[Len(s.stack)] = s.stack[Len(s.stack) - 1],
                                                    !.stack[Len(s.stack) - 1] = s.stack[Len(s.stack)]]
                     [] i.op = "POP" -> Pop(s, 1)
                     [] OTHER -> s
             IN  Straight(i, k, Moved(m, Const(i.arg)), Moved(e, i.arg))
    BY DEF Stacks
  <1>2. m.status = "run" /\ WorldInv' /\ i.arg \in Word
    BY <1>1, Kept, InstructionIs DEF Running
  <1>3. /\ MachineType(m) /\ EvmShape(e) /\ Agree(m, e)
        /\ Len(m.stack) \in Nat /\ m.stack \in Seq(Operands)
        /\ \A n \in 1..Len(m.stack) : Arg(n) \in Operands
        /\ e.status = "run" => /\ Same(m, e) /\ Len(e.stack) = Len(m.stack)
                               /\ \A n \in 1..Len(m.stack) : EArg(n) = Arg(n).v
    BY <1>2, Stacked
  <1>4. CASE i.op = "PUSH"
    <2>1. Straight(i, 0, Push(m, Const(i.arg)), Push(e, i.arg))
      BY <1>1, <1>4
    <2>2. MachineType(Push(m, Const(i.arg))) /\ EvmShape(Push(e, i.arg)) /\ Agree(Push(m, Const(i.arg)), Push(e, i.arg))
      BY <1>2, <1>3, ConstType, PushAgree
    <2>. QED
      BY <1>2, <2>1, <2>2, StraightKeeps
  <1>5. ASSUME NEW k \in {1, 2}, Straight(i, k, Push(m, Arg(k)), Push(e, EArg(k))) PROVE IInv'
    <2>1. k <= Len(m.stack) => Arg(k) \in Operands
      BY <1>3
    <2>2. k <= Len(m.stack) => MachineType(Push(m, Arg(k)))
      BY <1>3, <2>1, PushType
    <2>3. k <= Len(m.stack) /\ e.status = "run" => EvmShape(Push(e, EArg(k))) /\ Agree(Push(m, Arg(k)), Push(e, EArg(k)))
      <3>1. k <= Len(m.stack) /\ e.status = "run" => EArg(k) = Arg(k).v
        BY <1>3
      <3>. QED
        BY <1>3, <2>1, <3>1, PushAgree
    <2>. QED
      BY <1>2, <1>5, <2>2, <2>3, StraightKeeps
  <1>6. CASE i.op = "DUP1"
    BY <1>1, <1>5, <1>6 DEF Arg, EArg
  <1>7. CASE i.op = "DUP2"
    BY <1>1, <1>5, <1>7 DEF Arg, EArg
  <1>8. CASE i.op = "POP"
    <2>1. Straight(i, 1, Pop(m, 1), Pop(e, 1))
      BY <1>1, <1>8
    <2>2. 1 <= Len(m.stack) => MachineType(Pop(m, 1)) /\ EvmShape(Pop(e, 1)) /\ Agree(Pop(m, 1), Pop(e, 1))
      BY <1>3, PopAgree
    <2>. QED
      BY <1>2, <2>1, <2>2, StraightKeeps
  <1>9. CASE i.op = "SWAP1"
    <2> DEFINE s == [m EXCEPT !.stack[Len(m.stack)] = m.stack[Len(m.stack) - 1],
                              !.stack[Len(m.stack) - 1] = m.stack[Len(m.stack)]]
    <2> DEFINE x == [e EXCEPT !.stack[Len(e.stack)] = e.stack[Len(e.stack) - 1],
                              !.stack[Len(e.stack) - 1] = e.stack[Len(e.stack)]]
    <2>1. Straight(i, 2, s, x)
      BY <1>1, <1>9
    <2>2. MachineShape(m) /\ MachineShape(s)
      BY <1>3 DEF MachineType, MachineShape
    <2>3. /\ s.status = m.status /\ s.pc = m.pc /\ s.subs = m.subs /\ s.mem = m.mem
          /\ s.aside = m.aside /\ s.msize = m.msize /\ s.paid = m.paid
          /\ s.stack = [m.stack EXCEPT ![Len(m.stack)] = m.stack[Len(m.stack) - 1],
                                       ![Len(m.stack) - 1] = m.stack[Len(m.stack)]]
      BY <2>2 DEF MachineShape, MachineFields
    <2>4. EvmShape(e) /\ EvmShape(x)
      BY <1>3 DEF EvmShape
    <2>5. /\ x.status = e.status /\ x.pc = e.pc /\ x.subs = e.subs /\ x.mem = e.mem
          /\ x.stack = [e.stack EXCEPT ![Len(e.stack)] = e.stack[Len(e.stack) - 1],
                                       ![Len(e.stack) - 1] = e.stack[Len(e.stack)]]
      BY <2>4 DEF EvmShape, EvmFields
    <2>. HIDE DEF s, x
    <2>6. ASSUME 2 <= Len(m.stack)
          PROVE  /\ s.stack \in Seq(Operands) /\ Len(s.stack) = Len(m.stack)
                 /\ e.status = "run" => x.stack = Values(s.stack)
      <3> DEFINE l == Len(m.stack)
      <3>1. l \in 1..l /\ l - 1 \in 1..l /\ l # l - 1 /\ l \in Nat
        BY <1>3, <2>6
      <3>2. DOMAIN m.stack = 1..l /\ \A n \in 1..l : m.stack[n] \in Operands
        BY <1>3
      <3>. HIDE DEF l
      <3>3. s.stack = [m.stack EXCEPT ![l] = m.stack[l - 1], ![l - 1] = m.stack[l]]
        BY <2>3 DEF l
      <3>4. DOMAIN s.stack = 1..l /\ \A n \in 1..l : s.stack[n] \in Operands
        BY <3>1, <3>2, <3>3
      <3>5. s.stack \in [1..l -> Operands]
        BY <3>1, <3>2, <3>3
      <3>6. s.stack \in Seq(Operands) /\ Len(s.stack) = l
        BY <3>1, <3>5, Made
      <3>7. ASSUME e.status = "run" PROVE x.stack = Values(s.stack)
        <4>1. e.stack = Values(m.stack) /\ Len(e.stack) = l
          BY <1>3, <3>7 DEF Same, l
        <4>2. x.stack = [e.stack EXCEPT ![l] = e.stack[l - 1], ![l - 1] = e.stack[l]]
          BY <2>5, <4>1
        <4>3. DOMAIN e.stack = 1..l /\ e.stack = [n \in 1..l |-> m.stack[n].v]
          BY <3>2, <4>1 DEF Values
        <4>4. x.stack = [n \in 1..l |-> IF n = l THEN m.stack[l - 1].v ELSE IF n = l - 1 THEN m.stack[l].v ELSE m.stack[n].v]
          BY <3>1, <4>2, <4>3
        <4>5. Values(s.stack) = [n \in 1..l |-> s.stack[n].v]
          BY <3>4 DEF Values
        <4>6. \A n \in 1..l : s.stack[n] = IF n = l THEN m.stack[l - 1] ELSE IF n = l - 1 THEN m.stack[l] ELSE m.stack[n]
          BY <3>1, <3>2, <3>3
        <4>. QED
          BY <4>4, <4>5, <4>6
      <3>. QED
        BY <3>6, <3>7 DEF l
    <2>7. 2 <= Len(m.stack) => MachineType(s)
      BY <1>3, <2>2, <2>3, <2>6 DEF MachineType, CellsIn, Paid
    <2>8. 2 <= Len(m.stack) /\ e.status = "run" => EvmShape(x) /\ Agree(s, x)
      BY <1>2, <1>3, <2>3, <2>4, <2>5, <2>6 DEF Agree, Same, SameMemory
    <2>. QED
      BY <1>2, <2>1, <2>7, <2>8, StraightKeeps
  <1>10. CASE i.op \in {"JUMPDEST", "EMPTY"}
    <2>1. Straight(i, 0, m, e)
      BY <1>1, <1>10
    <2>. QED
      BY <1>2, <1>3, <2>1, StraightKeeps
  <1>. QED
    BY <1>1, <1>4, <1>6, <1>7, <1>8, <1>9, <1>10 DEF Running

LEMMA ArithmeticKeeps == ASSUME IInv, Arithmetic PROVE IInv'
  <1>1. PICK i \in get_current_instruction :
          /\ Running(Unary \cup Binary \cup Ternary, i)
          /\ UNCHANGED world
          /\ LET n == IF i.op \in Unary THEN 1 ELSE IF i.op \in Binary THEN 2 ELSE 3
                 x == Arg(1)
                 y == Arg(IF n > 1 THEN 2 ELSE 1)
                 z == Arg(n)
                 true == Evm(i.op, EArg(1), EArg(IF n > 1 THEN 2 ELSE 1), EArg(n))
                 got == Results(i.op, x, y, z)
                 r == IF e.status = "run" /\ true \in got THEN true
                      ELSE IF got # {} THEN CHOOSE v \in got : TRUE ELSE 0
                 sym == x.sym \/ y.sym \/ z.sym
             IN  Straight(i, n, Push(Pop(m, n), [v |-> r, sym |-> sym]),
                          Part(Push(Pop(e, n), true), Differs(i.op, x, y, z)))
    BY DEF Arithmetic
  <1> DEFINE op == i.op
  <1> DEFINE n == IF op \in Unary THEN 1 ELSE IF op \in Binary THEN 2 ELSE 3
  <1> DEFINE k == IF n > 1 THEN 2 ELSE 1
  <1> DEFINE x == Arg(1)
  <1> DEFINE y == Arg(k)
  <1> DEFINE z == Arg(n)
  <1> DEFINE true == Evm(op, EArg(1), EArg(k), EArg(n))
  <1> DEFINE got == Results(op, x, y, z)
  <1> DEFINE r == IF e.status = "run" /\ true \in got THEN true
                  ELSE IF got # {} THEN CHOOSE v \in got : TRUE ELSE 0
  <1> DEFINE w == [v |-> r, sym |-> x.sym \/ y.sym \/ z.sym]
  <1> DEFINE cond == Differs(op, x, y, z)
  <1>2. Straight(i, n, Push(Pop(m, n), w), Part(Push(Pop(e, n), true), cond))
    BY <1>1
  <1>3. m.status = "run" /\ WorldInv' /\ op \in Instructions
    BY <1>1, Kept DEF Running, Instructions
  <1>4. n \in {1, 2, 3} /\ k \in 1..n
    OBVIOUS
  <1>. HIDE DEF op, n, k, x, y, z, true, got, r, w, cond
  <1>5. /\ MachineType(m) /\ EvmShape(e) /\ Agree(m, e)
        /\ Len(m.stack) \in Nat
        /\ \A j \in 1..Len(m.stack) : Arg(j) \in Operands
        /\ e.status = "run" => \A j \in 1..Len(m.stack) : EArg(j) = Arg(j).v
    BY <1>3, Stacked
  <1>6. ASSUME n <= Len(m.stack)
        PROVE  /\ MachineType(Push(Pop(m, n), w))
               /\ e.status = "run" =>
                    /\ EvmShape(Part(Push(Pop(e, n), true), cond))
                    /\ Agree(Push(Pop(m, n), w), Part(Push(Pop(e, n), true), cond))
    <2>1. 1 \in 1..Len(m.stack) /\ k \in 1..Len(m.stack) /\ n \in 1..Len(m.stack) /\ n \in 0..Len(m.stack)
      BY <1>4, <1>5, <1>6
    <2>2. x \in Operands /\ y \in Operands /\ z \in Operands
      BY <1>5, <2>1 DEF x, y, z
    <2>3. got \subseteq Word
      BY <1>3, <2>2, ResultsType DEF got
    <2>4. r \in Word
      BY <2>3, WordType DEF r
    <2>5. w \in Operands /\ w.v = r
      BY <2>2, <2>4 DEF w, Operands
    <2>6. MachineType(Pop(m, n)) /\ EvmShape(Pop(e, n)) /\ Agree(Pop(m, n), Pop(e, n))
      BY <1>5, <2>1, PopAgree
    <2>7. MachineType(Push(Pop(m, n), w))
      BY <2>5, <2>6, PushType
    <2>8. EvmShape(Push(Pop(e, n), true))
      BY <2>6, EvmPushIs
    <2>9. ASSUME e.status = "run", ~cond PROVE Agree(Push(Pop(m, n), w), Push(Pop(e, n), true))
      <3>1. EArg(1) = x.v /\ EArg(k) = y.v /\ EArg(n) = z.v
        BY <1>5, <2>1, <2>9 DEF x, y, z
      <3>2. Exact(op, x, y, z)
        BY <1>3, <2>2, InstructionsExact
      <3>3. true \in got
        BY <2>9, <3>1, <3>2 DEF Exact, true, got, cond
      <3>4. r = true
        BY <2>9, <3>3 DEF r
      <3>. QED
        BY <2>5, <2>6, <3>4, PushAgree
    <2>10. cond \in BOOLEAN
      BY DEF cond, Differs
    <2>. QED
      BY <2>7, <2>8, <2>9, <2>10, PartAgree
  <1>7. n \in Nat
    BY <1>4
  <1>. QED
    BY <1>2, <1>3, <1>6, <1>7, StraightKeeps

\* Half the length of what is kept is the number of bytes if digits are kept.
LEMMA HalfLength ==
  ASSUME NEW n \in Word, NEW form
  PROVE  half_length(n, form) \in Word /\ (form = "digits" => half_length(n, form) = n)
  <1>1. n \in Nat /\ n + 1 \in Int /\ n \div 2 \in Int
    BY WordType
  <1>2. Wrap(n) = n
    BY WrapOfWord
  <1>3. Wrap(n) \in Word /\ Wrap(n + 1) \in Word /\ Wrap(n \div 2) \in Word
    BY <1>1, Wrapped
  <1>. HIDE DEF Wrap
  <1>. QED
    BY <1>2, <1>3 DEF half_length

LEMMA EnvironmentKeeps == ASSUME IInv, Environment PROVE IInv'
  <1>1. PICK i \in get_current_instruction :
          /\ Running({"PC", "MSIZE", "CODESIZE", "ADDRESS", "CALLDATASIZE"}, i)
          /\ UNCHANGED world
          /\ CASE i.op = "PC" -> Straight(i, 0, Push(m, pc_), Push(e, Wrap(Address(program, e.pc))))
               [] i.op = "MSIZE" -> Straight(i, 0, Push(m, msize_), Part(Push(e, Wrap(e.msize)), m.msize # e.msize))
               [] i.op = "CODESIZE" ->
                    IF kind = "creation" THEN Straight(i, 0, Stop(m, "infeasible"), Stop(e, "apart"))
                    ELSE Straight(i, 0, Push(m, Const(half_length(Len(CodeBytes), kind))),
                                  Part(Push(e, Len(CodeBytes)), kind # "digits"))
               [] i.op = "ADDRESS" -> Straight(i, 0, Push(m, Const(1)), Push(e, 1))
               [] OTHER -> Straight(i, 0, Push(m, Term(Len(Data))), Push(e, Len(Data)))
    BY DEF Environment
  <1>2. m.status = "run" /\ WorldInv'
    BY <1>1, Kept DEF Running
  <1>3. MachineType(m) /\ EvmShape(e) /\ Agree(m, e) /\ (e.status = "run" => Same(m, e))
    BY <1>2, Stacked
  <1>4. ASSUME NEW w \in Operands, Straight(i, 0, Push(m, w), Push(e, w.v)) PROVE IInv'
    <2>1. MachineType(Push(m, w)) /\ EvmShape(Push(e, w.v)) /\ Agree(Push(m, w), Push(e, w.v))
      BY <1>3, PushAgree
    <2>. QED
      BY <1>2, <1>4, <2>1, StraightKeeps
  <1>5. CASE i.op = "PC"
    <2>1. program \in Seq(SUBSET STRING) /\ m.pc \in DOMAIN program
      BY <1>5, InstructionIs DEF IInv
    <2>2. Address(program, m.pc) \in Nat
      <3>1. m.pc \in 1..Len(program)
        BY <2>1
      <3>. QED
        BY <2>1, <3>1, AddressGrows
    <2>3. pc_ \in Operands /\ pc_.v = Wrap(Address(program, m.pc))
      BY <2>2, Wrapped, ConstType DEF pc_
    <2>4. Straight(i, 0, Push(m, pc_), Push(e, Wrap(Address(program, e.pc))))
      BY <1>1, <1>5
    <2>5. MachineType(Push(m, pc_))
      BY <1>3, <2>3, PushType
    <2>6. e.status = "run" => /\ EvmShape(Push(e, Wrap(Address(program, e.pc))))
                              /\ Agree(Push(m, pc_), Push(e, Wrap(Address(program, e.pc))))
      <3>1. e.status = "run" => Wrap(Address(program, e.pc)) = pc_.v
        BY <1>3, <2>3 DEF Same
      <3>. QED
        BY <1>3, <2>3, <3>1, PushAgree
    <2>. QED
      BY <1>2, <2>4, <2>5, <2>6, StraightKeeps
  <1>6. CASE i.op = "MSIZE"
    <2> DEFINE x == Part(Push(e, Wrap(e.msize)), m.msize # e.msize)
    <2>1. Straight(i, 0, Push(m, msize_), x)
      BY <1>1, <1>6
    <2>2. msize_ \in Operands /\ msize_.v = Wrap(m.msize)
      <3>1. Wrap(m.msize) \in Word
        BY <1>3, Wrapped DEF MachineType
      <3>. QED
        BY <3>1, ConstType DEF msize_
    <2>3. MachineType(Push(m, msize_)) /\ EvmShape(Push(e, Wrap(e.msize)))
      BY <1>3, <2>2, PushType, EvmPushIs
    <2>4. m.msize = e.msize => Agree(Push(m, msize_), Push(e, Wrap(e.msize)))
      BY <1>3, <2>2, PushAgree
    <2>5. EvmShape(x) /\ Agree(Push(m, msize_), x)
      BY <2>3, <2>4, PartAgree
    <2>. HIDE DEF x
    <2>. QED
      BY <1>2, <2>1, <2>3, <2>5, StraightKeeps
  <1>7. CASE i.op = "CODESIZE" /\ kind = "creation"
    <2>1. Straight(i, 0, Stop(m, "infeasible"), Stop(e, "apart"))
      BY <1>1, <1>7
    <2>2. MachineType(Stop(m, "infeasible"))
      BY <1>3, StopType
    <2>3. Stop(e, "apart") = Part(e, TRUE)
      BY DEF Part
    <2>4. EvmShape(Stop(e, "apart")) /\ Agree(Stop(m, "infeasible"), Stop(e, "apart"))
      BY <1>3, <2>3, PartAgree
    <2>. QED
      BY <1>2, <2>1, <2>2, <2>4, StraightKeeps
  <1>8. CASE i.op = "CODESIZE" /\ kind # "creation"
    <2> DEFINE w == Const(half_length(Len(CodeBytes), kind))
               x == Part(Push(e, Len(CodeBytes)), kind # "digits")
    <2>1. Straight(i, 0, Push(m, w), x)
      BY <1>1, <1>8
    <2>2. Len(CodeBytes) \in Word
      <3>1. Len(CodeBytes) \in Nat /\ Len(CodeBytes) < Size
        BY MachineAssumption
      <3>. QED
        BY <3>1, Widths DEF Word, Positive
    <2>3. w \in Operands /\ (kind = "digits" => w.v = Len(CodeBytes))
      BY <2>2, HalfLength, ConstType
    <2>. HIDE DEF w
    <2>4. MachineType(Push(m, w)) /\ EvmShape(Push(e, Len(CodeBytes)))
      BY <1>3, <2>2, <2>3, PushType, EvmPushIs
    <2>5. kind = "digits" => Agree(Push(m, w), Push(e, Len(CodeBytes)))
      BY <1>3, <2>3, PushAgree
    <2>6. EvmShape(x) /\ Agree(Push(m, w), x)
      BY <2>4, <2>5, PartAgree
    <2>. HIDE DEF x
    <2>. QED
      BY <1>2, <2>1, <2>4, <2>6, StraightKeeps
  <1>9. CASE i.op = "ADDRESS"
    <2>1. Straight(i, 0, Push(m, Const(1)), Push(e, 1))
      BY <1>1, <1>9
    <2>. QED
      BY <1>4, <2>1, WordType, ConstType
  <1>10. CASE i.op = "CALLDATASIZE"
    <2>1. Straight(i, 0, Push(m, Term(Len(Data))), Push(e, Len(Data)))
      BY <1>1, <1>10
    <2>2. Len(Data) \in Word
      BY MachineAssumption, Widths DEF Word, Positive
    <2>. QED
      BY <1>4, <2>1, <2>2, ConstType
  <1>. QED
    BY <1>1, <1>5, <1>6, <1>7, <1>8, <1>9, <1>10 DEF Running

LEMMA NewBitvecKeeps == ASSUME IInv, new_bitvec PROVE IInv'
  <1>0. PICK i \in get_current_instruction :
          /\ Running(Decided, i)
          /\ \E v \in IF i.op \in DOMAIN world THEN {world[i.op]} ELSE Symbols :
               /\ world' = Over([op \in {i.op} |-> v], world)
               /\ Straight(i, 0, Push(m, Term(v)), Part(Push(e, v), i.op = "GAS" /\ "GAS" \in DOMAIN world))
    BY DEF new_bitvec
  <1>1. PICK v \in IF i.op \in DOMAIN world THEN {world[i.op]} ELSE Symbols :
          /\ world' = Over([op \in {i.op} |-> v], world)
          /\ Straight(i, 0, Push(m, Term(v)), Part(Push(e, v), i.op = "GAS" /\ "GAS" \in DOMAIN world))
    BY <1>0
  <1>2. v \in Word
    BY MachineAssumption DEF IInv, WorldInv
  <1>3. WorldInv'
    BY <1>1, <1>2 DEF WorldInv, IInv, Over
  <1>4. m.status = "run"
    BY <1>0 DEF Running
  <1>5. MachineType(m) /\ EvmShape(e) /\ Agree(m, e)
    BY <1>4, Stacked
  <1>6. MachineType(Push(m, Term(v))) /\ EvmShape(Push(e, v)) /\ Agree(Push(m, Term(v)), Push(e, v))
    BY <1>2, <1>5, ConstType, PushAgree
  <1> DEFINE cond == i.op = "GAS" /\ "GAS" \in DOMAIN world
  <1>7. EvmShape(Part(Push(e, v), cond)) /\ Agree(Push(m, Term(v)), Part(Push(e, v), cond))
    BY <1>6, PartAgree
  <1>8. Straight(i, 0, Push(m, Term(v)), Part(Push(e, v), cond))
    BY <1>1
  <1>. HIDE DEF cond
  <1>. QED
    BY <1>3, <1>4, <1>6, <1>7, <1>8, StraightKeeps

LEMMA AccountsKeeps == ASSUME IInv, Accounts PROVE IInv'
  <1> DEFINE a == Arg(1)
  <1> DEFINE result(op, v, known, read, form) ==
               CASE op = "BALANCE"     -> balance_(v, a, known, read)
                 [] op = "EXTCODESIZE" -> extcodesize_(v, a, known, form)
                 [] op = "EXTCODEHASH" -> extcodehash_(v, a)
                 [] op = "BLOCKHASH"   -> blockhash_(v)
             parts(op, v, known, form) ==
               \/ op = "BALANCE" /\ ~known /\ v # 0
               \/ op = "EXTCODESIZE" /\ ~a.sym /\ known /\ form # "digits"
               \/ op = "EXTCODEHASH" /\ a.sym
  <1>1. PICK i \in get_current_instruction, v \in Symbols, known, read \in BOOLEAN, form \in Forms :
          /\ Running({"BALANCE", "EXTCODESIZE", "EXTCODEHASH", "BLOCKHASH"}, i)
          /\ UNCHANGED world
          /\ Straight(i, 1, Push(Pop(m, 1), result(i.op, v, known, read, form)),
                      Part(Push(Pop(e, 1), v), parts(i.op, v, known, form)))
    BY DEF Accounts
  <1>2. m.status = "run" /\ WorldInv' /\ v \in Word
    BY <1>1, Kept, MachineAssumption DEF Running
  <1>3. /\ MachineType(m) /\ EvmShape(e) /\ Agree(m, e) /\ Len(m.stack) \in Nat
        /\ \A j \in 1..Len(m.stack) : Arg(j) \in Operands
    BY <1>2, Stacked
  <1> DEFINE r == result(i.op, v, known, read, form)
  <1> DEFINE cond == parts(i.op, v, known, form)
  <1>4. Straight(i, 1, Push(Pop(m, 1), r), Part(Push(Pop(e, 1), v), cond))
    BY <1>1
  <1>4a. ASSUME 1 <= Len(m.stack) PROVE r \in Operands /\ (~cond => r.v = v)
    <2>1. a.sym \in BOOLEAN
      BY <1>3, <1>4a DEF Operands
    <2>. HIDE DEF a
    <2>2. CASE i.op = "BALANCE"
      <3>1. r = balance_(v, a, known, read)
        BY <2>2
      <3>2. balance_(v, a, known, read) \in Operands
        BY <1>2, <2>1, WordType DEF balance_, Operands
      <3>3. ~cond => balance_(v, a, known, read).v = v
        BY <2>2 DEF balance_
      <3>. QED
        BY <3>1, <3>2, <3>3
    <2>3. CASE i.op = "EXTCODESIZE"
      <3>1. r = extcodesize_(v, a, known, form)
        BY <2>3
      <3>2. extcodesize_(v, a, known, form) \in Operands
        BY <1>2, HalfLength, ConstType DEF extcodesize_
      <3>3. ~cond => extcodesize_(v, a, known, form).v = v
        BY <1>2, <2>3, HalfLength, ConstType DEF extcodesize_
      <3>. QED
        BY <3>1, <3>2, <3>3
    <2>4. CASE i.op = "EXTCODEHASH"
      <3>1. r = extcodehash_(v, a)
        BY <2>4
      <3>2. extcodehash_(v, a) \in Operands /\ (~a.sym => extcodehash_(v, a).v = v)
        BY <1>2, ConstType, WordType DEF extcodehash_
      <3>. QED
        BY <2>4, <3>1, <3>2
    <2>5. CASE i.op = "BLOCKHASH"
      <3>1. r = blockhash_(v)
        BY <2>5
      <3>. QED
        BY <1>2, <3>1, ConstType DEF blockhash_
    <2>. QED
      BY <1>1, <2>2, <2>3, <2>4, <2>5 DEF Running
  <1>. HIDE DEF r
  <1>5. ASSUME 1 <= Len(m.stack)
        PROVE  /\ MachineType(Push(Pop(m, 1), r))
               /\ EvmShape(Part(Push(Pop(e, 1), v), cond))
               /\ Agree(Push(Pop(m, 1), r), Part(Push(Pop(e, 1), v), cond))
    <2>1. MachineType(Pop(m, 1)) /\ EvmShape(Pop(e, 1)) /\ Agree(Pop(m, 1), Pop(e, 1))
      BY <1>3, <1>5, PopAgree
    <2>2. MachineType(Push(Pop(m, 1), r)) /\ EvmShape(Push(Pop(e, 1), v))
      BY <1>4a, <1>5, <2>1, PushType, EvmPushIs
    <2>3. ~cond => Agree(Push(Pop(m, 1), r), Push(Pop(e, 1), v))
      BY <1>4a, <1>5, <2>1, PushAgree
    <2>4. cond \in BOOLEAN
      OBVIOUS
    <2>. HIDE DEF cond
    <2>. QED
      BY <2>2, <2>3, <2>4, PartAgree
  <1>. HIDE DEF cond
  <1>. QED
    BY <1>2, <1>4, <1>5, StraightKeeps

-------------------------------------------------------------------------------
(* The instructions that use the memory *)

Sizes == [v : Nat, sym : BOOLEAN]

LEMMA SizeType ==
  /\ Operands \subseteq Sizes
  /\ \A n \in Nat : Const(n) \in Sizes /\ Const(n).v = n /\ Const(n).sym = FALSE
  BY WordType DEF Operands, Sizes, Const

LEMMA EvmExtendAgree ==
  ASSUME NEW s, NEW x, EvmShape(x), Agree(s, x), NEW start, NEW size
  PROVE  EvmShape(EvmExtend(x, start, size)) /\ Agree(s, EvmExtend(x, start, size))
  <1> DEFINE y == EvmExtend(x, start, size)
  <1>1. /\ EvmShape(y) /\ y.status = x.status
        /\ y.pc = x.pc /\ y.stack = x.stack /\ y.subs = x.subs /\ y.mem = x.mem
    BY EvmExtendIs
  <1>. HIDE DEF y
  <1>2. Agree(s, y)
    BY <1>1 DEF Agree, Same, SameMemory
  <1>. QED
    BY <1>1, <1>2 DEF y

LEMMA AsideType ==
  ASSUME NEW s, MachineType(s), NEW w \in Operands
  PROVE  MachineType([s EXCEPT !.aside = @ \cup {w}])
  <1> DEFINE t == [s EXCEPT !.aside = @ \cup {w}]
  <1>1. MachineShape(s) /\ s.aside \subseteq Operands
    BY DEF MachineType
  <1>2. MachineShape(t)
    BY <1>1 DEF MachineShape
  <1>3. /\ t.aside = s.aside \cup {w} /\ t.stack = s.stack /\ t.pc = s.pc
        /\ t.subs = s.subs /\ t.mem = s.mem /\ t.msize = s.msize /\ t.paid = s.paid
    BY <1>1 DEF MachineShape, MachineFields
  <1>. HIDE DEF t
  <1>4. t.aside \subseteq Operands
    BY <1>1, <1>3
  <1>5. MachineType(t)
    BY <1>2, <1>3, <1>4 DEF MachineType, CellsIn, Paid
  <1>. QED
    BY <1>5 DEF t

LEMMA StoreType ==
  ASSUME NEW s, MachineType(s), s.status \in {"run", "OutOfGas"}, NEW start \in Sizes, NEW size \in Sizes,
         NEW k \in Nat, NEW cells \in [1..k -> Cells]
  PROVE  MachineType(setitem(mem_extend(s, start, size), start.v, cells))
  <1>1. start.v \in Nat
    BY DEF Sizes
  <1>2. MachineType(mem_extend(s, start, size))
    BY ExtendContinues DEF Sizes, Continues
  <1>. QED
    BY <1>1, <1>2, SetitemType

\* A copy of k bytes to where the memory was extended by n.
LEMMA StoreAgree ==
  ASSUME NEW s, MachineType(s), s.status = "run", NEW x, EvmShape(x), Agree(s, x),
         NEW start \in Sizes, ~start.sym, NEW n \in Nat, NEW k \in 0..n,
         NEW cells \in [1..k -> Cells], NEW bytes \in [1..n -> Digits], NEW size \in Sizes, ~size.sym, size.v = n,
         \A j \in 1..k : cells[j].v = bytes[j],
         \A j \in 1..n : j > k => bytes[j] = ByteAt(x.mem, start.v + j - 1, 0)
  PROVE  /\ EvmShape(EvmWrite(x, start.v, bytes))
         /\ Agree(setitem(mem_extend(s, start, size), start.v, cells), EvmWrite(x, start.v, bytes))
  <1> DEFINE t == mem_extend(s, start, size)
  <1>1. start.v \in Nat /\ k \in Nat
    BY DEF Sizes
  <1>2. /\ Continues(t, s)
        /\ t.status = "run" => start.v + n <= t.msize
    BY ExtendContinues DEF Sizes
  <1>. HIDE DEF t
  <1>3. MachineType(t) /\ Agree(t, x)
    BY <1>2, ContinuesAgree DEF Continues
  <1>4. t.status = "run" => start.v + k <= t.msize
    BY <1>1, <1>2, <1>3 DEF MachineType
  <1>. QED
    BY <1>1, <1>3, <1>4, WriteAgree DEF t

LEMMA LoadStoreKeeps == ASSUME IInv, LoadStore PROVE IInv'
  <1> DEFINE offset == Arg(1)
  <1> DEFINE word == Arg(2)
  <1> DEFINE low == [v |-> word.v % TwoTo[B], sym |-> word.sym]
  <1> DEFINE far == EArg(1)
  <1> DEFINE s(n, size) == mem_extend(Pop(m, n), offset, Const(size))
  <1>1. PICK i \in get_current_instruction :
          /\ Running({"MLOAD", "MSTORE", "MSTORE8"}, i)
          /\ UNCHANGED world
          /\ i.op = "MLOAD" =>
               \E w \in IF m.stack = <<>> THEN {Const(0)} ELSE get_word_at(s(1, Bytes), offset) :
                 Straight(i, 1, Push(s(1, Bytes), w),
                   Part(Push(EvmExtend(Pop(e, 1), far, Bytes), Joined(Slice(e.mem, far, Bytes, 0))), offset.sym))
          /\ i.op = "MSTORE" =>
               Straight(i, 2, IF s(2, Bytes).status = "run" THEN write_word_at(s(2, Bytes), offset, word)
                              ELSE s(2, Bytes),
                 Part(EvmWrite(Pop(e, 2), far, Split(EArg(2))), offset.sym))
          /\ i.op = "MSTORE8" =>
               Straight(i, 2, IF offset.sym THEN [s(2, 1) EXCEPT !.aside = @ \cup {low}]
                              ELSE setitem(s(2, 1), offset.v, <<low>>),
                 Part(EvmWrite(Pop(e, 2), far, <<EArg(2) % TwoTo[B]>>), offset.sym))
    BY DEF LoadStore
  <1>2. m.status = "run" /\ WorldInv'
    BY <1>1, Kept DEF Running
  <1>3. /\ MachineType(m) /\ EvmShape(e) /\ Agree(m, e) /\ Len(m.stack) \in Nat /\ m.stack \in Seq(Operands)
        /\ \A j \in 1..Len(m.stack) : Arg(j) \in Operands /\ Arg(j).v \in Word /\ Arg(j).v \in Nat
        /\ e.status = "run" => /\ Same(m, e)
                               /\ \A j \in 1..Len(m.stack) : EArg(j) = Arg(j).v
    BY <1>2, Stacked
  <1>4. Bytes \in Nat
    BY Widths DEF Positive
  <1>5. ASSUME NEW n \in 1..Len(m.stack), NEW size \in Nat
        PROVE  /\ MachineType(Pop(m, n)) /\ EvmShape(Pop(e, n)) /\ Agree(Pop(m, n), Pop(e, n))
               /\ Pop(m, n).status = "run" /\ Pop(m, n).mem = m.mem /\ Pop(e, n).mem = e.mem
               /\ Continues(s(n, size), Pop(m, n))
    <2>1. n \in 0..Len(m.stack)
      OBVIOUS
    <2>2. /\ MachineType(Pop(m, n)) /\ EvmShape(Pop(e, n)) /\ Agree(Pop(m, n), Pop(e, n))
          /\ Pop(m, n).status = "run" /\ Pop(m, n).mem = m.mem /\ Pop(e, n).mem = e.mem
      BY <1>2, <1>3, <2>1, PopAgree, PopType, EvmPopIs
    <2>3. 1 \in 1..Len(m.stack)
      BY <1>3
    <2>4. offset \in Sizes /\ Const(size) \in Sizes
      BY <1>3, <2>3, SizeType
    <2>. QED
      BY <2>2, <2>4, ExtendContinues DEF Sizes
  <1>. HIDE DEF s
  <1>6. CASE i.op = "MLOAD"
    <2> DEFINE t == s(1, Bytes)
    <2>1. PICK w \in IF m.stack = <<>> THEN {Const(0)} ELSE get_word_at(t, offset) :
            Straight(i, 1, Push(t, w),
              Part(Push(EvmExtend(Pop(e, 1), far, Bytes), Joined(Slice(e.mem, far, Bytes, 0))), offset.sym))
      BY <1>1, <1>6
    <2>2. ASSUME 1 <= Len(m.stack)
          PROVE  /\ MachineType(Push(t, w))
                 /\ e.status = "run" =>
                      LET x == Part(Push(EvmExtend(Pop(e, 1), far, Bytes), Joined(Slice(e.mem, far, Bytes, 0))), offset.sym)
                      IN  EvmShape(x) /\ Agree(Push(t, w), x)
      <3>1. 1 \in 1..Len(m.stack) /\ m.stack # <<>>
        BY <1>3, <2>2
      <3>2. /\ MachineType(Pop(m, 1)) /\ EvmShape(Pop(e, 1)) /\ Agree(Pop(m, 1), Pop(e, 1))
            /\ Pop(m, 1).mem = m.mem /\ Continues(t, Pop(m, 1))
        BY <1>4, <1>5, <3>1
      <3>. HIDE DEF t
      <3>3. MachineType(t) /\ t.mem = m.mem /\ Agree(t, Pop(e, 1)) /\ t.aside \subseteq Operands
        BY <3>2, ContinuesAgree DEF Continues, MachineType
      <3>4. offset \in Operands /\ offset.v \in Nat /\ offset.sym \in BOOLEAN
        BY <1>3, <3>1 DEF Operands
      <3> DEFINE bytes == Read(t, offset.v, Bytes)
      <3>5. /\ Values(bytes) \in [1..Bytes -> Digits]
            /\ \A x : SameMemory(t, x) => Values(bytes) = Slice(x.mem, offset.v, Bytes, 0)
        BY <1>4, <3>3, <3>4, ReadAgree
      <3>6. ~offset.sym => w = [v |-> Joined(Values(bytes)), sym |-> \E j \in DOMAIN bytes : bytes[j].sym]
        BY <2>1, <3>1 DEF get_word_at
      <3>. HIDE DEF bytes
      <3>7. w \in Operands
        <4>1. CASE offset.sym
          <5>1. w \in {Const(0)} \cup t.aside
            BY <2>1, <3>1, <4>1 DEF get_word_at
          <5>. QED
            BY <3>3, <5>1, ConstType, WordType
        <4>2. CASE ~offset.sym
          <5>1. Joined(Values(bytes)) \in Word
            BY <3>5, JoinedWord
          <5> DEFINE b == \E j \in DOMAIN bytes : bytes[j].sym
          <5>2. b \in BOOLEAN /\ w = [v |-> Joined(Values(bytes)), sym |-> b]
            BY <3>6, <4>2
          <5>. HIDE DEF b
          <5>. QED
            BY <5>1, <5>2 DEF Operands
        <4>. QED
          BY <4>1, <4>2
      <3>8. MachineType(Push(t, w))
        BY <3>3, <3>7, PushType
      <3> DEFINE x == EvmExtend(Pop(e, 1), far, Bytes)
      <3> DEFINE got == Joined(Slice(e.mem, far, Bytes, 0))
      <3>9. EvmShape(x) /\ Agree(t, x)
        BY <3>2, <3>3, EvmExtendAgree
      <3>. HIDE DEF x
      <3>10. EvmShape(Push(x, got))
        BY <3>9, EvmPushIs
      <3>11. ASSUME e.status = "run", ~offset.sym PROVE Agree(Push(t, w), Push(x, got))
        <4>1. far = offset.v /\ SameMemory(m, e)
          BY <1>3, <3>1, <3>11 DEF Same
        <4>2. SameMemory(t, e)
          BY <3>3, <4>1 DEF SameMemory
        <4>3. w.v = got
          BY <3>5, <3>6, <3>11, <4>1, <4>2
        <4>. HIDE DEF got
        <4>. QED
          BY <3>3, <3>7, <3>9, <4>3, PushAgree
      <3>. HIDE DEF got
      <3>12. e.status = "run" => EvmShape(Part(Push(x, got), offset.sym))
                                /\ Agree(Push(t, w), Part(Push(x, got), offset.sym))
        BY <3>4, <3>10, <3>11, PartAgree
      <3>. QED
        BY <3>8, <3>12 DEF x, got
    <2>. HIDE DEF t
    <2>. QED
      BY <1>2, <2>1, <2>2, StraightKeeps
  <1>7. CASE i.op = "MSTORE"
    <2> DEFINE t == s(2, Bytes)
    <2> DEFINE u == IF t.status = "run" THEN write_word_at(t, offset, word) ELSE t
    <2> DEFINE x == EvmWrite(Pop(e, 2), far, Split(EArg(2)))
    <2>1. Straight(i, 2, u, Part(x, offset.sym))
      BY <1>1, <1>7
    <2>2. ASSUME 2 <= Len(m.stack)
          PROVE  MachineType(u) /\ (e.status = "run" => EvmShape(Part(x, offset.sym)) /\ Agree(u, Part(x, offset.sym)))
      <3>1. 1 \in 1..Len(m.stack) /\ 2 \in 1..Len(m.stack)
        BY <1>3, <2>2
      <3>2. /\ MachineType(Pop(m, 2)) /\ EvmShape(Pop(e, 2)) /\ Agree(Pop(m, 2), Pop(e, 2))
            /\ Pop(m, 2).status = "run" /\ Continues(t, Pop(m, 2))
        BY <1>4, <1>5, <3>1
      <3>3. offset \in Operands /\ word \in Operands /\ word.v \in Word /\ offset.sym \in BOOLEAN /\ offset.v \in Nat
        BY <1>3, <3>1 DEF Operands
      <3> DEFINE cells == [j \in 1..Bytes |-> [v |-> Split(word.v)[j], sym |-> word.sym]]
      <3>4. Split(word.v) \in [1..Bytes -> Digits]
        BY <3>3, SplitType
      <3>5. cells \in [1..Bytes -> Cells] /\ \A j \in 1..Bytes : cells[j].v = Split(word.v)[j]
        BY <3>3, <3>4 DEF Cells, Operands
      <3>6. t.status = "run" => u = IF offset.sym THEN [t EXCEPT !.aside = @ \cup {word}] ELSE setitem(t, offset.v, cells)
        BY DEF write_word_at
      <3>7. ~offset.sym => u = setitem(t, offset.v, cells)
        BY <3>6 DEF setitem
      <3>. HIDE DEF cells, t
      <3>8. MachineType(t)
        BY <3>2 DEF Continues
      <3>9. MachineType(u)
        <4>1. MachineType([t EXCEPT !.aside = @ \cup {word}]) /\ MachineType(setitem(t, offset.v, cells))
          BY <1>4, <3>3, <3>5, <3>8, AsideType, SetitemType
        <4>2. t.status # "run" => u = t
          OBVIOUS
        <4>. HIDE DEF u
        <4>. QED
          BY <3>3, <3>6, <3>8, <4>1, <4>2
      <3>. HIDE DEF u
      <3>10. ASSUME e.status = "run" PROVE EvmShape(x) /\ (~offset.sym => Agree(u, x))
        <4>1. far = offset.v /\ EArg(2) = word.v
          BY <1>3, <3>1, <3>10
        <4>2. EvmShape(x)
          BY <1>4, <3>2, <3>3, <3>4, <4>1, EvmWriteIs
        <4>3. ASSUME ~offset.sym PROVE Agree(u, x)
          <5>1. t = mem_extend(Pop(m, 2), offset, Const(Bytes)) /\ u = setitem(t, offset.v, cells)
            BY <3>7, <4>3 DEF t, s
          <5>2. Bytes \in 0..Bytes /\ offset \in Sizes /\ Const(Bytes) \in Sizes /\ Const(Bytes).v = Bytes /\ ~Const(Bytes).sym
            BY <1>4, <3>3, SizeType
          <5>3. Agree(setitem(mem_extend(Pop(m, 2), offset, Const(Bytes)), offset.v, cells),
                      EvmWrite(Pop(e, 2), offset.v, Split(word.v)))
            BY <1>4, <3>2, <3>4, <3>5, <4>3, <5>2, StoreAgree
          <5>. QED
            BY <4>1, <5>1, <5>3
        <4>. QED
          BY <4>2, <4>3
      <3>. HIDE DEF x
      <3>. QED
        BY <3>3, <3>9, <3>10, PartAgree
    <2>. HIDE DEF u, x
    <2>. QED
      BY <1>2, <2>1, <2>2, StraightKeeps
  <1>8. CASE i.op = "MSTORE8"
    <2> DEFINE t == s(2, 1)
    <2> DEFINE u == IF offset.sym THEN [t EXCEPT !.aside = @ \cup {low}] ELSE setitem(t, offset.v, <<low>>)
    <2> DEFINE x == EvmWrite(Pop(e, 2), far, <<EArg(2) % TwoTo[B]>>)
    <2>1. Straight(i, 2, u, Part(x, offset.sym))
      BY <1>1, <1>8
    <2>2. ASSUME 2 <= Len(m.stack)
          PROVE  MachineType(u) /\ (e.status = "run" => EvmShape(Part(x, offset.sym)) /\ Agree(u, Part(x, offset.sym)))
      <3>1. 1 \in 1..Len(m.stack) /\ 2 \in 1..Len(m.stack)
        BY <1>3, <2>2
      <3>2. /\ MachineType(Pop(m, 2)) /\ EvmShape(Pop(e, 2)) /\ Agree(Pop(m, 2), Pop(e, 2))
            /\ Pop(m, 2).status = "run" /\ Continues(t, Pop(m, 2))
        BY <1>5, <3>1
      <3>3. offset \in Operands /\ word \in Operands /\ word.v \in Word /\ offset.sym \in BOOLEAN /\ offset.v \in Nat
        BY <1>3, <3>1 DEF Operands
      <3>4. word.v % TwoTo[B] \in Digits /\ word.v % TwoTo[B] \in Word
        BY <3>3, LowByte
      <3>5. low \in Operands /\ low \in Cells /\ low.v = word.v % TwoTo[B]
        BY <3>3, <3>4 DEF Operands, Cells
      <3>. HIDE DEF low, t
      <3>6. <<low>> \in [1..1 -> Cells] /\ <<low>>[1] = low
        BY <3>5
      <3>7. MachineType(t)
        BY <3>2 DEF Continues
      <3>8. MachineType(u)
        <4>1. MachineType([t EXCEPT !.aside = @ \cup {low}]) /\ MachineType(setitem(t, offset.v, <<low>>))
          BY <3>3, <3>5, <3>6, <3>7, AsideType, SetitemType
        <4>. QED
          BY <4>1
      <3>9. ASSUME e.status = "run" PROVE EvmShape(x) /\ (~offset.sym => Agree(u, x))
        <4> DEFINE b == word.v % TwoTo[B]
        <4>1. far = offset.v /\ <<EArg(2) % TwoTo[B]>> = <<b>>
          BY <1>3, <3>1, <3>9
        <4>2. <<b>> \in [1..1 -> Digits] /\ <<b>>[1] = b
          BY <3>4
        <4>. HIDE DEF b
        <4>3. EvmShape(x)
          BY <3>2, <3>3, <4>1, <4>2, EvmWriteIs
        <4>4. ASSUME ~offset.sym PROVE Agree(u, x)
          <5>1. t = mem_extend(Pop(m, 2), offset, Const(1)) /\ u = setitem(t, offset.v, <<low>>)
            BY <4>4 DEF t, s
          <5>2. 1 \in 0..1 /\ offset \in Sizes /\ Const(1) \in Sizes /\ Const(1).v = 1 /\ ~Const(1).sym
            BY <3>3, SizeType
          <5>3. \A j \in 1..1 : <<low>>[j].v = <<b>>[j] /\ ~(j > 1)
            BY <3>5, <3>6, <4>2 DEF b
          <5>4. Agree(setitem(mem_extend(Pop(m, 2), offset, Const(1)), offset.v, <<low>>),
                      EvmWrite(Pop(e, 2), offset.v, <<b>>))
            BY <3>2, <3>6, <4>2, <4>4, <5>2, <5>3, StoreAgree
          <5>. QED
            BY <4>1, <5>1, <5>4
        <4>. QED
          BY <4>3, <4>4
      <3>. HIDE DEF x, u
      <3>. QED
        BY <3>3, <3>8, <3>9, PartAgree
    <2>. HIDE DEF u, x
    <2>. QED
      BY <1>2, <2>1, <2>2, StraightKeeps
  <1>. QED
    BY <1>1, <1>6, <1>7, <1>8 DEF Running

-------------------------------------------------------------------------------
(* Copies *)

LEMMA BytesRead ==
  /\ Data \in Seq(Digits) /\ CodeBytes \in Seq(Digits)
  /\ Len(Data) \in Nat /\ Len(CodeBytes) \in Nat /\ Len(CodeBytes) < Size /\ Len(Data) < Size \div 2
  /\ Size \div 2 \in Nat /\ Size \div 2 < Size /\ 0 \in Digits
  <1>1. Data \in Seq(Digits) /\ CodeBytes \in Seq(Digits) /\ Len(CodeBytes) < Size /\ Len(Data) < Size \div 2
    BY MachineAssumption DEF Digits
  <1>2. Size \div 2 \in Nat /\ Size \div 2 < Size
    BY Widths DEF Positive
  <1>3. TwoTo[B] \in Positive
    BY Widths, TwoToType DEF Positive
  <1>4. 0 \in Digits
    BY <1>3 DEF Digits, Positive
  <1>. QED
    BY <1>1, <1>2, <1>4

LEMMA RangeType ==
  ASSUME NEW bytes \in Seq(Digits), NEW start \in Nat, NEW n \in Nat
  PROVE  /\ \A i : At(bytes, i) \in Digits
         /\ Range0(bytes, start, n) \in [1..n -> Digits]
         /\ \A j \in 1..n : Range0(bytes, start, n)[j] = At(bytes, start + j - 1)
  <1>1. 0 \in Digits
    BY BytesRead
  <1>. HIDE DEF Digits
  <1>2. \A i \in DOMAIN bytes : bytes[i] \in Digits
    OBVIOUS
  <1>3. \A i : At(bytes, i) \in Digits
    BY <1>1, <1>2 DEF At
  <1>. QED
    BY <1>3 DEF Range0

\* A read that ends in the lower half of the words finds the call data, and zeros behind it.
LEMMA Loaded ==
  ASSUME NEW item \in Word, item < Size \div 2
  PROVE  _load(item) = At(Data, item)
  <1>1. item \in Nat /\ Len(Data) \in Nat /\ Len(Data) < Size \div 2 /\ Size \div 2 \in Nat
    BY BytesRead, WordType
  <1>2. Signed(item) = item /\ Signed(Len(Data)) = Len(Data)
    BY <1>1 DEF Signed
  <1>3. ~(item < Len(Data)) => At(Data, item) = 0
    <2>1. DOMAIN Data = 1..Len(Data)
      BY BytesRead
    <2>. QED
      BY <1>1, <2>1 DEF At
  <1>. QED
    BY <1>2, <1>3 DEF _load

LEMMA CalldataloadKeeps == ASSUME IInv, calldataload PROVE IInv'
  <1> DEFINE v == Arg(1).v
  <1> DEFINE bytes == [j \in 1..Bytes |-> _load(Wrap(v + j - 1))]
  <1> DEFINE true == Joined(Range0(Data, EArg(1), Bytes))
  <1> DEFINE cond == EArg(1) + Bytes > Size \div 2
  <1> DEFINE s == Push(Pop(m, 1), Term(Joined(bytes)))
  <1> DEFINE x == Part(Push(Pop(e, 1), true), cond)
  <1>1. PICK i \in get_current_instruction :
          /\ Running({"CALLDATALOAD"}, i)
          /\ UNCHANGED world
          /\ Straight(i, 1, s, x)
    BY DEF calldataload
  <1>2. m.status = "run" /\ WorldInv'
    BY <1>1, Kept DEF Running
  <1>3. /\ MachineType(m) /\ EvmShape(e) /\ Agree(m, e) /\ Len(m.stack) \in Nat
        /\ \A j \in 1..Len(m.stack) : Arg(j).v \in Word /\ Arg(j).v \in Nat
        /\ e.status = "run" => \A j \in 1..Len(m.stack) : EArg(j) = Arg(j).v
    BY <1>2, Stacked
  <1>4. Bytes \in Nat
    BY Widths DEF Positive
  <1>5. \A i0 : _load(i0) \in Digits
    BY BytesRead, RangeType DEF _load
  <1>6. bytes \in [1..Bytes -> Digits]
    <2>. HIDE DEF Digits
    <2>. QED
      BY <1>5
  <1>7. Term(Joined(bytes)) \in Operands /\ Term(Joined(bytes)).v = Joined(bytes)
    <2>. HIDE DEF bytes
    <2>. QED
      BY <1>6, JoinedWord, ConstType
  <1>8. ASSUME 1 <= Len(m.stack) PROVE MachineType(s) /\ (e.status = "run" => EvmShape(x) /\ Agree(s, x))
    <2>1. 1 \in 1..Len(m.stack) /\ 1 \in 0..Len(m.stack)
      BY <1>3, <1>8
    <2>2. MachineType(Pop(m, 1)) /\ EvmShape(Pop(e, 1)) /\ Agree(Pop(m, 1), Pop(e, 1))
      BY <1>3, <2>1, PopAgree
    <2>3. v \in Nat
      BY <1>3, <2>1
    <2>4. ASSUME e.status = "run", ~cond PROVE true = Joined(bytes)
      <3>1. EArg(1) = v /\ ~(v + Bytes > Size \div 2)
        BY <1>3, <2>1, <2>4
      <3>. HIDE DEF v
      <3>2. ASSUME NEW j \in 1..Bytes PROVE _load(Wrap(v + j - 1)) = At(Data, v + j - 1)
        <4> DEFINE k == v + j - 1
        <4>1. k \in Nat /\ k < Size \div 2 /\ k \in Word
          BY <1>4, <2>3, <3>1, BytesRead, Widths DEF Word, Positive
        <4>. HIDE DEF k
        <4>2. Wrap(k) = k /\ _load(k) = At(Data, k)
          BY <4>1, WrapOfWord, Loaded
        <4>. QED
          BY <4>2 DEF k
      <3>3. bytes = Range0(Data, v, Bytes)
        BY <3>2 DEF Range0
      <3>. QED
        BY <3>1, <3>3
    <2>. HIDE DEF true, bytes
    <2>5. MachineType(s)
      BY <1>7, <2>2, PushType
    <2>6. EvmShape(Push(Pop(e, 1), true))
      BY <2>2, EvmPushIs
    <2>7. e.status = "run" /\ ~cond => Agree(s, Push(Pop(e, 1), true))
      BY <1>7, <2>2, <2>4, PushAgree
    <2>8. cond \in BOOLEAN
      OBVIOUS
    <2>. HIDE DEF s, cond
    <2>. QED
      BY <2>5, <2>6, <2>7, <2>8, PartAgree
  <1>. HIDE DEF s, x
  <1>. QED
    BY <1>1, <1>2, <1>8, StraightKeeps

LEMMA NothingWritten ==
  ASSUME NEW x, EvmShape(x), NEW start \in Nat, NEW bytes, Len(bytes) = 0
  PROVE  LET y == EvmWrite(x, start, bytes)
         IN  /\ EvmShape(y) /\ y.status = x.status /\ y.pc = x.pc /\ y.stack = x.stack /\ y.subs = x.subs
             /\ \A i \in Nat : ByteAt(y.mem, i, 0) = ByteAt(x.mem, i, 0)
  <1> DEFINE z == EvmExtend(x, start, Len(bytes))
  <1> DEFINE y == [z EXCEPT !.mem = Put(@, start, bytes)]
  <1> DEFINE new == [i \in start..(start + Len(bytes) - 1) |-> bytes[i - start + 1]]
  <1>1. /\ EvmShape(z) /\ z.status = x.status
        /\ z.pc = x.pc /\ z.stack = x.stack /\ z.subs = x.subs /\ z.mem = x.mem
    BY EvmExtendIs
  <1>2. EvmWrite(x, start, bytes) = y
    BY DEF EvmWrite
  <1>. HIDE DEF z
  <1>3. EvmShape(y)
    BY <1>1 DEF EvmShape
  <1>4. /\ y.status = x.status /\ y.pc = x.pc /\ y.stack = x.stack /\ y.subs = x.subs
        /\ y.mem = Over(new, x.mem)
    BY <1>1 DEF EvmShape, EvmFields, Put
  <1>. HIDE DEF y
  <1>5. DOMAIN new = {}
    OBVIOUS
  <1>. HIDE DEF new
  <1>6. \A i : ByteAt(Over(new, x.mem), i, 0) = ByteAt(x.mem, i, 0)
    BY <1>5 DEF ByteAt, Over
  <1>. QED
    BY <1>2, <1>3, <1>4, <1>6

LEMMA WriteNothing ==
  ASSUME NEW s, NEW x, EvmShape(x), Agree(s, x), NEW start \in Nat, NEW bytes, bytes \in [1..0 -> Digits]
  PROVE  EvmShape(EvmWrite(x, start, bytes)) /\ Agree(s, EvmWrite(x, start, bytes))
  <1> DEFINE y == EvmWrite(x, start, bytes)
  <1>1. /\ EvmShape(y) /\ y.status = x.status /\ y.pc = x.pc /\ y.stack = x.stack /\ y.subs = x.subs
        /\ \A i \in Nat : ByteAt(y.mem, i, 0) = ByteAt(x.mem, i, 0)
    <2>1. Len(bytes) = 0
      BY Made
    <2>. QED
      BY <2>1, NothingWritten
  <1>. HIDE DEF y
  <1>2. Agree(s, y)
    BY <1>1 DEF Agree, Same, SameMemory
  <1>. QED
    BY <1>1, <1>2 DEF y

LEMMA CalldataCopyIs ==
  ASSUME NEW s, MachineType(s), s.status = "run", NEW mstart \in Sizes, NEW dstart \in Sizes, NEW size \in Sizes
  PROVE  /\ MachineType(_calldata_copy_helper(s, mstart, dstart, size))
         /\ \A x : EvmShape(x) /\ Agree(s, x) /\ ~size.sym /\ (size.v > 0 => ~mstart.sym) =>
              /\ EvmShape(EvmWrite(x, mstart.v, Range0(Data, dstart.v, size.v)))
              /\ Agree(_calldata_copy_helper(s, mstart, dstart, size),
                       EvmWrite(x, mstart.v, Range0(Data, dstart.v, size.v)))
  <1> DEFINE n == IF size.sym THEN SymbolicSize ELSE size.v
  <1> DEFINE taken == Range0(Data, dstart.v, n)
  <1> DEFINE cells == [i \in 1..n |-> Term(taken[i])]
  <1> DEFINE t == _calldata_copy_helper(s, mstart, dstart, size)
  <1>1. t = IF mstart.sym \/ n = 0 THEN s ELSE setitem(mem_extend(s, mstart, Const(n)), mstart.v, cells)
    BY DEF _calldata_copy_helper
  <1>2. n \in Nat /\ mstart.v \in Nat /\ dstart.v \in Nat
    BY MachineAssumption DEF Sizes
  <1>3. ~size.sym => n = size.v
    OBVIOUS
  <1>. HIDE DEF n, t
  <1>4. taken \in [1..n -> Digits]
    BY <1>2, BytesRead, RangeType
  <1>5. ~size.sym => taken = Range0(Data, dstart.v, size.v)
    BY <1>3
  <1>. HIDE DEF taken
  <1>6. cells \in [1..n -> Cells] /\ \A j \in 1..n : cells[j].v = taken[j]
    BY <1>4 DEF Cells, Term
  <1>. HIDE DEF cells
  <1>7. Const(n) \in Sizes /\ Const(n).v = n /\ Const(n).sym = FALSE
    BY <1>2, SizeType
  <1>8. MachineType(setitem(mem_extend(s, mstart, Const(n)), mstart.v, cells))
    BY <1>2, <1>6, <1>7, StoreType
  <1>9. MachineType(t)
    BY <1>1, <1>8
  <1>10. ASSUME NEW x, EvmShape(x), Agree(s, x), ~size.sym, size.v > 0 => ~mstart.sym
         PROVE  EvmShape(EvmWrite(x, mstart.v, taken)) /\ Agree(t, EvmWrite(x, mstart.v, taken))
    <2>1. CASE n = 0
      <3>1. t = s /\ taken \in [1..0 -> Digits]
        BY <1>1, <1>4, <2>1
      <3>. QED
        BY <1>2, <1>10, <3>1, WriteNothing
    <2>2. CASE n # 0
      <3>1. ~mstart.sym /\ t = setitem(mem_extend(s, mstart, Const(n)), mstart.v, cells)
        BY <1>1, <1>2, <1>3, <1>10, <2>2
      <3>2. n \in 0..n /\ \A j \in 1..n : ~(j > n)
        BY <1>2
      <3>. QED
        BY <1>2, <1>4, <1>6, <1>7, <1>10, <3>1, <3>2, StoreAgree
    <2>. QED
      BY <2>1, <2>2
  <1>11. \A x : EvmShape(x) /\ Agree(s, x) /\ ~size.sym /\ (size.v > 0 => ~mstart.sym) =>
           EvmShape(EvmWrite(x, mstart.v, taken)) /\ Agree(t, EvmWrite(x, mstart.v, taken))
    BY <1>10
  <1>. QED
    BY <1>5, <1>9, <1>11 DEF t

LEMMA CalldatacopyKeeps == ASSUME IInv, calldatacopy PROVE IInv'
  <1> DEFINE a == Arg(1)
  <1> DEFINE d == Arg(2)
  <1> DEFINE n == Arg(3)
  <1> DEFINE s == IF kind = "creation" THEN Pop(m, 3) ELSE _calldata_copy_helper(Pop(m, 3), a, d, n)
  <1> DEFINE y == EvmWrite(Pop(e, 3), EArg(1), Range0(Data, EArg(2), EArg(3)))
  <1> DEFINE cond == \/ EArg(3) > 0 /\ (a.sym \/ kind = "creation")
                     \/ n.sym
  <1>1. PICK i \in get_current_instruction :
          /\ Running({"CALLDATACOPY"}, i)
          /\ UNCHANGED world
          /\ Straight(i, 3, s, Part(y, cond))
    BY DEF calldatacopy
  <1>2. m.status = "run" /\ WorldInv'
    BY <1>1, Kept DEF Running
  <1>3. /\ MachineType(m) /\ EvmShape(e) /\ Agree(m, e) /\ Len(m.stack) \in Nat
        /\ \A j \in 1..Len(m.stack) : Arg(j) \in Operands
        /\ e.status = "run" => \A j \in 1..Len(m.stack) : EArg(j) = Arg(j).v
    BY <1>2, Stacked
  <1>4. ASSUME 3 <= Len(m.stack)
        PROVE  MachineType(s) /\ (e.status = "run" => EvmShape(Part(y, cond)) /\ Agree(s, Part(y, cond)))
    <2>1. 1 \in 1..Len(m.stack) /\ 2 \in 1..Len(m.stack) /\ 3 \in 1..Len(m.stack) /\ 3 \in 0..Len(m.stack)
      BY <1>3, <1>4
    <2> DEFINE p == Pop(m, 3)
    <2> DEFINE q == Pop(e, 3)
    <2>2. MachineType(p) /\ EvmShape(q) /\ Agree(p, q) /\ p.status = "run"
      BY <1>2, <1>3, <2>1, PopAgree, PopType
    <2>3. a \in Operands /\ d \in Operands /\ n \in Operands
      BY <1>3, <2>1
    <2>4. a \in Sizes /\ d \in Sizes /\ n \in Sizes /\ a.v \in Nat /\ d.v \in Nat /\ n.v \in Nat
      BY <2>3, SizeType, OperandType
    <2>5. e.status = "run" => EArg(1) = a.v /\ EArg(2) = d.v /\ EArg(3) = n.v
      BY <1>3, <2>1
    <2>. HIDE DEF p, q, a, d, n
    <2>6. s = IF kind = "creation" THEN p ELSE _calldata_copy_helper(p, a, d, n)
      BY DEF p, a, d, n
    <2> DEFINE r == EvmWrite(q, a.v, Range0(Data, d.v, n.v))
    <2>7. e.status = "run" => y = r
      BY <2>5 DEF q
    <2>8. e.status = "run" /\ ~cond => ~n.sym /\ (n.v > 0 => ~a.sym /\ kind # "creation")
      BY <2>5 DEF a, n
    <2>9. cond \in BOOLEAN
      BY <2>3 DEF Operands, n
    <2>. HIDE DEF s, y, cond
    <2>10. Range0(Data, d.v, n.v) \in [1..n.v -> Digits]
      BY <2>4, BytesRead, RangeType
    <2>11. EvmShape(r)
      BY <2>2, <2>4, <2>10, EvmWriteIs
    <2>12. MachineType(s)
      BY <2>2, <2>4, <2>6, CalldataCopyIs
    <2>13. ASSUME e.status = "run", ~cond PROVE Agree(s, r)
      <3>1. CASE kind = "creation"
        <4>1. n.v = 0 /\ s = p
          BY <2>4, <2>6, <2>8, <2>13, <3>1
        <4>2. Range0(Data, d.v, n.v) \in [1..0 -> Digits]
          BY <2>10, <4>1
        <4>. QED
          BY <2>2, <2>4, <2>13, <4>1, <4>2, WriteNothing
      <3>2. CASE kind # "creation"
        <4>1. s = _calldata_copy_helper(p, a, d, n) /\ ~n.sym /\ (n.v > 0 => ~a.sym)
          BY <2>6, <2>8, <2>13, <3>2
        <4>. QED
          BY <2>2, <2>4, <4>1, CalldataCopyIs
      <3>. QED
        BY <3>1, <3>2
    <2>. HIDE DEF r
    <2>. QED
      BY <2>7, <2>9, <2>11, <2>12, <2>13, PartAgree
  <1>. HIDE DEF s, y, cond
  <1>. QED
    BY <1>1, <1>2, <1>4, StraightKeeps

\* The constructor's arguments follow its code.
LEMMA Behind ==
  LET all == CodeBytes \o Data
  IN  /\ all \in Seq(Digits)
      /\ \A i \in Nat : i < Len(CodeBytes) => At(all, i) = At(CodeBytes, i)
      /\ \A i \in Nat : At(all, Len(CodeBytes) + i) = At(Data, i)
  <1> DEFINE all == CodeBytes \o Data
  <1> DEFINE l == Len(CodeBytes)
  <1> DEFINE d == Len(Data)
  <1>1. CodeBytes \in Seq(Digits) /\ Data \in Seq(Digits) /\ l \in Nat /\ d \in Nat
    BY BytesRead
  <1>2. DOMAIN CodeBytes = 1..l /\ DOMAIN Data = 1..d
    BY <1>1
  <1>3. /\ all \in Seq(Digits) /\ DOMAIN all = 1..(l + d)
        /\ \A i \in 1..(l + d) : all[i] = IF i <= l THEN CodeBytes[i] ELSE Data[i - l]
    BY <1>1
  <1>. HIDE DEF all, l, d
  <1>4. ASSUME NEW i \in Nat, i < l PROVE At(all, i) = At(CodeBytes, i)
    <2>1. i + 1 \in 1..(l + d) /\ i + 1 \in 1..l /\ i + 1 <= l
      BY <1>1, <1>4
    <2>. QED
      BY <1>2, <1>3, <2>1 DEF At
  <1>5. ASSUME NEW i \in Nat PROVE At(all, l + i) = At(Data, i)
    <2> DEFINE k == l + i + 1
    <2>1. (k \in 1..(l + d) <=> i + 1 \in 1..d) /\ ~(k <= l) /\ k - l = i + 1
      BY <1>1
    <2>2. (l + i) + 1 = k
      BY <1>1
    <2>. HIDE DEF k
    <2>. QED
      BY <1>2, <1>3, <2>1, <2>2 DEF At
  <1>. QED
    BY <1>3, <1>4, <1>5 DEF all, l

LEMMA CodeCopyIs ==
  ASSUME NEW s, MachineType(s), s.status = "run", NEW true \in Seq(Digits),
         NEW mo \in Sizes, NEW co \in Sizes, NEW size \in Sizes,
         \A i \in Nat : i < Len(CodeBytes) => At(true, i) = At(CodeBytes, i)
  PROVE  LET t == _code_copy_helper(s, CodeBytes, true, mo, co, size)
             bytes == Range0(true, co.v, size.v)
         IN  /\ MachineType(t)
             /\ \A x : /\ EvmShape(x) /\ Agree(s, x) /\ ~size.sym /\ (size.v > 0 => ~mo.sym)
                       /\ ~co.sym => \A j \in 1..size.v : co.v + j > Len(CodeBytes) =>
                                       bytes[j] = ByteAt(x.mem, mo.v + j - 1, 0)
                       => EvmShape(EvmWrite(x, mo.v, bytes)) /\ Agree(t, EvmWrite(x, mo.v, bytes))
  <1> DEFINE l == Len(CodeBytes)
  <1> DEFINE n == IF co.v >= l THEN 0 ELSE IF co.v + size.v > l THEN l - co.v ELSE size.v
  <1> DEFINE one == <<Term(At(true, co.v))>>
  <1> DEFINE fresh == [i \in 1..size.v |-> Term(At(true, co.v + i - 1))]
  <1> DEFINE known == [i \in 1..n |-> Const(At(CodeBytes, co.v + i - 1))]
  <1> DEFINE t == _code_copy_helper(s, CodeBytes, true, mo, co, size)
  <1> DEFINE bytes == Range0(true, co.v, size.v)
  <1>1. t = IF mo.sym THEN s
            ELSE IF size.sym THEN setitem(mem_extend(s, mo, Const(1)), mo.v, one)
            ELSE IF co.sym THEN setitem(mem_extend(s, mo, size), mo.v, fresh)
            ELSE setitem(mem_extend(s, mo, size), mo.v, known)
    BY DEF _code_copy_helper
  <1>2. mo.v \in Nat /\ co.v \in Nat /\ size.v \in Nat /\ l \in Nat
    BY BytesRead DEF Sizes
  <1>. HIDE DEF l
  <1>3. n \in 0..size.v /\ \A j \in 1..size.v : j <= n <=> co.v + j <= l
    <2> DEFINE c == co.v
    <2> DEFINE z == size.v
    <2>1. c \in Nat /\ z \in Nat /\ l \in Nat
      BY <1>2
    <2>2. n = IF c >= l THEN 0 ELSE IF c + z > l THEN l - c ELSE z
      OBVIOUS
    <2>. HIDE DEF c, z, n
    <2>3. n \in 0..z /\ \A j \in 1..z : j <= n <=> c + j <= l
      BY <2>1, <2>2
    <2>. QED
      BY <2>3 DEF c, z
  <1>4. /\ \A i : At(true, i) \in Digits /\ At(CodeBytes, i) \in Digits
        /\ bytes \in [1..size.v -> Digits] /\ \A j \in 1..size.v : bytes[j] = At(true, co.v + j - 1)
    BY <1>2, BytesRead, RangeType
  <1>. HIDE DEF n, t, bytes
  <1>5. one \in [1..1 -> Cells]
    <2> DEFINE c == Term(At(true, co.v))
    <2>1. c \in Cells
      BY <1>4 DEF Cells, Term
    <2>. HIDE DEF c
    <2>2. <<c>> \in [1..1 -> Cells]
      BY <2>1
    <2>. QED
      BY <2>2 DEF c
  <1>6. fresh \in [1..size.v -> Cells] /\ \A j \in 1..size.v : fresh[j].v = bytes[j]
    <2>1. \A i : Term(At(true, i)) \in Cells /\ Term(At(true, i)).v = At(true, i)
      BY <1>4 DEF Cells, Term
    <2>. QED
      BY <1>4, <2>1
  <1>7. known \in [1..n -> Cells] /\ \A j \in 1..n : known[j].v = bytes[j]
    <2>1. \A i : Const(At(CodeBytes, i)) \in Cells /\ Const(At(CodeBytes, i)).v = At(CodeBytes, i)
      BY <1>4 DEF Cells, Const
    <2>2. ASSUME NEW j \in 1..n PROVE bytes[j] = At(CodeBytes, co.v + j - 1)
      <3>1. j \in 1..size.v /\ co.v + j <= l
        BY <1>2, <1>3
      <3>2. co.v + j - 1 \in Nat /\ co.v + j - 1 < Len(CodeBytes)
        BY <1>2, <3>1 DEF l
      <3>3. At(true, co.v + j - 1) = At(CodeBytes, co.v + j - 1)
        BY <3>2
      <3>. QED
        BY <1>4, <3>1, <3>3
    <2>. QED
      BY <2>1, <2>2
  <1>. HIDE DEF one, fresh, known
  <1>8. MachineType(t)
    <2>1. Const(1) \in Sizes
      BY SizeType
    <2>2. MachineType(setitem(mem_extend(s, mo, Const(1)), mo.v, one))
      BY <1>5, <2>1, StoreType
    <2>3. MachineType(setitem(mem_extend(s, mo, size), mo.v, fresh))
      BY <1>2, <1>6, StoreType
    <2>4. MachineType(setitem(mem_extend(s, mo, size), mo.v, known))
      BY <1>3, <1>7, StoreType
    <2>. QED
      BY <1>1, <2>2, <2>3, <2>4
  <1>9. ASSUME NEW x, EvmShape(x), Agree(s, x), ~size.sym, size.v > 0 => ~mo.sym,
               ~co.sym => \A j \in 1..size.v : co.v + j > l => bytes[j] = ByteAt(x.mem, mo.v + j - 1, 0)
        PROVE  EvmShape(EvmWrite(x, mo.v, bytes)) /\ Agree(t, EvmWrite(x, mo.v, bytes))
    <2>1. CASE mo.sym
      <3>1. t = s /\ size.v = 0
        BY <1>1, <1>2, <1>9, <2>1
      <3>2. bytes \in [1..0 -> Digits]
        BY <1>4, <3>1
      <3>. QED
        BY <1>2, <1>9, <3>1, <3>2, WriteNothing
    <2>2. CASE ~mo.sym /\ co.sym
      <3>1. t = setitem(mem_extend(s, mo, size), mo.v, fresh)
        BY <1>1, <1>9, <2>2
      <3>2. size.v \in 0..size.v
        BY <1>2
      <3>3. \A j \in 1..size.v : j > size.v => bytes[j] = ByteAt(x.mem, mo.v + j - 1, 0)
        BY <1>2
      <3>. QED
        BY <1>2, <1>4, <1>6, <1>9, <2>2, <3>1, <3>2, <3>3, StoreAgree
    <2>3. CASE ~mo.sym /\ ~co.sym
      <3>1. t = setitem(mem_extend(s, mo, size), mo.v, known)
        BY <1>1, <1>9, <2>3
      <3>2. ASSUME NEW j \in 1..size.v, j > n PROVE bytes[j] = ByteAt(x.mem, mo.v + j - 1, 0)
        <4>1. co.v + j > l
          BY <1>2, <1>3, <3>2
        <4>. QED
          BY <1>9, <2>3, <4>1
      <3>. QED
        BY <1>2, <1>3, <1>4, <1>7, <1>9, <2>3, <3>1, <3>2, StoreAgree
    <2>. QED
      BY <2>1, <2>2, <2>3
  <1>10. \A x : /\ EvmShape(x) /\ Agree(s, x) /\ ~size.sym /\ (size.v > 0 => ~mo.sym)
                /\ ~co.sym => \A j \in 1..size.v : co.v + j > l => bytes[j] = ByteAt(x.mem, mo.v + j - 1, 0)
                => EvmShape(EvmWrite(x, mo.v, bytes)) /\ Agree(t, EvmWrite(x, mo.v, bytes))
    BY <1>9
  <1>. QED
    BY <1>8, <1>10 DEF t, bytes, l

LEMMA CodecopyKeeps == ASSUME IInv, codecopy PROVE IInv'
  <1>1. PICK i \in get_current_instruction, loaded \in BOOLEAN :
          /\ Running({"CODECOPY", "EXTCODECOPY"}, i)
          /\ UNCHANGED world
          /\ LET ext == i.op = "EXTCODECOPY"
                 k == IF ext THEN 1 ELSE 0
                 a == Arg(1 + k)  c == Arg(2 + k)  n == Arg(3 + k)
                 true == IF kind = "creation" /\ ~ext THEN CodeBytes \o Data ELSE CodeBytes
                 skipped == ext /\ extcodecopy_unknown(loaded)
                 arguments == kind = "creation" /\ ~ext /\ ~c.sym /\ Signed(c.v) >= Len(CodeBytes)
                 bytes == Range0(true, EArg(2 + k), EArg(3 + k))
                 s == Pop(m, 3 + k)
             IN  Straight(i, 3 + k,
                   IF skipped THEN s
                   ELSE IF arguments THEN _calldata_copy_helper(s, a, Const(c.v - Len(CodeBytes)), n)
                   ELSE _code_copy_helper(s, CodeBytes, true, a, c, n),
                   Part(EvmWrite(Pop(e, 3 + k), EArg(1 + k), bytes),
                        \/ n.sym
                        \/ EArg(3 + k) > 0 /\ (skipped \/ a.sym)
                        \/ ~arguments /\ ~c.sym /\ \E j \in DOMAIN bytes :
                             /\ EArg(2 + k) + j > Len(CodeBytes)
                             /\ bytes[j] # ByteAt(e.mem, EArg(1 + k) + j - 1, 0)))
    BY DEF codecopy
  <1> DEFINE ext == i.op = "EXTCODECOPY"
  <1> DEFINE k == IF ext THEN 1 ELSE 0
  <1> DEFINE a == Arg(1 + k)
  <1> DEFINE c == Arg(2 + k)
  <1> DEFINE n == Arg(3 + k)
  <1> DEFINE true == IF kind = "creation" /\ ~ext THEN CodeBytes \o Data ELSE CodeBytes
  <1> DEFINE skipped == ext /\ extcodecopy_unknown(loaded)
  <1> DEFINE arguments == kind = "creation" /\ ~ext /\ ~c.sym /\ Signed(c.v) >= Len(CodeBytes)
  <1> DEFINE bytes == Range0(true, EArg(2 + k), EArg(3 + k))
  <1> DEFINE p == Pop(m, 3 + k)
  <1> DEFINE q == Pop(e, 3 + k)
  <1> DEFINE s == IF skipped THEN p
                  ELSE IF arguments THEN _calldata_copy_helper(p, a, Const(c.v - Len(CodeBytes)), n)
                  ELSE _code_copy_helper(p, CodeBytes, true, a, c, n)
  <1> DEFINE cond == \/ n.sym
                     \/ EArg(3 + k) > 0 /\ (skipped \/ a.sym)
                     \/ ~arguments /\ ~c.sym /\ \E j \in DOMAIN bytes :
                          /\ EArg(2 + k) + j > Len(CodeBytes)
                          /\ bytes[j] # ByteAt(e.mem, EArg(1 + k) + j - 1, 0)
  <1> DEFINE y == EvmWrite(q, EArg(1 + k), bytes)
  <1>2. Straight(i, 3 + k, s, Part(y, cond))
    BY <1>1
  <1>3. m.status = "run" /\ WorldInv'
    BY <1>1, Kept DEF Running
  <1>4. k \in 0..1 /\ (arguments => kind = "creation" /\ ~ext /\ ~c.sym /\ Signed(c.v) >= Len(CodeBytes))
    OBVIOUS
  <1>5. /\ true \in Seq(Digits)
        /\ \A j \in Nat : j < Len(CodeBytes) => At(true, j) = At(CodeBytes, j)
        /\ kind = "creation" /\ ~ext => true = CodeBytes \o Data
    BY Behind, BytesRead
  <1>6. cond \in BOOLEAN
    OBVIOUS
  <1>. HIDE DEF k, true, skipped, arguments, ext, cond
  <1>7. /\ MachineType(m) /\ EvmShape(e) /\ Agree(m, e) /\ Len(m.stack) \in Nat
        /\ \A j \in 1..Len(m.stack) : Arg(j) \in Operands
        /\ e.status = "run" => \A j \in 1..Len(m.stack) : EArg(j) = Arg(j).v
    BY <1>3, Stacked
  <1>8. ASSUME 3 + k <= Len(m.stack)
        PROVE  MachineType(s) /\ (e.status = "run" => EvmShape(Part(y, cond)) /\ Agree(s, Part(y, cond)))
    <2>1. /\ 1 + k \in 1..Len(m.stack) /\ 2 + k \in 1..Len(m.stack) /\ 3 + k \in 1..Len(m.stack)
          /\ 3 + k \in 0..Len(m.stack)
      BY <1>4, <1>7, <1>8
    <2>2. MachineType(p) /\ EvmShape(q) /\ Agree(p, q) /\ p.status = "run" /\ q.mem = e.mem
      BY <1>3, <1>7, <2>1, PopAgree, PopType, EvmPopIs
    <2>3. a \in Operands /\ c \in Operands /\ n \in Operands
      BY <1>7, <2>1
    <2>4. /\ a \in Sizes /\ c \in Sizes /\ n \in Sizes /\ a.v \in Nat /\ c.v \in Nat /\ n.v \in Nat
          /\ c.v \in Word
      BY <2>3, SizeType, OperandType
    <2>5. e.status = "run" => EArg(1 + k) = a.v /\ EArg(2 + k) = c.v /\ EArg(3 + k) = n.v
      BY <1>7, <2>1
    <2> DEFINE got == Range0(true, c.v, n.v)
    <2>6. e.status = "run" => y = EvmWrite(q, a.v, got)
      BY <2>5
    <2>7. got \in [1..n.v -> Digits] /\ \A j \in 1..n.v : got[j] = At(true, c.v + j - 1)
      BY <1>5, <2>4, RangeType
    <2>8. e.status = "run" /\ ~cond =>
            /\ ~n.sym /\ (n.v > 0 => ~skipped /\ ~a.sym)
            /\ ~arguments /\ ~c.sym => \A j \in 1..n.v : c.v + j > Len(CodeBytes) =>
                                         got[j] = ByteAt(q.mem, a.v + j - 1, 0)
      <3>1. ASSUME e.status = "run", ~cond PROVE bytes = got /\ DOMAIN got = 1..n.v
        BY <2>5, <2>7, <3>1
      <3>2. ASSUME e.status = "run", ~cond
            PROVE  /\ ~n.sym /\ ~(n.v > 0 /\ (skipped \/ a.sym))
                   /\ ~(~arguments /\ ~c.sym /\ \E j \in 1..n.v :
                          c.v + j > Len(CodeBytes) /\ got[j] # ByteAt(e.mem, a.v + j - 1, 0))
        <4>. HIDE DEF got, bytes
        <4>. QED
          BY <2>5, <3>1, <3>2 DEF cond
      <3>. HIDE DEF got
      <3>. QED
        BY <2>2, <3>2
    <2>. HIDE DEF a, c, n, p, q, bytes, y
    <2>9. MachineType(s) /\ (e.status = "run" /\ ~cond => Agree(s, EvmWrite(q, a.v, got)))
      <3>1. CASE skipped
        <4>1. s = p
          BY <3>1
        <4>2. ASSUME e.status = "run", ~cond PROVE Agree(s, EvmWrite(q, a.v, got))
          <5>1. n.v = 0
            BY <2>4, <2>8, <3>1, <4>2
          <5>2. got \in [1..0 -> Digits]
            BY <2>7, <5>1
          <5>. HIDE DEF got, s
          <5>. QED
            BY <2>2, <2>4, <4>1, <5>2, WriteNothing
        <4>. QED
          BY <2>2, <4>1, <4>2
      <3>2. CASE ~skipped /\ arguments
        <4> DEFINE d == Const(c.v - Len(CodeBytes))
        <4>1. s = _calldata_copy_helper(p, a, d, n)
          BY <3>2
        <4>2. true = CodeBytes \o Data /\ Signed(c.v) >= Len(CodeBytes) /\ Len(CodeBytes) \in Nat
          BY <1>4, <1>5, <3>2, BytesRead
        <4>3. c.v - Len(CodeBytes) \in Nat
          <5>1. Signed(c.v) >= 0
            BY <2>4, <4>2, SignedType
          <5>2. Signed(c.v) = c.v
            BY <2>4, <5>1, SignedNot
          <5>. QED
            BY <2>4, <4>2, <5>2
        <4>4. d \in Sizes /\ d.v = c.v - Len(CodeBytes)
          BY <4>3, SizeType
        <4>. HIDE DEF d
        <4>5. got = Range0(Data, d.v, n.v)
          <5>1. ASSUME NEW j \in 1..n.v PROVE At(true, c.v + j - 1) = At(Data, d.v + j - 1)
            <6> DEFINE u == d.v
            <6> DEFINE v == c.v
            <6> DEFINE l == Len(CodeBytes)
            <6>1. u \in Nat /\ v \in Nat /\ l \in Nat /\ u = v - l /\ j \in Nat /\ j > 0
              BY <2>4, <4>2, <4>3, <4>4
            <6>. HIDE DEF u, v, l
            <6>2. u + j - 1 \in Nat /\ v + j - 1 = l + (u + j - 1)
              BY <6>1
            <6>3. d.v + j - 1 \in Nat /\ c.v + j - 1 = Len(CodeBytes) + (d.v + j - 1)
              BY <6>2 DEF u, v, l
            <6>. QED
              BY <4>2, <6>3, Behind
          <5>. QED
            BY <5>1 DEF Range0
        <4>. HIDE DEF got, s
        <4>6. MachineType(s)
          BY <2>2, <2>4, <4>1, <4>4, CalldataCopyIs
        <4>7. ASSUME e.status = "run", ~cond PROVE Agree(s, EvmWrite(q, a.v, got))
          <5>1. ~n.sym /\ (n.v > 0 => ~a.sym)
            BY <2>8, <4>7
          <5>2. Agree(_calldata_copy_helper(p, a, d, n), EvmWrite(q, a.v, Range0(Data, d.v, n.v)))
            BY <2>2, <2>4, <4>4, <5>1, CalldataCopyIs
          <5>. QED
            BY <4>1, <4>5, <5>2
        <4>. QED
          BY <4>6, <4>7
      <3>3. CASE ~skipped /\ ~arguments
        <4>1. s = _code_copy_helper(p, CodeBytes, true, a, c, n)
          BY <3>3
        <4>. HIDE DEF s
        <4>2. MachineType(s)
          BY <1>5, <2>2, <2>4, <4>1, CodeCopyIs
        <4>3. ASSUME e.status = "run", ~cond PROVE Agree(s, EvmWrite(q, a.v, got))
          <5>1. /\ ~n.sym /\ (n.v > 0 => ~a.sym)
                /\ ~c.sym => \A j \in 1..n.v : c.v + j > Len(CodeBytes) => got[j] = ByteAt(q.mem, a.v + j - 1, 0)
            <6>. HIDE DEF got
            <6>. QED
              BY <2>8, <3>3, <4>3
          <5>2. Agree(_code_copy_helper(p, CodeBytes, true, a, c, n), EvmWrite(q, a.v, got))
            BY <1>5, <2>2, <2>4, <5>1, CodeCopyIs
          <5>. QED
            BY <4>1, <5>2
        <4>. QED
          BY <4>2, <4>3
      <3>. QED
        BY <3>1, <3>2, <3>3
    <2>. HIDE DEF got, s
    <2>10. EvmShape(EvmWrite(q, a.v, got))
      BY <2>2, <2>4, <2>7, EvmWriteIs
    <2>. QED
      BY <1>6, <2>6, <2>9, <2>10, PartAgree
  <1>. HIDE DEF s, y
  <1>9. 3 + k \in Nat
    BY <1>4
  <1>. QED
    BY <1>2, <1>3, <1>8, <1>9, StraightKeeps

LEMMA Sha3Keeps == ASSUME IInv, sha3 PROVE IInv'
  <1> DEFINE index == Arg(1)
  <1> DEFINE size == Arg(2)
  <1> DEFINE n == IF size.sym THEN 2 * Bytes ELSE size.v
  <1> DEFINE gas == 30 + 6 * Ceil(n)
  <1> DEFINE r == Charge(Pop(m, 2), <<gas, gas>>)
  <1> DEFINE s == mem_extend(check_gas_usage_limit(r), index, Const(n))
  <1> DEFINE bytes == IF index.sym THEN [j \in 1..n |-> Const(0)] ELSE Read(s, index.v, n)
  <1> DEFINE w == [v |-> Hash(Values(bytes)), sym |-> \E j \in DOMAIN bytes : bytes[j].sym]
  <1> DEFINE other == size.sym /\ size.v # n
  <1> DEFINE t == IF other THEN Stop(s, "infeasible") ELSE Advance(Push(s, w))
  <1> DEFINE x == EvmExtend(Pop(e, 2), EArg(1), EArg(2))
  <1> DEFINE got == Hash(Slice(e.mem, EArg(1), EArg(2), 0))
  <1> DEFINE cond == index.sym \/ other
  <1> DEFINE y == Part(Advance(Push(x, got)), cond)
  <1>1. PICK i \in get_current_instruction :
          /\ Running({"SHA3"}, i)
          /\ UNCHANGED world
          /\ Perform(i, 2, t, y)
    BY DEF sha3
  <1>2. m.status = "run" /\ WorldInv'
    BY <1>1, Kept DEF Running
  <1>3. /\ MachineType(m) /\ EvmShape(e) /\ Agree(m, e) /\ Len(m.stack) \in Nat
        /\ \A j \in 1..Len(m.stack) : Arg(j) \in Operands
        /\ e.status = "run" => Same(m, e) /\ \A j \in 1..Len(m.stack) : EArg(j) = Arg(j).v
    BY <1>2, Stacked
  <1>4. ASSUME 2 <= Len(m.stack)
        PROVE  MachineType(t) /\ (e.status = "run" => EvmShape(y) /\ Agree(t, y))
    <2>1. 1 \in 1..Len(m.stack) /\ 2 \in 1..Len(m.stack) /\ 2 \in 0..Len(m.stack)
      BY <1>3, <1>4
    <2>2. /\ MachineType(Pop(m, 2)) /\ EvmShape(Pop(e, 2)) /\ Agree(Pop(m, 2), Pop(e, 2))
          /\ Pop(m, 2).status = "run" /\ Pop(m, 2).mem = m.mem
      BY <1>2, <1>3, <2>1, PopAgree, PopType
    <2>3. index \in Operands /\ size \in Operands
      BY <1>3, <2>1
    <2>4. index \in Sizes /\ index.v \in Nat /\ size.v \in Nat /\ index.sym \in BOOLEAN /\ size.sym \in BOOLEAN
      BY <2>3, SizeType, OperandType
    <2>5. n \in Nat /\ (~cond => n = size.v)
      BY <2>4, Widths DEF Positive
    <2>6. e.status = "run" => EArg(1) = index.v /\ EArg(2) = size.v
      BY <1>3, <2>1
    <2>7. cond \in BOOLEAN /\ (~cond => ~index.sym /\ ~other)
      BY <2>4
    <2>. HIDE DEF n, index, size, gas
    <2>8. Continues(r, Pop(m, 2)) /\ r.status = "run"
      BY <2>2, ChargeContinues
    <2>. HIDE DEF r
    <2>9. Continues(check_gas_usage_limit(r), r)
      BY <2>8, CheckContinues DEF Continues
    <2>10. MachineType(check_gas_usage_limit(r)) /\ check_gas_usage_limit(r).status \in {"run", "OutOfGas"}
      BY <2>8, <2>9 DEF Continues
    <2>11. Const(n) \in Sizes
      BY <2>5, SizeType
    <2>12. Continues(s, check_gas_usage_limit(r))
      BY <2>4, <2>10, <2>11, ExtendContinues DEF Sizes
    <2>. HIDE DEF s
    <2>13. Continues(s, Pop(m, 2))
      BY <2>8, <2>9, <2>12, ContinuesTwice
    <2>14. MachineType(s) /\ s.mem = m.mem /\ Agree(s, Pop(e, 2))
      BY <2>2, <2>13, ContinuesAgree DEF Continues
    <2>15. Values(bytes) \in [1..n -> Digits]
      <3>1. CASE index.sym
        <4>1. Values(bytes) = [j \in 1..n |-> 0]
          BY <3>1 DEF Values, Const
        <4>. QED
          BY <4>1, BytesRead
      <3>2. CASE ~index.sym
        <4>1. bytes = Read(s, index.v, n)
          BY <3>2
        <4>. QED
          BY <2>4, <2>5, <2>14, <4>1, ReadAgree
      <3>. QED
        BY <3>1, <3>2
    <2>16. e.status = "run" /\ ~cond => Values(bytes) = Slice(e.mem, EArg(1), EArg(2), 0)
      <3> SUFFICES ASSUME e.status = "run", ~cond PROVE Values(bytes) = Slice(e.mem, index.v, n, 0)
        BY <2>5, <2>6
      <3>1. bytes = Read(s, index.v, n)
        BY <2>7
      <3>2. SameMemory(s, e)
        BY <1>3, <2>14 DEF Same, SameMemory
      <3>. QED
        BY <2>4, <2>5, <2>14, <3>1, <3>2, ReadAgree
    <2> DEFINE b == \E j \in DOMAIN bytes : bytes[j].sym
    <2>17. w = [v |-> Hash(Values(bytes)), sym |-> b] /\ b \in BOOLEAN
      OBVIOUS
    <2>. HIDE DEF bytes, w, b
    <2>18. Hash(Values(bytes)) \in Word
      <3>1. Joined(Values(bytes)) \in Int /\ Len(Values(bytes)) \in Int
        <4>1. B * n \in Nat
          BY <2>5, Widths DEF Positive
        <4>2. Joined(Values(bytes)) \in 0..(TwoTo[B * n] - 1) /\ TwoTo[B * n] \in Int
          BY <2>5, <2>15, <4>1, JoinedBound, TwoToType DEF Positive
        <4>3. Len(Values(bytes)) = n
          BY <2>5, <2>15, Made
        <4>. QED
          BY <2>5, <4>2, <4>3
      <3>. QED
        BY <3>1, Wrapped DEF Hash
    <2>19. w \in Operands /\ w.v = Hash(Values(bytes))
      BY <2>17, <2>18 DEF Operands
    <2>20. MachineType(t)
      <3>1. MachineType(Stop(s, "infeasible"))
        BY <2>14, StopType
      <3>2. MachineType(Advance(Push(s, w)))
        BY <2>14, <2>19, PushType, AdvanceType
      <3>. QED
        BY <3>1, <3>2
    <2>21. EvmShape(x) /\ Agree(s, x)
      BY <2>2, <2>14, EvmExtendAgree
    <2>. HIDE DEF x
    <2>22. EvmShape(Advance(Push(x, got)))
      BY <2>21, EvmPushIs, EvmAdvanceIs
    <2>23. ASSUME e.status = "run", ~cond PROVE Agree(t, Advance(Push(x, got)))
      <3>1. w.v = got /\ t = Advance(Push(s, w))
        BY <2>7, <2>16, <2>19, <2>23
      <3>2. MachineType(Push(s, w)) /\ EvmShape(Push(x, w.v)) /\ Agree(Push(s, w), Push(x, w.v))
        BY <2>14, <2>19, <2>21, PushAgree
      <3>3. Agree(Advance(Push(s, w)), Advance(Push(x, w.v)))
        BY <3>2, AdvanceAgree
      <3>. HIDE DEF got, t
      <3>. QED
        BY <3>1, <3>3
    <2>. HIDE DEF t, got, cond
    <2>. QED
      BY <2>7, <2>20, <2>22, <2>23, PartAgree
  <1>. HIDE DEF t, y
  <1>. QED
    BY <1>1, <1>2, <1>4, PerformKeeps

-------------------------------------------------------------------------------
(* Jumps and ends *)

LEMMA IndexType ==
  ASSUME NEW p \in Seq(SUBSET STRING), NEW a
  PROVE  get_instruction_index(p, a) \in Nat
  <1> DEFINE at == {i \in DOMAIN p : Address(p, i) >= a}
  <1>1. DOMAIN p = 1..Len(p) /\ Len(p) \in Nat
    OBVIOUS
  <1>2. at \subseteq Nat
    BY <1>1
  <1> DEFINE first == CHOOSE i \in at : \A j \in at : i <= j
  <1>3. get_instruction_index(p, a) = IF at = {} THEN 0 ELSE first
    BY DEF get_instruction_index
  <1>. HIDE DEF at
  <1>4. ASSUME at # {} PROVE \E i \in at : \A j \in at : i <= j
    <2>1. PICK i \in at : \A j \in Nat : j < i => j \notin at
      <3> DEFINE Sinks == \E i \in at : \A j \in Nat : j < i => j \notin at
      <3>1. PICK k \in at : TRUE
        BY <1>4
      <3> DEFINE T == {n \in Nat : \A i \in at : i <= n => Sinks}
      <3>2. 0 \in T
        <4> SUFFICES ASSUME NEW i \in at, i <= 0 PROVE Sinks
          OBVIOUS
        <4>1. i = 0
          BY <1>2
        <4>. QED
          BY <4>1
      <3>3. ASSUME NEW n \in Nat, n \in T PROVE n + 1 \in T
        <4> SUFFICES ASSUME NEW i \in at, i <= n + 1 PROVE Sinks
          OBVIOUS
        <4>1. CASE \E j \in at : j <= n
          <5>. HIDE DEF Sinks
          <5>. QED
            BY <3>3, <4>1
        <4>2. CASE ~\E j \in at : j <= n
          <5>1. i \in Nat /\ \A j \in Nat : j < i => j <= n
            BY <1>2
          <5>. QED
            BY <4>2, <5>1
        <4>. QED
          BY <4>1, <4>2
      <3>. HIDE DEF T, Sinks
      <3>4. k \in Nat /\ k <= k
        BY <1>2
      <3>5. k \in T
        BY <3>2, <3>3, <3>4, Induction
      <3>6. Sinks
        BY <3>4, <3>5 DEF T
      <3>. QED
        BY <3>6 DEF Sinks
    <2>2. \A j \in at : i <= j
      BY <1>2, <2>1
    <2>. QED
      BY <2>2
  <1>5. at # {} => first \in at
    BY <1>4
  <1>. HIDE DEF first
  <1>6. at # {} => first \in Nat
    BY <1>2, <1>5
  <1>7. CASE at = {}
    BY <1>3, <1>7
  <1>8. CASE at # {}
    BY <1>3, <1>6, <1>8
  <1>. QED
    BY <1>7, <1>8

\* A jump to an instruction of the right kind finds the one at the address, if there is one.
LEMMA TargetIs ==
  ASSUME program \in Seq(SUBSET STRING), NEW a, NEW op,
         NEW j \in DOMAIN program, Address(program, j) = a, Holds(program, j, op)
  PROVE  /\ get_instruction_index(program, a) = j /\ j # 0
         /\ {i \in DOMAIN program : Holds(program, i, op) /\ Address(program, i) = a} = {j}
  <1>1. \A i \in DOMAIN program : Address(program, i) = a => get_instruction_index(program, a) = i
    BY IndexOfAddress
  <1>2. j # 0
    OBVIOUS
  <1>. QED
    BY <1>1, <1>2

LEMMA PlacedType ==
  ASSUME NEW s, MachineType(s), NEW pc \in Nat
  PROVE  LET t == [s EXCEPT !.pc = pc]
         IN  /\ MachineType(t) /\ t.status = s.status /\ t.pc = pc
             /\ t.stack = s.stack /\ t.subs = s.subs /\ t.mem = s.mem
  <1> DEFINE t == [s EXCEPT !.pc = pc]
  <1>1. MachineShape(s)
    BY DEF MachineType
  <1>2. MachineShape(t)
    BY <1>1 DEF MachineShape
  <1>3. /\ t.stack = s.stack /\ t.status = s.status /\ t.pc = pc /\ t.subs = s.subs
        /\ t.mem = s.mem /\ t.aside = s.aside /\ t.msize = s.msize /\ t.paid = s.paid
    BY <1>1 DEF MachineShape, MachineFields
  <1>. HIDE DEF t
  <1>4. MachineType(t)
    BY <1>2, <1>3 DEF MachineType, CellsIn, Paid
  <1>. QED
    BY <1>3, <1>4 DEF t

\* The state at an instruction, with the addresses to return to.
Placed(s, calls, to) == [s EXCEPT !.subs = calls, !.pc = to]

LEMMA CalledType ==
  ASSUME NEW s, MachineType(s), NEW pc \in Nat, NEW subs \in Seq(Nat)
  PROVE  LET t == Placed(s, subs, pc)
         IN  /\ MachineType(t) /\ t.status = s.status /\ t.pc = pc
             /\ t.stack = s.stack /\ t.subs = subs /\ t.mem = s.mem
  <1> DEFINE t == Placed(s, subs, pc)
  <1>1. MachineShape(s)
    BY DEF MachineType
  <1>2. MachineShape(t)
    BY <1>1 DEF MachineShape, Placed
  <1>3. /\ t.stack = s.stack /\ t.status = s.status /\ t.pc = pc /\ t.subs = subs
        /\ t.mem = s.mem /\ t.aside = s.aside /\ t.msize = s.msize /\ t.paid = s.paid
    BY <1>1 DEF MachineShape, MachineFields, Placed
  <1>. HIDE DEF t
  <1>4. MachineType(t)
    BY <1>2, <1>3 DEF MachineType, CellsIn, Paid
  <1>. QED
    BY <1>3, <1>4 DEF t

LEMMA EvmPlaced ==
  ASSUME NEW x, EvmShape(x), NEW pc
  PROVE  LET t == [x EXCEPT !.pc = pc]
         IN  /\ EvmShape(t) /\ t.status = x.status /\ t.pc = pc
             /\ t.stack = x.stack /\ t.subs = x.subs /\ t.mem = x.mem
  <1>1. EvmShape([x EXCEPT !.pc = pc])
    BY DEF EvmShape
  <1>. QED
    BY <1>1 DEF EvmShape, EvmFields

LEMMA EvmCalled ==
  ASSUME NEW x, EvmShape(x), NEW pc, NEW subs
  PROVE  LET t == Placed(x, subs, pc)
         IN  /\ EvmShape(t) /\ t.status = x.status /\ t.pc = pc
             /\ t.stack = x.stack /\ t.subs = subs /\ t.mem = x.mem
  <1>1. EvmShape(Placed(x, subs, pc))
    BY DEF EvmShape, Placed
  <1>. QED
    BY <1>1 DEF EvmShape, EvmFields, Placed

LEMMA EvmStopIs ==
  ASSUME NEW x, EvmShape(x), NEW why
  PROVE  EvmShape(Stop(x, why)) /\ Stop(x, why).status = why
  <1>1. EvmShape(Stop(x, why))
    BY DEF Stop, EvmShape
  <1>. QED
    BY <1>1 DEF Stop, EvmShape, EvmFields

LEMMA FailedAgrees ==
  ASSUME NEW s, NEW x, EvmShape(x)
  PROVE  EvmShape(Stop(x, "failed")) /\ Agree(s, Stop(x, "failed"))
  BY EvmStopIs DEF Agree

LEMMA JumpAgrees ==
  ASSUME program \in Seq(SUBSET STRING), NEW s, MachineType(s), NEW x, EvmShape(x), Agree(s, x), NEW a
  PROVE  LET index == get_instruction_index(program, a)
         IN  /\ EvmShape(EvmJump(x, a))
             /\ index = 0 \/ ~Holds(program, index, "JUMPDEST") => EvmJump(x, a) = Stop(x, "failed")
             /\ MachineType([s EXCEPT !.pc = index])
             /\ Holds(program, index, "JUMPDEST") => Agree([s EXCEPT !.pc = index], EvmJump(x, a))
  <1> DEFINE index == get_instruction_index(program, a)
  <1> DEFINE at == {j \in DOMAIN program : Holds(program, j, "JUMPDEST") /\ Address(program, j) = a}
  <1> DEFINE t == [s EXCEPT !.pc = index]
  <1> DEFINE one == CHOOSE j \in at : TRUE
  <1> DEFINE y == [x EXCEPT !.pc = one]
  <1>1. EvmJump(x, a) = IF at = {} THEN Stop(x, "failed") ELSE y
    BY DEF EvmJump
  <1>2. index \in Nat
    BY IndexType
  <1>3. at # {} => at = {index} /\ index # 0 /\ Holds(program, index, "JUMPDEST")
    <2> SUFFICES ASSUME NEW j \in at PROVE at = {index} /\ index # 0 /\ Holds(program, index, "JUMPDEST")
      OBVIOUS
    <2>1. j \in DOMAIN program /\ Holds(program, j, "JUMPDEST") /\ Address(program, j) = a
      OBVIOUS
    <2>. QED
      BY <2>1, TargetIs
  <1>4. at # {} => one = index
    BY <1>3
  <1>. HIDE DEF index, at, one
  <1>5. /\ MachineType(t) /\ t.status = s.status /\ t.pc = index
        /\ t.stack = s.stack /\ t.subs = s.subs /\ t.mem = s.mem
    BY <1>2, PlacedType
  <1>6. /\ EvmShape(y) /\ y.status = x.status /\ y.pc = one
        /\ y.stack = x.stack /\ y.subs = x.subs /\ y.mem = x.mem
    BY EvmPlaced
  <1>. HIDE DEF t, y
  <1>7. EvmShape(EvmJump(x, a))
    BY <1>1, <1>6, EvmStopIs
  <1>8. Agree(t, EvmJump(x, a))
    <2>1. CASE at = {}
      BY <1>1, <2>1, FailedAgrees
    <2>2. CASE at # {}
      <3>1. EvmJump(x, a) = y /\ y.pc = t.pc
        BY <1>1, <1>4, <1>5, <1>6, <2>2
      <3>2. Agree(t, y)
        BY <1>5, <1>6, <3>1 DEF Agree, Same, SameMemory
      <3>. QED
        BY <3>1, <3>2
    <2>. QED
      BY <2>1, <2>2
  <1>. QED
    BY <1>1, <1>3, <1>5, <1>7, <1>8 DEF index, t

LEMMA JumpKeeps == ASSUME IInv, jump PROVE IInv'
  <1> DEFINE a == Arg(1)
  <1> DEFINE index == get_instruction_index(program, a.v)
  <1> DEFINE s == Charge(Pop(m, 1), OPCODES_gas("JUMP"))
  <1> DEFINE t == IF a.sym \/ index = 0 \/ ~Holds(program, index, "JUMPDEST") THEN Stop(m, "failed")
                  ELSE [s EXCEPT !.pc = index]
  <1> DEFINE y == Part(EvmJump(Pop(e, 1), EArg(1)), a.sym)
  <1>1. PICK i \in get_current_instruction :
          /\ Running({"JUMP"}, i)
          /\ UNCHANGED world
          /\ Perform(i, 1, t, y)
    BY DEF jump
  <1>2. m.status = "run" /\ WorldInv' /\ program \in Seq(SUBSET STRING)
    BY <1>1, Kept DEF Running, IInv
  <1>3. /\ MachineType(m) /\ EvmShape(e) /\ Agree(m, e) /\ Len(m.stack) \in Nat
        /\ \A j \in 1..Len(m.stack) : Arg(j) \in Operands
        /\ e.status = "run" => \A j \in 1..Len(m.stack) : EArg(j) = Arg(j).v
    BY <1>2, Stacked
  <1>4. ASSUME 1 <= Len(m.stack) PROVE MachineType(t) /\ (e.status = "run" => EvmShape(y) /\ Agree(t, y))
    <2>1. 1 \in 1..Len(m.stack) /\ 1 \in 0..Len(m.stack)
      BY <1>3, <1>4
    <2>2. MachineType(Pop(m, 1)) /\ EvmShape(Pop(e, 1)) /\ Agree(Pop(m, 1), Pop(e, 1))
      BY <1>3, <2>1, PopAgree
    <2>3. a.sym \in BOOLEAN /\ (e.status = "run" => EArg(1) = a.v)
      BY <1>3, <2>1 DEF Operands
    <2>4. MachineType(s) /\ Agree(s, Pop(e, 1))
      BY <2>2, ChargeContinues, ContinuesAgree DEF Continues
    <2> DEFINE x == EvmJump(Pop(e, 1), a.v)
    <2>5. y = IF e.status = "run" THEN Part(x, a.sym) ELSE y
      BY <2>3
    <2>. HIDE DEF s, a, y
    <2>6. /\ EvmShape(x)
          /\ index = 0 \/ ~Holds(program, index, "JUMPDEST") => x = Stop(Pop(e, 1), "failed")
          /\ MachineType([s EXCEPT !.pc = index])
          /\ Holds(program, index, "JUMPDEST") => Agree([s EXCEPT !.pc = index], x)
      BY <1>2, <2>2, <2>4, JumpAgrees
    <2> DEFINE u == [s EXCEPT !.pc = index]
    <2>7. t = IF a.sym \/ index = 0 \/ ~Holds(program, index, "JUMPDEST") THEN Stop(m, "failed") ELSE u
      BY DEF s, a
    <2>. HIDE DEF x, index, u, t
    <2>8. MachineType(t)
      BY <1>3, <2>6, <2>7, StopType DEF u
    <2>9. ~a.sym => Agree(t, x)
      <3>1. Agree(t, Stop(Pop(e, 1), "failed"))
        BY <2>2, FailedAgrees
      <3>. QED
        BY <2>6, <2>7, <3>1 DEF u
    <2>. QED
      BY <2>3, <2>5, <2>6, <2>8, <2>9, PartAgree
  <1>. HIDE DEF t, y
  <1>. QED
    BY <1>1, <1>2, <1>4, PerformKeeps

LEMMA DeeperContinues ==
  ASSUME NEW s, MachineType(s)
  PROVE  Continues([s EXCEPT !.depth = @ + 1], s)
  <1> DEFINE t == [s EXCEPT !.depth = @ + 1]
  <1>1. MachineShape(s)
    BY DEF MachineType
  <1>2. MachineShape(t)
    BY <1>1 DEF MachineShape
  <1>3. t.status = s.status /\ Like(t, s)
    BY <1>1 DEF MachineShape, MachineFields, Like
  <1>. HIDE DEF t
  <1>4. MachineType(t)
    BY <1>2, <1>3, LikeType
  <1>5. Continues(t, s)
    BY <1>3, <1>4 DEF Continues, Like
  <1>. QED
    BY <1>5 DEF t

LEMMA JumpiKeeps == ASSUME IInv, jumpi PROVE IInv'
  <1> DEFINE a == Arg(1)
  <1> DEFINE c == Arg(2)
  <1> DEFINE index == get_instruction_index(program, a.v)
  <1> DEFINE s == Charge(Pop(m, 2), OPCODES_gas("JUMPI"))
  <1> DEFINE deeper == [s EXCEPT !.depth = @ + 1]
  <1> DEFINE taken == c.v # 0
  <1> DEFINE t == IF a.sym THEN Advance(s)
                  ELSE IF ~taken THEN Advance(deeper)
                  ELSE IF index = 0 \/ ~Holds(program, index, "JUMPDEST") THEN Stop(s, "pruned")
                  ELSE [deeper EXCEPT !.pc = index]
  <1> DEFINE cond == a.sym /\ taken
  <1> DEFINE y == Part(IF EArg(2) = 0 THEN Advance(Pop(e, 2)) ELSE EvmJump(Pop(e, 2), EArg(1)), cond)
  <1>1. PICK i \in get_current_instruction :
          /\ Running({"JUMPI"}, i)
          /\ UNCHANGED world
          /\ Perform(i, 2, t, y)
    BY DEF jumpi
  <1>2. m.status = "run" /\ WorldInv' /\ program \in Seq(SUBSET STRING)
    BY <1>1, Kept DEF Running, IInv
  <1>3. /\ MachineType(m) /\ EvmShape(e) /\ Agree(m, e) /\ Len(m.stack) \in Nat
        /\ \A j \in 1..Len(m.stack) : Arg(j) \in Operands
        /\ e.status = "run" => \A j \in 1..Len(m.stack) : EArg(j) = Arg(j).v
    BY <1>2, Stacked
  <1>4. ASSUME 2 <= Len(m.stack) PROVE MachineType(t) /\ (e.status = "run" => EvmShape(y) /\ Agree(t, y))
    <2> DEFINE q == Pop(e, 2)
    <2>1. 1 \in 1..Len(m.stack) /\ 2 \in 1..Len(m.stack) /\ 2 \in 0..Len(m.stack)
      BY <1>3, <1>4
    <2>2. MachineType(Pop(m, 2)) /\ EvmShape(q) /\ Agree(Pop(m, 2), q)
      BY <1>3, <2>1, PopAgree
    <2>3. cond \in BOOLEAN /\ (e.status = "run" => EArg(1) = a.v /\ EArg(2) = c.v)
      BY <1>3, <2>1
    <2>4. MachineType(s) /\ Agree(s, q)
      BY <2>2, ChargeContinues, ContinuesAgree DEF Continues
    <2>. HIDE DEF s, q
    <2>5. MachineType(deeper) /\ Agree(deeper, q)
      <3>1. Continues(deeper, s)
        BY <2>4, DeeperContinues
      <3>. HIDE DEF deeper
      <3>2. MachineType(deeper)
        BY <3>1 DEF Continues
      <3>. QED
        BY <2>4, <3>1, <3>2, ContinuesAgree
    <2> DEFINE x == IF ~taken THEN Advance(q) ELSE EvmJump(q, a.v)
    <2>6. e.status = "run" => y = Part(x, cond)
      BY <2>3 DEF q
    <2>7. cond <=> a.sym /\ taken
      OBVIOUS
    <2>. HIDE DEF a, y, cond, deeper, taken
    <2>8. /\ EvmShape(EvmJump(q, a.v))
          /\ index = 0 \/ ~Holds(program, index, "JUMPDEST") => EvmJump(q, a.v) = Stop(q, "failed")
          /\ MachineType([deeper EXCEPT !.pc = index])
          /\ Holds(program, index, "JUMPDEST") => Agree([deeper EXCEPT !.pc = index], EvmJump(q, a.v))
      BY <1>2, <2>2, <2>5, JumpAgrees
    <2>9. /\ MachineType(Advance(s)) /\ EvmShape(Advance(q)) /\ Agree(Advance(s), Advance(q))
          /\ MachineType(Advance(deeper)) /\ Agree(Advance(deeper), Advance(q))
      BY <2>2, <2>4, <2>5, AdvanceAgree
    <2>10. MachineType(Stop(s, "pruned")) /\ Agree(Stop(s, "pruned"), Stop(q, "failed"))
      BY <2>2, <2>4, StopType, FailedAgrees
    <2> DEFINE u == [deeper EXCEPT !.pc = index]
    <2>11. t = IF a.sym THEN Advance(s) ELSE IF ~taken THEN Advance(deeper)
               ELSE IF index = 0 \/ ~Holds(program, index, "JUMPDEST") THEN Stop(s, "pruned") ELSE u
      BY DEF s, a, deeper, taken
    <2>. HIDE DEF t, u, index
    <2>12. MachineType(t)
      BY <2>8, <2>9, <2>10, <2>11 DEF u
    <2>13. EvmShape(x)
      BY <2>8, <2>9
    <2>14. ~cond => Agree(t, x)
      <3>1. CASE ~taken
        BY <2>9, <2>11, <3>1
      <3>2. CASE taken /\ ~a.sym
        <4>1. x = EvmJump(q, a.v)
          BY <3>2
        <4>. HIDE DEF x
        <4>. QED
          BY <2>8, <2>10, <2>11, <3>2, <4>1 DEF u
      <3>. QED
        BY <2>7, <3>1, <3>2
    <2>. HIDE DEF x
    <2>. QED
      BY <2>3, <2>6, <2>12, <2>13, <2>14, PartAgree
  <1>. HIDE DEF t, y
  <1>. QED
    BY <1>1, <1>2, <1>4, PerformKeeps

LEMMA JumpsubKeeps == ASSUME IInv, jumpsub PROVE IInv'
  <1> DEFINE a == Arg(1)
  <1> DEFINE index == get_instruction_index(program, a.v)
  <1> DEFINE at == {j \in DOMAIN program : Holds(program, j, "BEGINSUB") /\ Address(program, j) = EArg(1)}
  <1> DEFINE p == Pop(m, 1)
  <1> DEFINE q == Pop(e, 1)
  <1> DEFINE s == [p EXCEPT !.subs = Append(@, m.pc + 1), !.pc = a.v + 1]
  <1> DEFINE one == CHOOSE j \in at : TRUE
  <1> DEFINE x == [q EXCEPT !.subs = Append(@, e.pc + 1), !.pc = one + 1]
  <1> DEFINE why == IF ~a.sym /\ index = 0 THEN "crash" ELSE "failed"
  <1> DEFINE cond == a.sym \/ index # a.v + 1
  <1> DEFINE y == IF at = {} THEN Stop(e, "failed") ELSE Part(x, cond)
  <1> DEFINE landings == IF m.stack = <<>> THEN {"STOP"} ELSE Landing(a.v + 1)
  <1>1. PICK i \in get_current_instruction, op \in landings :
          /\ Running({"JUMPSUB"}, i)
          /\ UNCHANGED world
          /\ Perform(i, 1, IF a.sym \/ ~Holds(program, index, "BEGINSUB") THEN Stop(m, why)
                           ELSE Advance(accumulate_gas(s, op)), y)
    BY ZenonT(60) DEF jumpsub
  <1> DEFINE u == accumulate_gas(s, op)
  <1> DEFINE t == IF a.sym \/ ~Holds(program, index, "BEGINSUB") THEN Stop(m, why) ELSE Advance(u)
  <1>2. m.status = "run" /\ WorldInv' /\ program \in Seq(SUBSET STRING)
    BY <1>1, Kept DEF Running, IInv
  <1>3. /\ MachineType(m) /\ EvmShape(e) /\ Agree(m, e) /\ Len(m.stack) \in Nat
        /\ \A j \in 1..Len(m.stack) : Arg(j) \in Operands
        /\ e.status = "run" => Same(m, e) /\ \A j \in 1..Len(m.stack) : EArg(j) = Arg(j).v
    BY <1>2, Stacked
  <1>4. ASSUME 1 <= Len(m.stack) PROVE MachineType(t) /\ (e.status = "run" => EvmShape(y) /\ Agree(t, y))
    <2>1. 1 \in 1..Len(m.stack) /\ 1 \in 0..Len(m.stack)
      BY <1>3, <1>4
    <2>2. /\ MachineType(p) /\ EvmShape(q) /\ Agree(p, q) /\ p.status = "run" /\ q.status = e.status
          /\ p.pc = m.pc /\ p.subs = m.subs /\ q.pc = e.pc /\ q.subs = e.subs
      BY <1>2, <1>3, <2>1, PopAgree, PopType, EvmPopIs
    <2>3. a \in Operands /\ a.v \in Nat /\ (e.status = "run" => EArg(1) = a.v)
      BY <1>3, <2>1, OperandType
    <2>4. cond \in BOOLEAN /\ (~cond => ~a.sym /\ index = a.v + 1)
      BY <2>3 DEF Operands
    <2>. HIDE DEF p, q
    <2>5. Append(p.subs, m.pc + 1) \in Seq(Nat) /\ a.v + 1 \in Nat
      BY <1>3, <2>2, <2>3 DEF MachineType
    <2>6. /\ MachineType(s) /\ s.status = "run" /\ s.pc = a.v + 1
          /\ s.stack = p.stack /\ s.subs = Append(p.subs, m.pc + 1) /\ s.mem = p.mem
      <3> DEFINE calls == Append(p.subs, m.pc + 1)
      <3> DEFINE to == a.v + 1
      <3>1. s = Placed(p, calls, to) /\ calls \in Seq(Nat) /\ to \in Nat
        BY <2>5 DEF Placed
      <3>. HIDE DEF s, calls, to
      <3>2. /\ MachineType(s) /\ s.status = p.status /\ s.pc = to
            /\ s.stack = p.stack /\ s.subs = calls /\ s.mem = p.mem
        BY <2>2, <3>1, CalledType
      <3>. QED
        BY <2>2, <3>2 DEF calls, to
    <2>7. /\ EvmShape(x) /\ x.status = e.status /\ x.pc = one + 1
          /\ x.stack = q.stack /\ x.subs = Append(q.subs, e.pc + 1) /\ x.mem = q.mem
      <3> DEFINE calls == Append(q.subs, e.pc + 1)
      <3> DEFINE to == one + 1
      <3>1. x = Placed(q, calls, to)
        BY DEF Placed
      <3>. HIDE DEF x, calls, to
      <3>2. /\ EvmShape(x) /\ x.status = q.status /\ x.pc = to
            /\ x.stack = q.stack /\ x.subs = calls /\ x.mem = q.mem
        BY <2>2, <3>1, EvmCalled
      <3>. QED
        BY <2>2, <3>2 DEF calls, to
    <2>8. e.status = "run" /\ at # {} =>
            one = index /\ Holds(program, index, "BEGINSUB") /\ index \in Nat
      <3> SUFFICES ASSUME e.status = "run", NEW j \in at
                   PROVE  one = index /\ Holds(program, index, "BEGINSUB") /\ index \in Nat
        OBVIOUS
      <3>1. j \in DOMAIN program /\ Holds(program, j, "BEGINSUB") /\ Address(program, j) = a.v
        BY <2>3
      <3>2. index = j /\ {i0 \in DOMAIN program : Holds(program, i0, "BEGINSUB") /\ Address(program, i0) = a.v} = {j}
        BY <1>2, <3>1, TargetIs
      <3>3. at = {j}
        BY <2>3, <3>2
      <3>4. one = j /\ j \in Nat
        BY <1>2, <3>1, <3>3
      <3>. QED
        BY <3>1, <3>2, <3>4
    <2>. HIDE DEF s, x, a, index, one, at, cond
    <2>9. Continues(u, s)
      BY <2>6, AccumulateContinues
    <2>. HIDE DEF u
    <2>10. MachineType(u) /\ (u.status = "run" \/ u.status = "OutOfGas")
      BY <2>6, <2>9 DEF Continues
    <2>11. /\ MachineType(Advance(u)) /\ Advance(u).status = u.status
           /\ u.status = "run" => Advance(u).pc = a.v + 1 + 1
           /\ Advance(u).stack = p.stack /\ Advance(u).subs = Append(p.subs, m.pc + 1) /\ Advance(u).mem = p.mem
      <3>1. u.pc = a.v + 1 /\ u.stack = s.stack /\ u.subs = s.subs /\ u.mem = s.mem
        BY <2>6, <2>9 DEF Continues
      <3>. QED
        BY <2>6, <2>10, <3>1, AdvanceType
    <2>12. MachineType(t)
      BY <1>3, <2>11, StopType
    <2>13. ASSUME e.status = "run" PROVE EvmShape(y) /\ Agree(t, y)
      <3>1. CASE at = {}
        <4>1. y = Stop(e, "failed")
          BY <3>1
        <4>. HIDE DEF t, y
        <4>. QED
          BY <1>3, <4>1, FailedAgrees
      <3>2. CASE at # {}
        <4>1. y = Part(x, cond)
          BY <3>2
        <4>2. ASSUME ~cond PROVE Agree(t, x)
          <5>1. t = Advance(u)
            BY <2>4, <2>8, <2>13, <3>2, <4>2
          <5>. HIDE DEF t
          <5>2. Same(p, q) /\ m.pc = e.pc
            BY <1>2, <1>3, <2>2, <2>13 DEF Agree, Same
          <5>3. x.pc = a.v + 1 + 1
            BY <2>4, <2>7, <2>8, <2>13, <3>2, <4>2
          <5>4. u.status = "run" => Same(t, x)
            BY <2>7, <2>11, <5>1, <5>2, <5>3 DEF Same, SameMemory
          <5>. QED
            BY <2>7, <2>10, <2>11, <2>13, <5>1, <5>4 DEF Agree
        <4>. HIDE DEF t, y
        <4>. QED
          BY <2>4, <2>7, <4>1, <4>2, PartAgree
      <3>. QED
        BY <3>1, <3>2
    <2>. QED
      BY <2>12, <2>13
  <1>5. Perform(i, 1, t, y)
    BY <1>1
  <1>. HIDE DEF t, y
  <1>. QED
    BY <1>2, <1>4, <1>5, PerformKeeps

LEMMA ReturnsubKeeps == ASSUME IInv, returnsub PROVE IInv'
  <1> DEFINE Back(z) == IF z.subs = <<>> THEN Stop(z, "failed")
                        ELSE [z EXCEPT !.pc = z.subs[Len(z.subs)], !.subs = SubSeq(@, 1, Len(@) - 1)]
  <1> DEFINE s == Back(m)
  <1> DEFINE x == Back(e)
  <1> DEFINE landings == IF m.subs = <<>> THEN {"STOP"} ELSE Landing(m.subs[Len(m.subs)])
  <1>1. PICK i \in get_current_instruction, op \in landings :
          /\ Running({"RETURNSUB"}, i)
          /\ UNCHANGED world
          /\ Perform(i, 0, accumulate_gas(s, op), x)
    BY ZenonT(60) DEF returnsub
  <1>2. m.status = "run" /\ WorldInv'
    BY <1>1, Kept DEF Running
  <1>3. /\ MachineType(m) /\ EvmShape(e) /\ Agree(m, e)
        /\ e.status = "run" => Same(m, e)
    BY <1>2, Stacked
  <1> DEFINE l == Len(m.subs)
  <1> DEFINE u == [m EXCEPT !.pc = m.subs[l], !.subs = SubSeq(m.subs, 1, l - 1)]
  <1> DEFINE y == [e EXCEPT !.pc = e.subs[Len(e.subs)], !.subs = SubSeq(e.subs, 1, Len(e.subs) - 1)]
  <1>4. s = (IF m.subs = <<>> THEN Stop(m, "failed") ELSE u) /\ x = IF e.subs = <<>> THEN Stop(e, "failed") ELSE y
    OBVIOUS
  <1>. HIDE DEF s, x, landings
  <1>5. MachineType(s) /\ (e.status = "run" => EvmShape(x) /\ Agree(s, x))
    <2>1. CASE m.subs = <<>>
      <3>1. s = Stop(m, "failed") /\ (e.status = "run" => x = Stop(e, "failed"))
        BY <1>3, <1>4, <2>1 DEF Same
      <3>. QED
        BY <1>3, <3>1, StopType, FailedAgrees
    <2>2. CASE m.subs # <<>>
      <3>1. m.subs \in Seq(Nat)
        BY <1>3 DEF MachineType
      <3>2. m.subs[l] \in Nat /\ SubSeq(m.subs, 1, l - 1) \in Seq(Nat)
        <4>. DEFINE subs == m.subs
        <4>1. subs \in Seq(Nat) /\ subs # <<>> /\ l = Len(subs)
          BY <2>2, <3>1
        <4>. HIDE DEF subs, l
        <4>2. l \in Nat \ {0} /\ 1 \in Nat /\ l - 1 \in 0..l
          BY <4>1
        <4>3. subs[l] \in Nat
          BY <4>1, <4>2
        <4>4. SubSeq(subs, 1, l - 1) \in Seq(Nat)
          BY <4>1, <4>2
        <4>. QED
          BY <4>3, <4>4 DEF subs
      <3>3. s = u
        BY <1>4, <2>2
      <3>. HIDE DEF l
      <3>4. /\ MachineType(u) /\ u.status = m.status /\ u.pc = m.subs[l] /\ u.stack = m.stack
            /\ u.subs = SubSeq(m.subs, 1, l - 1) /\ u.mem = m.mem
        <4> DEFINE calls == SubSeq(m.subs, 1, l - 1)
        <4> DEFINE to == m.subs[l]
        <4>1. u = Placed(m, calls, to) /\ calls \in Seq(Nat) /\ to \in Nat
          BY <3>2 DEF Placed
        <4>. HIDE DEF u, calls, to
        <4>2. /\ MachineType(u) /\ u.status = m.status /\ u.pc = to
              /\ u.stack = m.stack /\ u.subs = calls /\ u.mem = m.mem
          BY <1>3, <4>1, CalledType
        <4>. QED
          BY <4>2 DEF calls, to
      <3>. HIDE DEF u
      <3>5. ASSUME e.status = "run" PROVE EvmShape(x) /\ Agree(s, x)
        <4>1. e.subs = m.subs /\ x = y
          BY <1>3, <1>4, <2>2, <3>5 DEF Same
        <4>2. /\ EvmShape(y) /\ y.status = e.status /\ y.pc = e.subs[Len(e.subs)] /\ y.stack = e.stack
              /\ y.subs = SubSeq(e.subs, 1, Len(e.subs) - 1) /\ y.mem = e.mem
          <5> DEFINE calls == SubSeq(e.subs, 1, Len(e.subs) - 1)
          <5> DEFINE to == e.subs[Len(e.subs)]
          <5>1. y = Placed(e, calls, to)
            BY DEF Placed
          <5>. HIDE DEF y, calls, to
          <5>2. /\ EvmShape(y) /\ y.status = e.status /\ y.pc = to
                /\ y.stack = e.stack /\ y.subs = calls /\ y.mem = e.mem
            BY <1>3, <5>1, EvmCalled
          <5>. QED
            BY <5>2 DEF calls, to
        <4>. HIDE DEF y
        <4>3. y.pc = u.pc /\ y.subs = u.subs
          BY <3>4, <4>1, <4>2 DEF l
        <4>4. Agree(u, y)
          BY <1>2, <1>3, <3>4, <3>5, <4>2, <4>3 DEF Agree, Same, SameMemory
        <4>. QED
          BY <3>3, <4>1, <4>2, <4>4
      <3>. QED
        BY <3>3, <3>4, <3>5
    <2>. QED
      BY <2>1, <2>2
  <1>6. MachineType(accumulate_gas(s, op)) /\ Continues(accumulate_gas(s, op), s)
    BY <1>5, AccumulateContinues DEF Continues
  <1>7. e.status = "run" => EvmShape(x) /\ Agree(accumulate_gas(s, op), x)
    BY <1>5, <1>6, ContinuesAgree
  <1>. QED
    BY <1>1, <1>2, <1>6, <1>7, PerformKeeps

LEMMA EndsKeeps == ASSUME IInv, Ends PROVE IInv'
  <1>1. PICK i \in get_current_instruction :
          /\ Running({"STOP", "INVALID", "BEGINSUB", "LOG1"}, i)
          /\ UNCHANGED world
          /\ CASE i.op = "STOP" -> Perform(i, 0, Stop(m, "stopped"), Stop(e, "stopped"))
               [] i.op = "LOG1" ->
                    Straight(i, 3, Pop(m, 3), EvmExtend(Pop(e, 3), EArg(1), EArg(2)))
               [] OTHER -> Perform(i, 0, Stop(m, "failed"), Stop(e, "failed"))
    BY DEF Ends
  <1>2. m.status = "run" /\ WorldInv'
    BY <1>1, Kept DEF Running
  <1>3. MachineType(m) /\ EvmShape(e) /\ Agree(m, e) /\ Len(m.stack) \in Nat
    BY <1>2, Stacked
  <1>4. CASE i.op = "STOP"
    <2>1. Perform(i, 0, Stop(m, "stopped"), Stop(e, "stopped"))
      BY <1>1, <1>4
    <2>2. MachineType(Stop(m, "stopped")) /\ Stop(m, "stopped").status = "stopped"
      BY <1>3, StopType
    <2>3. EvmShape(Stop(e, "stopped")) /\ Stop(e, "stopped").status = "stopped"
      BY <1>3, EvmStopIs
    <2>4. Agree(Stop(m, "stopped"), Stop(e, "stopped"))
      BY <2>2, <2>3 DEF Agree
    <2>. QED
      BY <1>2, <2>1, <2>2, <2>3, <2>4, PerformKeeps
  <1>5. CASE i.op = "LOG1"
    <2>1. Straight(i, 3, Pop(m, 3), EvmExtend(Pop(e, 3), EArg(1), EArg(2)))
      BY <1>1, <1>5
    <2>2. ASSUME 3 <= Len(m.stack)
          PROVE  /\ MachineType(Pop(m, 3)) /\ EvmShape(EvmExtend(Pop(e, 3), EArg(1), EArg(2)))
                 /\ Agree(Pop(m, 3), EvmExtend(Pop(e, 3), EArg(1), EArg(2)))
      <3>1. MachineType(Pop(m, 3)) /\ EvmShape(Pop(e, 3)) /\ Agree(Pop(m, 3), Pop(e, 3))
        BY <1>3, <2>2, PopAgree
      <3>. QED
        BY <3>1, EvmExtendAgree
    <2>. QED
      BY <1>2, <2>1, <2>2, StraightKeeps
  <1>6. CASE i.op \in {"INVALID", "BEGINSUB"}
    <2>1. Perform(i, 0, Stop(m, "failed"), Stop(e, "failed"))
      BY <1>1, <1>6
    <2>2. MachineType(Stop(m, "failed")) /\ EvmShape(Stop(e, "failed")) /\ Agree(Stop(m, "failed"), Stop(e, "failed"))
      BY <1>3, StopType, FailedAgrees
    <2>. QED
      BY <1>2, <2>1, <2>2, PerformKeeps
  <1>. QED
    BY <1>1, <1>4, <1>5, <1>6 DEF Running

-------------------------------------------------------------------------------
(* The theorems *)

LEMMA Starts == ASSUME Init PROVE IInv
  <1>1. PICK limit \in GasLimits :
          m = [pc |-> 1, stack |-> <<>>, mem |-> <<>>, aside |-> {}, msize |-> 0, subs |-> <<>>,
               min |-> 0, max |-> 0, paid |-> 0, limit |-> limit, depth |-> 0, status |-> "run"]
    BY DEF Init
  <1>2. e = [pc |-> 1, stack |-> <<>>, mem |-> <<>>, msize |-> 0, subs |-> <<>>, status |-> "run"]
    BY DEF Init
  <1>3. program \in Seq(SUBSET STRING) /\ CodeInv /\ WorldInv
    BY MachineAssumption DEF Init, CodeInv, WorldInv
  <1>4. EvmShape(e)
    BY <1>2 DEF EvmShape, EvmFields
  <1>5. MachineShape(m)
    BY <1>1 DEF MachineShape, MachineFields
  <1>6. /\ m.pc = 1 /\ m.stack = <<>> /\ m.mem = <<>> /\ m.aside = {} /\ m.msize = 0 /\ m.subs = <<>>
        /\ m.paid = 0 /\ m.status = "run"
        /\ e.pc = 1 /\ e.stack = <<>> /\ e.mem = <<>> /\ e.subs = <<>> /\ e.status = "run"
    BY <1>1, <1>2
  <1>7. Paid(m)
    <2>1. 0 \div Bytes = 0 /\ 0 % Bytes = 0
      BY Widths, Divides
    <2>2. Fee(0) = 0
      BY DEF Fee
    <2>. QED
      BY <1>6, <2>1, <2>2 DEF Paid
  <1>8. CellsIn(m)
    BY <1>6 DEF CellsIn
  <1>9. MachineType(m)
    BY <1>5, <1>6, <1>7, <1>8 DEF MachineType
  <1>10. Same(m, e)
    <2>1. Values(m.stack) = <<>>
      BY <1>6 DEF Values
    <2>2. SameMemory(m, e)
      BY <1>6 DEF SameMemory, ByteAt, Const
    <2>. QED
      BY <1>6, <2>1, <2>2 DEF Same
  <1>11. Agree(m, e)
    BY <1>6, <1>10 DEF Agree
  <1>. QED
    BY <1>3, <1>4, <1>9, <1>11 DEF IInv

LEMMA Stutters == ASSUME IInv, UNCHANGED vars PROVE IInv'
  BY DEF IInv, vars, CodeInv, WorldInv, MachineType, MachineShape, EvmShape, Agree, Same, SameMemory, CellsIn, Paid

\* The relation of the two machines, which every instruction keeps: their shapes; the stack
\* of words, the memory of bytes behind whose end nothing is stored and whose size is paid
\* for; the immediates of the code met and the values of the symbols; and, while neither has
\* stopped, the same counter, words, return addresses and bytes.
THEOREM MachinesAgree == Spec => []IInv
  <1>1. Init => IInv
    BY Starts
  <1>2. IInv /\ [Next]_vars => IInv'
    <2> SUFFICES ASSUME IInv, [Next]_vars PROVE IInv'
      OBVIOUS
    <2>1. CASE Stacks
      BY <2>1, StacksKeeps
    <2>2. CASE Arithmetic
      BY <2>2, ArithmeticKeeps
    <2>3. CASE Environment
      BY <2>3, EnvironmentKeeps
    <2>4. CASE new_bitvec
      BY <2>4, NewBitvecKeeps
    <2>5. CASE Accounts
      BY <2>5, AccountsKeeps
    <2>6. CASE LoadStore
      BY <2>6, LoadStoreKeeps
    <2>7. CASE calldataload
      BY <2>7, CalldataloadKeeps
    <2>8. CASE calldatacopy
      BY <2>8, CalldatacopyKeeps
    <2>9. CASE codecopy
      BY <2>9, CodecopyKeeps
    <2>10. CASE sha3
      BY <2>10, Sha3Keeps
    <2>11. CASE jump
      BY <2>11, JumpKeeps
    <2>12. CASE jumpi
      BY <2>12, JumpiKeeps
    <2>13. CASE jumpsub
      BY <2>13, JumpsubKeeps
    <2>14. CASE returnsub
      BY <2>14, ReturnsubKeeps
    <2>15. CASE Ends
      BY <2>15, EndsKeeps
    <2>16. CASE UNCHANGED vars
      BY <2>16, Stutters
    <2>. QED
      BY <2>1, <2>2, <2>3, <2>4, <2>5, <2>6, <2>7, <2>8, <2>9, <2>10, <2>11, <2>12, <2>13, <2>14,
         <2>15, <2>16 DEF Next
  <1>. QED
    BY <1>1, <1>2, PTL DEF Spec

\* Whatever instructions are executed, in whatever order and on whatever operands: up to the
\* first that is known to approximate (the size of code that is not kept as digits and the
\* balance of an unknown account among them) a path is at the instruction the Ethereum
\* machine is at, with the same words on its stacks (instructions.py, machine_state.py).
THEOREM SpecStackAgrees == Spec => []StackAgrees
  <1>1. IInv => StackAgrees
    BY DEF IInv, Agree, Same, StackAgrees, Together
  <1>. QED
    BY <1>1, MachinesAgree, PTL

\* As far, every byte of its memory has the value the Ethereum machine stored last, and
\* nothing is stored behind the end of the memory (memory.py, with what the handlers copy).
THEOREM SpecMemoryAgrees == Spec => []MemoryAgrees
  <1>1. ASSUME IInv PROVE MemoryAgrees
    <2> SUFFICES ASSUME Together
                 PROVE  /\ \A i \in 0..(e.msize - 1) : ByteAt(m.mem, i, Const(0)).v = ByteAt(e.mem, i, 0)
                        /\ \A i \in DOMAIN m.mem : i < m.msize
      BY DEF MemoryAgrees
    <2>1. SameMemory(m, e) /\ CellsIn(m) /\ m.msize \in Nat
      BY <1>1 DEF IInv, Agree, Same, Together, MachineType
    <2>2. \A i \in 0..(e.msize - 1) : i \in Nat
      OBVIOUS
    <2>3. \A i \in DOMAIN m.mem : i \in 0..(m.msize - 1)
      BY <2>1 DEF CellsIn
    <2>. QED
      BY <2>1, <2>2, <2>3 DEF SameMemory
  <1>. QED
    BY <1>1, MachinesAgree, PTL

\* As far, a path is given up only where the Ethereum machine fails, or for the gas limit;
\* one that the Ethereum machine executes to its end is not lost (svm.py, instructions.py).
THEOREM SpecNeverLost == Spec => []NeverLost
  <1>1. IInv => NeverLost
    BY DEF IInv, Agree, NeverLost
  <1>. QED
    BY <1>1, MachinesAgree, PTL

\* However the memory has grown, the path has paid what its size costs (mem_extend,
\* calculate_extension_size and calculate_memory_gas in machine_state.py).
THEOREM SpecMemoryPaid == Spec => []MemoryPaid
  <1>1. IInv => MemoryPaid
    BY DEF IInv, MachineType, Paid, MemoryPaid
  <1>. QED
    BY <1>1, MachinesAgree, PTL
===============================================================================
