------------------------------- MODULE TaintProofs -------------------------------
(* Theorems about Taint, for programs of any length and words of any size.           *)
EXTENDS Taint, SequenceTheorems, TLAPS

-------------------------------------------------------------------------------
(* What a word and a path carry *)

Kinds == {"origin", "block"}
Marks(A) == {a.kind : a \in A}
Issued(R, module, pc) == [module |-> module, pc |-> pc] \in R

\* An overflow under i is reported, or one of A will report it.
Known(R, A, i, pc) ==
  \/ Issued(R, "integer", pc)
  \/ \E a \in A : a.kind = "over" /\ a.pc = pc /\ i \in a.state /\ i \in a.bad

WordInv(w, models, N, R) ==
  /\ w.set \in DOMAIN N
  /\ w.from \subseteq Marks(N[w.set])
  /\ \A i \in models : \A pc \in w.over[i] : Known(R, N[w.set], i, pc)

WordsInv(words, models, N, R) == \A n \in DOMAIN words : WordInv(words[n], models, N, R)

Used(s, R) == \A i \in s.models : \A pc \in s.used[i] : Known(R, s.over, i, pc)
Settled(s, R) == \A i \in s.models : \A pc \in s.used[i] : Issued(R, "integer", pc)

PathInv(s, N, R) ==
  /\ WordsInv(s.stack, s.models, N, R)
  /\ WordsInv(s.mem, s.models, N, R)
  /\ Used(s, R)
  /\ s.status = "stopped" => Settled(s, R)
  /\ \A d \in s.decided : Issued(R, d.module, d.pc)

-------------------------------------------------------------------------------
(* The invariant *)

Notes == [kind : {"over"}, pc : Nat, state : SUBSET Models, bad : SUBSET Models] \cup [kind : Kinds]
Words == [f : [Models -> 0..(Size - 1)], set : Nat, bool : BOOLEAN, over : [Models -> SUBSET Nat],
          from : SUBSET Kinds]
Paths == [pc : Nat, stack : Seq(Words), mem : Seq(Words), models : SUBSET Models, over : SUBSET Notes,
          old : BOOLEAN, used : [Models -> SUBSET Nat], decided : SUBSET [module : Kinds, pc : Nat],
          status : {"run", "stopped", "reverted"}]

Types ==
  /\ program \in Seq([op : STRING, arg : Nat])
  /\ \A n \in DOMAIN program : program[n].op = "PUSH" => program[n].arg < Size
  /\ paths \in Seq(Paths)
  /\ notes \in Seq(SUBSET Notes) /\ {Sender, Callvalue, BlockNumber} \subseteq DOMAIN notes

Inv ==
  /\ Types
  /\ \A k \in DOMAIN paths : PathInv(paths[k], notes, issues)

-------------------------------------------------------------------------------
(* Lemmas *)

\* Sets of annotations only get larger, and new ones are added.
Grow(N, M) == DOMAIN N \subseteq DOMAIN M /\ \A r \in DOMAIN N : N[r] \subseteq M[r]

LEMMA KnownMore ==
  ASSUME NEW R, NEW Q, R \subseteq Q, NEW A, NEW B, A \subseteq B, NEW i, NEW pc, Known(R, A, i, pc)
  PROVE  Known(Q, B, i, pc)
  BY DEF Known, Issued

LEMMA WordKept ==
  ASSUME NEW w, NEW models, NEW V, V \subseteq models, NEW N, NEW M, Grow(N, M), NEW R, NEW Q, R \subseteq Q,
         WordInv(w, models, N, R)
  PROVE  WordInv(w, V, M, Q)
  <1>1. w.set \in DOMAIN M /\ N[w.set] \subseteq M[w.set]
    BY DEF WordInv, Grow
  <1>2. w.from \subseteq Marks(M[w.set])
    BY <1>1 DEF WordInv, Marks
  <1>3. \A i \in V : \A pc \in w.over[i] : Known(Q, M[w.set], i, pc)
    BY <1>1, KnownMore DEF WordInv
  <1>. QED
    BY <1>1, <1>2, <1>3 DEF WordInv

LEMMA WordsKept ==
  ASSUME NEW words, NEW models, NEW V, V \subseteq models, NEW N, NEW M, Grow(N, M), NEW R, NEW Q, R \subseteq Q,
         WordsInv(words, models, N, R)
  PROVE  WordsInv(words, V, M, Q)
  BY WordKept DEF WordsInv

\* A path that does not move.
LEMMA PathIdle ==
  ASSUME NEW s, NEW N, NEW M, Grow(N, M), NEW R, NEW Q, R \subseteq Q, PathInv(s, N, R)
  PROVE  PathInv(s, M, Q)
  <1>1. WordsInv(s.stack, s.models, M, Q) /\ WordsInv(s.mem, s.models, M, Q)
    BY WordsKept DEF PathInv
  <1>2. Used(s, Q)
    BY KnownMore DEF PathInv, Used
  <1>3. Settled(s, R) => Settled(s, Q)
    BY DEF Settled, Issued
  <1>4. \A d \in s.decided : Issued(Q, d.module, d.pc)
    BY DEF PathInv, Issued
  <1>. QED
    BY <1>1, <1>2, <1>3, <1>4 DEF PathInv

\* Words are popped, others are pushed.
LEMMA NextStack ==
  ASSUME NEW stack \in Seq(Words), NEW n \in Nat, n <= Len(stack), NEW pushed \in Seq(Words)
  PROVE  /\ Popped(stack, n) \o pushed \in Seq(Words)
         /\ \A j \in DOMAIN (Popped(stack, n) \o pushed) :
              \/ \E h \in DOMAIN stack : (Popped(stack, n) \o pushed)[j] = stack[h]
              \/ \E h \in DOMAIN pushed : (Popped(stack, n) \o pushed)[j] = pushed[h]
  <1> DEFINE p == SubSeq(stack, 1, Len(stack) - n)
             q == p \o pushed
  <1>1. Len(stack) \in Nat /\ Len(stack) - n \in Nat /\ Len(stack) - n <= Len(stack) /\ Len(pushed) \in Nat
    OBVIOUS
  <1>2. p \in Seq(Words) /\ Len(p) = Len(stack) - n /\ \A j \in 1..Len(p) : p[j] = stack[j]
    BY <1>1
  <1>. HIDE DEF p
  <1>3. /\ q \in Seq(Words) /\ Len(q) = Len(p) + Len(pushed)
        /\ \A j \in 1..Len(q) : q[j] = IF j <= Len(p) THEN p[j] ELSE pushed[j - Len(p)]
    <2>1. p \in Seq(Words)
      BY <1>2
    <2>. QED
      BY <2>1, ConcatProperties
  <1>. HIDE DEF q
  <1>4. DOMAIN q = 1..Len(q)
    BY <1>3
  <1>5. DOMAIN stack = 1..Len(stack) /\ DOMAIN pushed = 1..Len(pushed)
    OBVIOUS
  <1>6. ASSUME NEW j \in DOMAIN q
        PROVE  \/ \E h \in DOMAIN stack : q[j] = stack[h]
               \/ \E h \in DOMAIN pushed : q[j] = pushed[h]
    <2>0. j \in Nat /\ Len(p) \in Nat /\ 1 <= j /\ j <= Len(q)
      BY <1>1, <1>2, <1>3
    <2>1. CASE j <= Len(p)
      <3>1. q[j] = p[j]
        BY <1>3, <1>4, <2>1
      <3>2. j \in 1..Len(p) /\ j \in 1..Len(stack)
        BY <1>1, <1>2, <2>0, <2>1
      <3>. QED
        BY <1>2, <1>5, <3>1, <3>2
    <2>2. CASE ~(j <= Len(p))
      <3>1. q[j] = pushed[j - Len(p)]
        BY <1>3, <1>4, <2>2
      <3>2. j - Len(p) \in 1..Len(pushed)
        BY <1>1, <1>3, <2>0, <2>2
      <3>. QED
        BY <1>5, <3>1, <3>2
    <2>. QED
      BY <2>1, <2>2
  <1>. QED
    BY <1>3, <1>6 DEF Popped, p, q

LEMMA NextPath ==
  ASSUME NEW s \in Paths, NEW n \in Nat, n <= Len(s.stack), NEW pushed \in Seq(Words)
  PROVE  /\ Next1(s, n, pushed) \in Paths
         /\ Next1(s, n, pushed).stack = Popped(s.stack, n) \o pushed
         /\ Next1(s, n, pushed).mem = s.mem /\ Next1(s, n, pushed).models = s.models
         /\ Next1(s, n, pushed).over = s.over /\ Next1(s, n, pushed).used = s.used
         /\ Next1(s, n, pushed).decided = s.decided /\ Next1(s, n, pushed).status = s.status
  <1> DEFINE q == Popped(s.stack, n) \o pushed
  <1>1. q \in Seq(Words)
    BY NextStack DEF Paths
  <1>2. Next1(s, n, pushed) = [s EXCEPT !.pc = s.pc + 1, !.stack = q]
    BY DEF Next1
  <1>3. s.pc + 1 \in Nat
    BY DEF Paths
  <1>. HIDE DEF q
  <1> DEFINE t == [s EXCEPT !.pc = s.pc + 1, !.stack = q]
  <1>4. t \in Paths
    BY <1>1, <1>3 DEF Paths
  <1>5. /\ t.stack = q /\ t.mem = s.mem /\ t.models = s.models /\ t.over = s.over /\ t.used = s.used
        /\ t.decided = s.decided /\ t.status = s.status
    BY DEF Paths
  <1>. HIDE DEF t
  <1>. QED
    BY <1>2, <1>4, <1>5 DEF q, t

LEMMA NextWords ==
  ASSUME NEW s \in Paths, NEW n \in Nat, n <= Len(s.stack), NEW pushed \in Seq(Words), NEW V, NEW M, NEW Q,
         WordsInv(s.stack, V, M, Q), WordsInv(pushed, V, M, Q)
  PROVE  WordsInv(Popped(s.stack, n) \o pushed, V, M, Q)
  <1> DEFINE q == Popped(s.stack, n) \o pushed
  <1>1. \A j \in DOMAIN q : \/ \E h \in DOMAIN s.stack : q[j] = s.stack[h]
                            \/ \E h \in DOMAIN pushed : q[j] = pushed[h]
    <2> DEFINE st == s.stack
    <2>1. st \in Seq(Words) /\ n <= Len(st)
      BY DEF Paths
    <2>. HIDE DEF q, st
    <2>2. \A j \in DOMAIN (Popped(st, n) \o pushed) :
            \/ \E h \in DOMAIN st : (Popped(st, n) \o pushed)[j] = st[h]
            \/ \E h \in DOMAIN pushed : (Popped(st, n) \o pushed)[j] = pushed[h]
      BY <2>1, NextStack
    <2>. QED
      BY <2>2 DEF q, st
  <1>. HIDE DEF q
  <1>2. WordsInv(q, V, M, Q)
    BY <1>1 DEF WordsInv
  <1>. QED
    BY <1>2 DEF q

\* An instruction that only moves words.
LEMMA MovePath ==
  ASSUME NEW s \in Paths, NEW n \in Nat, n <= Len(s.stack), NEW pushed \in Seq(Words), s.status = "run",
         NEW N, NEW M, Grow(N, M), NEW R, NEW Q, R \subseteq Q, PathInv(s, N, R),
         WordsInv(pushed, s.models, M, Q)
  PROVE  PathInv(Next1(s, n, pushed), M, Q)
  <1>1. PathInv(s, M, Q)
    BY PathIdle
  <1>2. WordsInv(Popped(s.stack, n) \o pushed, s.models, M, Q)
    BY <1>1, NextWords DEF PathInv
  <1> DEFINE t == Next1(s, n, pushed)
  <1>3. /\ t.stack = Popped(s.stack, n) \o pushed /\ t.mem = s.mem /\ t.models = s.models
        /\ t.over = s.over /\ t.used = s.used /\ t.decided = s.decided /\ t.status = s.status
    BY NextPath
  <1>. HIDE DEF t
  <1>4. PathInv(t, M, Q)
    BY <1>1, <1>2, <1>3 DEF PathInv, Used
  <1>. QED
    BY <1>4 DEF t

LEMMA One ==
  ASSUME NEW S, NEW w \in S
  PROVE  <<w>> \in Seq(S) /\ DOMAIN <<w>> = {1} /\ <<w>>[1] = w
  OBVIOUS

LEMMA OneWord ==
  ASSUME NEW w, NEW V, NEW M, NEW Q, WordInv(w, V, M, Q)
  PROVE  WordsInv(<<w>>, V, M, Q)
  BY DEF WordsInv

LEMMA NoWord == ASSUME NEW V, NEW M, NEW Q PROVE WordsInv(<<>>, V, M, Q) /\ <<>> \in Seq(Words)
  <1>1. <<>> \in Seq(Words) /\ DOMAIN <<>> = {}
    OBVIOUS
  <1>. QED
    BY <1>1 DEF WordsInv

\* A new set.
LEMMA Fresh ==
  ASSUME NEW N \in Seq(SUBSET Notes), NEW A, A \subseteq Notes
  PROVE  /\ Append(N, A) \in Seq(SUBSET Notes) /\ Grow(N, Append(N, A))
         /\ Len(N) + 1 \in DOMAIN Append(N, A) /\ Append(N, A)[Len(N) + 1] = A /\ Len(N) + 1 \in Nat
         /\ \A r \in DOMAIN N : Append(N, A)[r] = N[r] /\ r # Len(N) + 1
  BY AppendProperties DEF Grow

LEMMA Marked ==
  ASSUME NEW N \in Seq(SUBSET Notes), NEW r \in DOMAIN N, NEW A, A \subseteq Notes
  PROVE  /\ [N EXCEPT ![r] = @ \cup A] \in Seq(SUBSET Notes) /\ Grow(N, [N EXCEPT ![r] = @ \cup A])
         /\ DOMAIN [N EXCEPT ![r] = @ \cup A] = DOMAIN N
         /\ [N EXCEPT ![r] = @ \cup A][r] = N[r] \cup A
  <1>1. N[r] \cup A \in SUBSET Notes
    OBVIOUS
  <1>. QED
    BY <1>1, ExceptSeq DEF Grow

-------------------------------------------------------------------------------
(* The steps *)

LEMMA RunningFacts ==
  ASSUME Inv, NEW k \in DOMAIN paths, NEW ops, Running(k, ops)
  PROVE  /\ paths[k] \in Paths /\ paths[k].status = "run" /\ PathInv(paths[k], notes, issues)
         /\ Instr(k) \in [op : STRING, arg : Nat] /\ Instr(k).op \in ops
         /\ Instr(k).op = "PUSH" => Instr(k).arg < Size
         /\ Required(Instr(k).op) <= Len(paths[k].stack)
         /\ notes \in Seq(SUBSET Notes) /\ {Sender, Callvalue, BlockNumber} \subseteq DOMAIN notes
         /\ Len(paths[k].stack) \in Nat
  <1>1. Types /\ PathInv(paths[k], notes, issues)
    BY DEF Inv
  <1>2. /\ paths[k] \in Paths /\ Instr(k) \in [op : STRING, arg : Nat]
        /\ Instr(k).op = "PUSH" => Instr(k).arg < Size
    <2>1. paths[k] \in Paths
      BY <1>1 DEF Types
    <2> DEFINE pc == paths[k].pc
    <2>2. pc \in DOMAIN program /\ Instr(k) = program[pc]
      BY DEF Running, Instr
    <2>. HIDE DEF pc
    <2>3. Instr(k) \in [op : STRING, arg : Nat] /\ (Instr(k).op = "PUSH" => Instr(k).arg < Size)
      <3>1. /\ program \in Seq([op : STRING, arg : Nat])
            /\ \A n \in DOMAIN program : program[n].op = "PUSH" => program[n].arg < Size
        BY <1>1 DEF Types
      <3>2. program[pc] \in [op : STRING, arg : Nat]
        <4> DEFINE S == [op : STRING, arg : Nat]
        <4>1. program \in Seq(S)
          BY <3>1
        <4>. HIDE DEF S
        <4>2. program[pc] \in S
          BY <2>2, <4>1
        <4>. QED
          BY <4>2 DEF S
      <3>3. program[pc].op = "PUSH" => program[pc].arg < Size
        BY <2>2, <3>1
      <3>. QED
        BY <2>2, <3>2, <3>3
    <2>. QED
      BY <2>1, <2>3
  <1>3. Len(paths[k].stack) \in Nat
    BY <1>2 DEF Paths
  <1>4. Required(Instr(k).op) \in Nat
    BY DEF Required
  <1>. QED
    BY <1>1, <1>2, <1>3, <1>4 DEF Types, Running

\* An operand.
LEMMA ArgFacts ==
  ASSUME Inv, NEW k \in DOMAIN paths, paths[k] \in Paths, NEW n \in Nat \ {0}, n <= Len(paths[k].stack)
  PROVE  Arg(k, n) \in Words /\ WordInv(Arg(k, n), paths[k].models, notes, issues)
  <1>1. paths[k].stack \in Seq(Words) /\ PathInv(paths[k], notes, issues)
    BY DEF Inv, Paths
  <1>2. Len(paths[k].stack) - n + 1 \in 1..Len(paths[k].stack)
    BY <1>1
  <1>. QED
    BY <1>1, <1>2 DEF Arg, PathInv, WordsInv

\* One path moves.
LEMMA OneStep ==
  ASSUME Inv, NEW k \in DOMAIN paths, NEW t \in Paths, paths' = [paths EXCEPT ![k] = t], program' = program,
         issues \subseteq issues', notes' \in Seq(SUBSET Notes), Grow(notes, notes'),
         PathInv(t, notes', issues')
  PROVE  Inv'
  <1>1. paths \in Seq(Paths) /\ {Sender, Callvalue, BlockNumber} \subseteq DOMAIN notes'
    BY DEF Inv, Types, Grow
  <1>2. /\ paths' \in Seq(Paths) /\ DOMAIN paths' = DOMAIN paths
        /\ \A j \in DOMAIN paths : paths'[j] = IF j = k THEN t ELSE paths[j]
    BY <1>1, ExceptSeq
  <1>3. \A j \in DOMAIN paths : PathInv(paths[j], notes', issues')
    BY PathIdle DEF Inv
  <1>4. Types'
    BY <1>1, <1>2 DEF Inv, Types
  <1>. QED
    BY <1>2, <1>3, <1>4 DEF Inv

\* One path moves words.
LEMMA MoveStep ==
  ASSUME Inv, NEW k \in DOMAIN paths, paths[k] \in Paths, paths[k].status = "run",
         NEW n \in Nat, n <= Len(paths[k].stack), NEW pushed \in Seq(Words),
         paths' = [paths EXCEPT ![k] = Next1(paths[k], n, pushed)], UNCHANGED <<program, issues>>,
         notes' \in Seq(SUBSET Notes), Grow(notes, notes'),
         WordsInv(pushed, paths[k].models, notes', issues)
  PROVE  Inv'
  <1> DEFINE t == Next1(paths[k], n, pushed)
  <1>1. t \in Paths
    BY NextPath
  <1>2. PathInv(paths[k], notes, issues)
    BY DEF Inv
  <1>3. PathInv(t, notes', issues')
    BY <1>2, MovePath
  <1>. HIDE DEF t
  <1>4. paths' = [paths EXCEPT ![k] = t]
    BY DEF t
  <1>. QED
    BY <1>1, <1>3, <1>4, OneStep

LEMMA GrowSame == ASSUME NEW N PROVE Grow(N, N)
  BY DEF Grow

\* The words of the code and of the environment.
LEMMA NewWord ==
  ASSUME NEW f \in [Models -> 0..(Size - 1)], NEW set \in Nat, NEW from \in SUBSET Kinds, NEW V \in SUBSET Models,
         NEW N, set \in DOMAIN N, from \subseteq Marks(N[set]), NEW R
  PROVE  Word(f, set, Clean, from) \in Words /\ WordInv(Word(f, set, Clean, from), V, N, R)
  <1> DEFINE w == Word(f, set, Clean, from)
  <1>1. Clean \in [Models -> SUBSET Nat] /\ \A i \in Models : Clean[i] = {}
    BY DEF Clean, Constant
  <1>2. FALSE \in BOOLEAN
    OBVIOUS
  <1>. HIDE DEF Clean
  <1>3. w \in Words /\ w.set = set /\ w.over = Clean /\ w.from = from
    BY <1>1, <1>2 DEF Word, Words
  <1>. HIDE DEF w
  <1>4. WordInv(w, V, N, R)
    BY <1>1, <1>3 DEF WordInv
  <1>. QED
    BY <1>3, <1>4 DEF w

LEMMA ConstantWord ==
  ASSUME NEW n \in Nat, n < Size
  PROVE  Constant(n) \in [Models -> 0..(Size - 1)]
  <1>1. n \in 0..(Size - 1)
    BY SizeAssumption
  <1>. QED
    BY <1>1 DEF Constant

\* A word with a set of its own, or one that is shared by something larger.
LEMMA OtherSet ==
  ASSUME NEW w \in Words, NEW set \in Nat, NEW V, NEW N, NEW M, NEW R,
         WordInv(w, V, N, R), set \in DOMAIN M, N[w.set] \subseteq M[set]
  PROVE  [w EXCEPT !.set = set] \in Words /\ WordInv([w EXCEPT !.set = set], V, M, R)
  <1> DEFINE v == [w EXCEPT !.set = set]
  <1>1. v \in Words /\ v.set = set /\ v.over = w.over /\ v.from = w.from
    BY DEF Words
  <1>. HIDE DEF v
  <1>2. v.from \subseteq Marks(M[set])
    BY <1>1 DEF WordInv, Marks
  <1>3. WordInv(v, V, M, R)
    BY <1>1, <1>2, KnownMore DEF WordInv
  <1>. QED
    BY <1>1, <1>3 DEF v

LEMMA MovesInv == Inv /\ Moves => Inv'
  <1> SUFFICES ASSUME Inv, Moves PROVE Inv'
    OBVIOUS
  <1>1. PICK k \in DOMAIN paths :
          /\ Running(k, {"PUSH", "DUP1", "POP", "MSTORE", "MLOAD"})
          /\ LET op == Instr(k).op
                 s == paths[k]
                 fresh == Len(notes) + 1
                 written == op = "MLOAD" /\ s.mem # <<>>
                 copied == IF written THEN [s.mem[1] EXCEPT !.set = fresh]
                           ELSE Word(Constant(IF op = "PUSH" THEN Instr(k).arg ELSE 0), fresh, Clean, {})
             IN  /\ paths' = [paths EXCEPT ![k] =
                      CASE op = "DUP1" -> Next1(s, 0, <<Arg(k, 1)>>)
                        [] op = "POP" -> Next1(s, 1, <<>>)
                        [] op = "MSTORE" ->
                             [Next1(s, 1, <<>>) EXCEPT !.mem =
                                <<[Arg(k, 1) EXCEPT !.set = IF notes[@] = {} THEN fresh ELSE @]>>]
                        [] OTHER -> Next1(s, 0, <<copied>>)]
                 /\ notes' = CASE op = "PUSH" \/ (op = "MSTORE" /\ notes[Arg(k, 1).set] = {}) -> Append(notes, {})
                               [] op = "MLOAD" -> Append(notes, IF written THEN notes[s.mem[1].set] ELSE {})
                               [] OTHER -> notes
    BY Zenon DEF Moves
  <1> DEFINE s == paths[k]
             op == Instr(k).op
             fresh == Len(notes) + 1
             written == op = "MLOAD" /\ s.mem # <<>>
             constant == Word(Constant(IF op = "PUSH" THEN Instr(k).arg ELSE 0), fresh, Clean, {})
             copied == IF written THEN [s.mem[1] EXCEPT !.set = fresh] ELSE constant
  <1>2. UNCHANGED <<program, issues>>
    BY DEF Moves
  <1>3. /\ s \in Paths /\ s.status = "run" /\ PathInv(s, notes, issues)
        /\ op \in {"PUSH", "DUP1", "POP", "MSTORE", "MLOAD"}
        /\ (op = "PUSH" => Instr(k).arg < Size) /\ Instr(k).arg \in Nat
        /\ Required(op) <= Len(s.stack) /\ notes \in Seq(SUBSET Notes) /\ Len(s.stack) \in Nat
    BY <1>1, RunningFacts
  <1>4. fresh \in Nat /\ Len(notes) \in Nat /\ 0 \in Nat /\ 1 \in Nat /\ 0 <= Len(s.stack)
    BY <1>3
  <1>5. op \in {"DUP1", "POP", "MSTORE"} => 1 <= Len(s.stack)
    BY <1>3 DEF Required, Arithmetic
  <1>6. op \in {"DUP1", "POP", "MSTORE"} => Arg(k, 1) \in Words /\ WordInv(Arg(k, 1), s.models, notes, issues)
    BY <1>3, <1>5, ArgFacts
  <1>7. s.models \in SUBSET Models
    BY <1>3 DEF Paths
  <1>8. CASE op = "DUP1"
    <2>1. paths' = [paths EXCEPT ![k] = Next1(s, 0, <<Arg(k, 1)>>)] /\ notes' = notes
      BY <1>1, <1>8
    <2>2. <<Arg(k, 1)>> \in Seq(Words) /\ WordsInv(<<Arg(k, 1)>>, s.models, notes', issues)
      BY <1>6, <1>8, <2>1, One, OneWord
    <2>. HIDE DEF fresh, copied, op
    <2>. QED
      BY <1>2, <1>3, <1>4, <2>1, <2>2, GrowSame, MoveStep
  <1>9. CASE op = "POP"
    <2>1. paths' = [paths EXCEPT ![k] = Next1(s, 1, <<>>)] /\ notes' = notes
      BY <1>1, <1>9
    <2>2. <<>> \in Seq(Words) /\ WordsInv(<<>>, s.models, notes', issues) /\ 1 <= Len(s.stack)
      BY <1>5, <1>9, NoWord
    <2>. HIDE DEF fresh, copied, op
    <2>. QED
      BY <1>2, <1>3, <1>4, <2>1, <2>2, GrowSame, MoveStep
  <1>10. CASE op = "MSTORE"
    <2> DEFINE w == Arg(k, 1)
               set == IF notes[w.set] = {} THEN fresh ELSE w.set
               v == [w EXCEPT !.set = set]
               u == Next1(s, 1, <<>>)
               t == [u EXCEPT !.mem = <<v>>]
    <2>1. /\ paths' = [paths EXCEPT ![k] = [Next1(s, 1, <<>>) EXCEPT !.mem = <<v>>]]
          /\ notes' = IF notes[w.set] = {} THEN Append(notes, {}) ELSE notes
      BY <1>1, <1>10
    <2>2. w \in Words /\ WordInv(w, s.models, notes, issues) /\ w.set \in DOMAIN notes /\ w.set \in Nat
      BY <1>6, <1>10 DEF WordInv, Words
    <2>. HIDE DEF w
    <2>3. /\ notes' \in Seq(SUBSET Notes) /\ Grow(notes, notes') /\ set \in Nat /\ set \in DOMAIN notes'
          /\ notes[w.set] \subseteq notes'[set]
      <3>1. CASE notes[w.set] = {}
        <4>1. {} \subseteq Notes
          OBVIOUS
        <4>. QED
          BY <1>3, <1>4, <2>1, <3>1, <4>1, Fresh
      <3>2. CASE notes[w.set] # {}
        BY <1>3, <2>1, <2>2, <3>2, GrowSame
      <3>. QED
        BY <3>1, <3>2
    <2>. HIDE DEF set
    <2>4. v \in Words /\ WordInv(v, s.models, notes', issues)
      BY <2>2, <2>3, OtherSet
    <2>5. /\ <<>> \in Seq(Words) /\ WordsInv(<<>>, s.models, notes', issues) /\ 1 <= Len(s.stack)
      BY <1>5, <1>10, NoWord
    <2>6. u \in Paths /\ PathInv(u, notes', issues) /\ u.models = s.models /\ u.status = "run"
      <3>1. u \in Paths /\ u.models = s.models /\ u.status = "run"
        BY <1>3, <1>4, <2>5, NextPath
      <3>2. PathInv(u, notes', issues)
        BY <1>3, <1>4, <2>3, <2>5, MovePath
      <3>. QED
        BY <3>1, <3>2
    <2>7. <<v>> \in Seq(Words) /\ WordsInv(<<v>>, s.models, notes', issues)
      BY <2>4, One, OneWord
    <2>8. paths' = [paths EXCEPT ![k] = t]
      BY <2>1
    <2>. HIDE DEF u, v, s
    <2>9. /\ t \in Paths /\ t.mem = <<v>> /\ t.stack = u.stack /\ t.models = u.models /\ t.over = u.over
          /\ t.used = u.used /\ t.decided = u.decided /\ t.status = u.status
      BY <2>6, <2>7 DEF Paths
    <2>. HIDE DEF t
    <2>10. PathInv(t, notes', issues)
      BY <2>6, <2>7, <2>9 DEF PathInv, Used
    <2>. QED
      BY <1>2, <2>3, <2>8, <2>9, <2>10, OneStep
  <1>11. CASE op \in {"PUSH", "MLOAD"}
    <2> DEFINE A == IF written THEN notes[s.mem[1].set] ELSE {}
    <2>1. paths' = [paths EXCEPT ![k] = Next1(s, 0, <<copied>>)] /\ notes' = Append(notes, A)
      BY <1>1, <1>11
    <2>2. written => s.mem[1] \in Words /\ WordInv(s.mem[1], s.models, notes, issues)
      <3>1. s.mem \in Seq(Words)
        BY <1>3 DEF Paths
      <3>2. s.mem # <<>> => 1 \in DOMAIN s.mem
        BY <3>1
      <3>. QED
        BY <1>3, <3>1, <3>2 DEF PathInv, WordsInv
    <2>3. A \subseteq Notes
      BY <1>3, <2>2 DEF WordInv
    <2>4. /\ notes' \in Seq(SUBSET Notes) /\ Grow(notes, notes') /\ fresh \in DOMAIN notes' /\ notes'[fresh] = A
      BY <1>3, <2>1, <2>3, Fresh
    <2>5. constant \in Words /\ WordInv(constant, s.models, notes', issues)
      <3> DEFINE n == IF op = "PUSH" THEN Instr(k).arg ELSE 0
      <3>1. n \in Nat /\ n < Size
        BY <1>3, SizeAssumption
      <3>2. Constant(n) \in [Models -> 0..(Size - 1)]
        BY <3>1, ConstantWord
      <3>3. {} \in SUBSET Kinds /\ {} \subseteq Marks(notes'[fresh])
        OBVIOUS
      <3>. HIDE DEF n, fresh, s
      <3>4. Word(Constant(n), fresh, Clean, {}) \in Words /\ WordInv(Word(Constant(n), fresh, Clean, {}), s.models, notes', issues)
        BY <1>4, <1>7, <2>4, <3>2, <3>3, NewWord
      <3>. QED
        BY <3>4 DEF n, fresh, s
    <2>6. copied \in Words /\ WordInv(copied, s.models, notes', issues)
      <3>1. CASE written
        <4> DEFINE w == s.mem[1]
        <4>1. w \in Words /\ WordInv(w, s.models, notes, issues) /\ notes[w.set] \subseteq notes'[fresh]
          BY <2>2, <2>4, <3>1
        <4>. HIDE DEF w, fresh
        <4>2. [w EXCEPT !.set = fresh] \in Words /\ WordInv([w EXCEPT !.set = fresh], s.models, notes', issues)
          BY <1>4, <2>4, <4>1, OtherSet
        <4>3. copied = [w EXCEPT !.set = fresh]
          BY <3>1 DEF w
        <4>. QED
          BY <4>2, <4>3
      <3>2. CASE ~written
        BY <2>5, <3>2
      <3>. QED
        BY <3>1, <3>2
    <2>7. <<copied>> \in Seq(Words) /\ WordsInv(<<copied>>, s.models, notes', issues)
      <3>. HIDE DEF copied
      <3>. QED
        BY <2>6, One, OneWord
    <2>. HIDE DEF copied, A
    <2>. QED
      BY <1>2, <1>3, <1>4, <2>1, <2>4, <2>7, MoveStep
  <1>. QED
    BY <1>3, <1>8, <1>9, <1>10, <1>11

LEMMA ReadsInv == Inv /\ Reads => Inv'
  <1> SUFFICES ASSUME Inv, Reads PROVE Inv'
    OBVIOUS
  <1>1. PICK k \in DOMAIN paths :
          /\ Running(k, {"CALLVALUE", "CALLER", "ORIGIN", "NUMBER", "TIMESTAMP"})
          /\ LET op == Instr(k).op
                 set == CASE op \in {"CALLER", "ORIGIN"} -> Sender
                          [] op = "CALLVALUE" -> Callvalue
                          [] op = "NUMBER" -> BlockNumber
                          [] OTHER -> Len(notes) + 1
                 f == CASE op \in {"CALLER", "ORIGIN"} -> [i \in Models |-> i.sender]
                        [] op = "CALLVALUE" -> [i \in Models |-> i.sent]
                        [] OTHER -> Constant(Number)
                 from == CASE op = "ORIGIN" -> {"origin"} [] op \in {"NUMBER", "TIMESTAMP"} -> {"block"} [] OTHER -> {}
                 note == {[kind |-> c] : c \in from}
             IN  /\ paths' = [paths EXCEPT ![k] = Next1(@, 0, <<Word(f, set, Clean, from)>>)]
                 /\ notes' = IF set > Len(notes) THEN Append(notes, note) ELSE [notes EXCEPT ![set] = @ \cup note]
    BY Zenon DEF Reads
  <1> DEFINE s == paths[k]
             op == Instr(k).op
             set == CASE op \in {"CALLER", "ORIGIN"} -> Sender
                      [] op = "CALLVALUE" -> Callvalue
                      [] op = "NUMBER" -> BlockNumber
                      [] OTHER -> Len(notes) + 1
             f == CASE op \in {"CALLER", "ORIGIN"} -> [i \in Models |-> i.sender]
                    [] op = "CALLVALUE" -> [i \in Models |-> i.sent]
                    [] OTHER -> Constant(Number)
             from == CASE op = "ORIGIN" -> {"origin"} [] op \in {"NUMBER", "TIMESTAMP"} -> {"block"} [] OTHER -> {}
             note == {[kind |-> c] : c \in from}
             w == Word(f, set, Clean, from)
  <1>2. /\ paths' = [paths EXCEPT ![k] = Next1(s, 0, <<w>>)] /\ UNCHANGED <<program, issues>>
        /\ notes' = IF set > Len(notes) THEN Append(notes, note) ELSE [notes EXCEPT ![set] = @ \cup note]
    BY <1>1 DEF Reads
  <1>3. /\ s \in Paths /\ s.status = "run" /\ op \in {"CALLVALUE", "CALLER", "ORIGIN", "NUMBER", "TIMESTAMP"}
        /\ notes \in Seq(SUBSET Notes) /\ {Sender, Callvalue, BlockNumber} \subseteq DOMAIN notes
        /\ Len(s.stack) \in Nat
    BY <1>1, RunningFacts
  <1>4. s.models \in SUBSET Models /\ 0 \in Nat /\ 0 <= Len(s.stack) /\ Len(notes) \in Nat
        /\ DOMAIN notes = 1..Len(notes)
    BY <1>3 DEF Paths
  <1>5. f \in [Models -> 0..(Size - 1)]
    <2>1. /\ Size \in Nat /\ Size > 2 /\ 0..1 \subseteq 0..(Size - 1) /\ Number \in Nat /\ Number < Size
      BY SizeAssumption DEF Number
    <2>2. \A i \in Models : i.sender \in 0..(Size - 1) /\ i.sent \in 0..(Size - 1)
      BY <2>1 DEF Models
    <2>3. Constant(Number) \in [Models -> 0..(Size - 1)]
      BY <2>1, ConstantWord
    <2>. QED
      BY <2>2, <2>3
  <1>6. from \in SUBSET Kinds /\ note \subseteq Notes
    BY DEF Kinds, Notes
  <1>7. \/ set \in DOMAIN notes
        \/ set = Len(notes) + 1
    BY <1>3
  <1>. HIDE DEF f, from, set, s, op, w
  <1>71. \A c \in from : [kind |-> c] \in note
    OBVIOUS
  <1>. HIDE DEF note
  <1>72. notes' = IF set > Len(notes) THEN Append(notes, note) ELSE [notes EXCEPT ![set] = @ \cup note]
    BY <1>2
  <1>8. /\ notes' \in Seq(SUBSET Notes) /\ Grow(notes, notes') /\ set \in Nat /\ set \in DOMAIN notes'
        /\ note \subseteq notes'[set]
    <2>1. CASE set \in DOMAIN notes
      <3>1. notes' = [notes EXCEPT ![set] = @ \cup note] /\ set \in Nat
        <4>1. set \in Nat /\ ~(set > Len(notes))
          BY <1>4, <2>1
        <4>. QED
          BY <1>72, <4>1
      <3>. QED
        BY <1>3, <1>6, <2>1, <3>1, Marked
    <2>2. CASE set = Len(notes) + 1
      <3>1. notes' = Append(notes, note)
        <4>1. set > Len(notes)
          BY <1>4, <2>2
        <4>. QED
          BY <1>72, <4>1
      <3>. QED
        BY <1>3, <1>6, <2>2, <3>1, Fresh
    <2>. QED
      BY <1>7, <2>1, <2>2
  <1>9. from \subseteq Marks(notes'[set])
    <2> SUFFICES ASSUME NEW c \in from PROVE c \in Marks(notes'[set])
      OBVIOUS
    <2>1. [kind |-> c] \in notes'[set] /\ [kind |-> c].kind = c
      BY <1>71, <1>8
    <2>. QED
      BY <2>1 DEF Marks
  <1>10. w \in Words /\ WordInv(w, s.models, notes', issues)
    BY <1>4, <1>5, <1>6, <1>8, <1>9, NewWord DEF w
  <1>. HIDE DEF w, note
  <1>11. <<w>> \in Seq(Words) /\ WordsInv(<<w>>, s.models, notes', issues)
    BY <1>10, One, OneWord
  <1>. QED
    BY <1>2, <1>3, <1>4, <1>8, <1>11, MoveStep DEF s

LEMMA BlockhashInv == Inv /\ Blockhash => Inv'
  <1> SUFFICES ASSUME Inv, Blockhash PROVE Inv'
    OBVIOUS
  <1>1. PICK k \in DOMAIN paths :
          /\ Running(k, {"BLOCKHASH"})
          /\ LET possible == \E i \in paths[k].models : Arg(k, 1).f[i] < Number
                 old == paths[k].old \/ possible
                 from == IF possible THEN {"block"} ELSE {}
             IN  /\ paths' = [paths EXCEPT ![k] =
                      [Next1(@, 1, <<Word([i \in Models |-> i.sender], Len(notes) + 1, Clean, from)>>)
                         EXCEPT !.old = old]]
                 /\ notes' = Append(notes, IF old THEN {[kind |-> "block"]} ELSE {})
    BY Zenon DEF Blockhash
  <1> DEFINE s == paths[k]
             possible == \E i \in s.models : Arg(k, 1).f[i] < Number
             old == s.old \/ possible
             from == IF possible THEN {"block"} ELSE {}
             f == [i \in Models |-> i.sender]
             fresh == Len(notes) + 1
             w == Word(f, fresh, Clean, from)
             A == IF old THEN {[kind |-> "block"]} ELSE {}
             u == Next1(s, 1, <<w>>)
             t == [u EXCEPT !.old = old]
  <1>2. /\ paths' = [paths EXCEPT ![k] = t] /\ notes' = Append(notes, A) /\ UNCHANGED <<program, issues>>
    BY <1>1 DEF Blockhash
  <1>3. /\ s \in Paths /\ s.status = "run" /\ PathInv(s, notes, issues)
        /\ Required("BLOCKHASH") <= Len(s.stack) /\ notes \in Seq(SUBSET Notes) /\ Len(s.stack) \in Nat
    <2>1. /\ s \in Paths /\ s.status = "run" /\ PathInv(s, notes, issues) /\ Instr(k).op \in {"BLOCKHASH"}
          /\ Required(Instr(k).op) <= Len(s.stack) /\ notes \in Seq(SUBSET Notes) /\ Len(s.stack) \in Nat
      BY <1>1, RunningFacts
    <2>. QED
      BY <2>1
  <1>4. 1 <= Len(s.stack) /\ 1 \in Nat /\ fresh \in Nat
    BY <1>3 DEF Required, Arithmetic
  <1>5. s.models \in SUBSET Models /\ s.old \in BOOLEAN
    BY <1>3 DEF Paths
  <1>6. f \in [Models -> 0..(Size - 1)]
    <2>1. 0..1 \subseteq 0..(Size - 1)
      BY SizeAssumption
    <2>. QED
      BY <2>1 DEF Models
  <1>7. from \in SUBSET Kinds /\ A \subseteq Notes /\ old \in BOOLEAN /\ from \subseteq Marks(A)
    <2>1. [kind |-> "block"].kind = "block" /\ [kind |-> "block"] \in Notes
      BY DEF Notes, Kinds
    <2>2. possible => old
      OBVIOUS
    <2>3. old \in BOOLEAN
      BY <1>5
    <2>. HIDE DEF possible, old
    <2>. QED
      BY <2>1, <2>2, <2>3 DEF Kinds, Marks
  <1>. HIDE DEF A, f, old, from, s
  <1>8. notes' \in Seq(SUBSET Notes) /\ Grow(notes, notes') /\ fresh \in DOMAIN notes' /\ notes'[fresh] = A
    BY <1>2, <1>3, <1>7, Fresh
  <1>9. w \in Words /\ WordInv(w, s.models, notes', issues)
    <2>. HIDE DEF fresh
    <2>. QED
      BY <1>4, <1>5, <1>6, <1>7, <1>8, NewWord
  <1>. HIDE DEF w, fresh
  <1>10. <<w>> \in Seq(Words) /\ WordsInv(<<w>>, s.models, notes', issues)
    BY <1>9, One, OneWord
  <1>11. u \in Paths
    BY <1>3, <1>4, <1>10, NextPath
  <1>12. PathInv(u, notes', issues)
    BY <1>3, <1>4, <1>8, <1>10, MovePath
  <1>. HIDE DEF u
  <1>13. /\ t \in Paths /\ t.stack = u.stack /\ t.mem = u.mem /\ t.models = u.models /\ t.over = u.over
         /\ t.used = u.used /\ t.decided = u.decided /\ t.status = u.status
    BY <1>7, <1>11 DEF Paths
  <1>. HIDE DEF t
  <1>14. PathInv(t, notes', issues)
    BY <1>12, <1>13 DEF PathInv, Used, Settled
  <1>. QED
    BY <1>2, <1>8, <1>13, <1>14, OneStep DEF s

\* What overflows and is not overlooked is in the condition of the annotation.
LEMMA OverflowNoted ==
  ASSUME NEW x \in Words, NEW y \in Words, NEW op, NEW i \in Models,
         Overflows(op, x.f[i], y.f[i]), ~Overlooked(op, x, y)
  PROVE  i \in Constraint(op, x, y)
  <1>1. CASE op # "EXP"
    BY <1>1 DEF Constraint
  <1>2. CASE op = "EXP"
    <2>1. IsConst(x) /\ ~Unnoted(op, x, y)
      BY <1>2 DEF Overlooked
    <2>2. PICK n \in 0..(Size - 1) : x.f = Constant(n)
      BY <2>1 DEF IsConst
    <2>3. \A m \in Models : x.f[m] = n
      BY <2>2 DEF Constant
    <2>4. Of(x) = n
      BY <2>3 DEF Of
    <2>5. n > 1
      <3>1. ~(Of(x) < 2)
        BY <1>2, <2>1 DEF Unnoted
      <3>. QED
        BY <2>4, <3>1, SizeAssumption
    <2>6. y.f[i] \in 0..(Size - 1)
      BY DEF Words
    <2>7. Overflows("EXP", n, y.f[i])
      BY <1>2, <2>3
    <2>8. y.f[i] >= ExponentBound(n)
      BY <2>5, <2>6, <2>7, PowerAssumption
    <2>. QED
      BY <1>2, <2>1, <2>4, <2>8 DEF Constraint
  <1>. QED
    BY <1>1, <1>2

LEMMA ResultValue ==
  ASSUME NEW op \in Arithmetic \cup {"LT", "EQ"}, NEW a \in 0..(Size - 1), NEW b \in 0..(Size - 1)
  PROVE  Exact(op, a, b) % Size \in 0..(Size - 1)
  <1>1. a \in Int /\ b \in Int /\ a + b \in Int /\ a - b \in Int /\ a * b \in Int /\ Size \in Nat /\ Size > 0
    BY SizeAssumption
  <1>2. Exact(op, a, b) \in Int
    <2>1. CASE op \in {"ADD", "SUB", "MUL"}
      BY <1>1, <2>1 DEF Exact
    <2>2. CASE op = "EXP"
      BY <2>2, PowerAssumption
    <2>3. CASE op \in {"LT", "EQ"}
      BY <2>3 DEF Exact
    <2>. QED
      BY <2>1, <2>2, <2>3 DEF Arithmetic
  <1> DEFINE e == Exact(op, a, b)
  <1>. HIDE DEF e
  <1>3. e \in Int => e % Size \in 0..(Size - 1)
    BY <1>1
  <1>. QED
    BY <1>2, <1>3 DEF e

\* The word that an operation pushes: a comparison leaves a Bool.
ResultWord(g, r, o, c, b) == [Word(g, r, o, c) EXCEPT !.bool = b]

LEMMA ResultFacts ==
  ASSUME NEW g \in [Models -> 0..(Size - 1)], NEW r \in Nat, NEW o \in [Models -> SUBSET Nat],
         NEW c \in SUBSET Kinds, NEW b \in BOOLEAN
  PROVE  /\ ResultWord(g, r, o, c, b) \in Words
         /\ ResultWord(g, r, o, c, b).set = r
         /\ ResultWord(g, r, o, c, b).over = o
         /\ ResultWord(g, r, o, c, b).from = c
  <1>1. ResultWord(g, r, o, c, b) = [f |-> g, set |-> r, bool |-> b, over |-> o, from |-> c]
    BY DEF ResultWord, Word
  <1>. QED
    BY <1>1 DEF Words

LEMMA OperationInv == Inv /\ Operation => Inv'
  <1> SUFFICES ASSUME Inv, Operation PROVE Inv'
    OBVIOUS
  <1>1. PICK k \in DOMAIN paths :
          /\ Running(k, Arithmetic \cup {"LT", "EQ"})
          /\ LET op == Instr(k).op
                 pc == paths[k].pc
                 x == Arg(k, 1)
                 y == Arg(k, 2)
                 note == IF Unnoted(op, x, y) \/ Cached("integer", pc) THEN {}
                         ELSE {[kind |-> "over", pc |-> pc, state |-> paths[k].models, bad |-> Constraint(op, x, y)]}
                 noted == [notes EXCEPT ![x.set] = @ \cup note]
                 over == [i \in Models |-> x.over[i] \cup y.over[i] \cup
                            IF Overflows(op, x.f[i], y.f[i]) /\ ~Overlooked(op, x, y) THEN {pc} ELSE {}]
                 result == [Word([i \in Models |-> Exact(op, x.f[i], y.f[i]) % Size], Len(notes) + 1, over, x.from \cup y.from)
                              EXCEPT !.bool = op \in {"LT", "EQ"}]
             IN  /\ notes' = Append(noted, noted[x.set] \cup noted[y.set])
                 /\ paths' = [paths EXCEPT ![k] = Next1(@, 2, <<result>>)]
    BY Zenon DEF Operation
  <1> DEFINE s == paths[k]
             op == Instr(k).op
             pc == s.pc
             x == Arg(k, 1)
             y == Arg(k, 2)
             entry == [kind |-> "over", pc |-> pc, state |-> s.models, bad |-> Constraint(op, x, y)]
             note == IF Unnoted(op, x, y) \/ Cached("integer", pc) THEN {} ELSE {entry}
             noted == [notes EXCEPT ![x.set] = @ \cup note]
             over == [i \in Models |-> x.over[i] \cup y.over[i] \cup
                        IF Overflows(op, x.f[i], y.f[i]) /\ ~Overlooked(op, x, y) THEN {pc} ELSE {}]
             f == [i \in Models |-> Exact(op, x.f[i], y.f[i]) % Size]
             fresh == Len(notes) + 1
             bool == op \in {"LT", "EQ"}
             w == ResultWord(f, fresh, over, x.from \cup y.from, bool)
             A == noted[x.set] \cup noted[y.set]
  <1>2. /\ paths' = [paths EXCEPT ![k] = Next1(s, 2, <<w>>)] /\ notes' = Append(noted, A)
        /\ UNCHANGED <<program, issues>>
    BY <1>1 DEF Operation, ResultWord
  <1>3. /\ s \in Paths /\ s.status = "run" /\ PathInv(s, notes, issues) /\ op \in Arithmetic \cup {"LT", "EQ"}
        /\ Required(op) <= Len(s.stack) /\ notes \in Seq(SUBSET Notes) /\ Len(s.stack) \in Nat
    BY <1>1, RunningFacts
  <1>4. 2 <= Len(s.stack) /\ 1 <= Len(s.stack)
    <2>1. Required(op) = 2
      BY <1>3 DEF Required, Arithmetic
    <2>. QED
      BY <1>3, <2>1
  <1>5. /\ x \in Words /\ WordInv(x, s.models, notes, issues) /\ y \in Words /\ WordInv(y, s.models, notes, issues)
    BY <1>3, <1>4, ArgFacts
  <1>6. s.models \in SUBSET Models /\ pc \in Nat /\ fresh \in Nat
    BY <1>3 DEF Paths
  <1>. HIDE DEF s, op, x, y, pc
  <1>7. f \in [Models -> 0..(Size - 1)]
    <2>1. \A i \in Models : x.f[i] \in 0..(Size - 1) /\ y.f[i] \in 0..(Size - 1)
      BY <1>5 DEF Words
    <2>. QED
      BY <1>3, <2>1, ResultValue
  <1>8. over \in [Models -> SUBSET Nat] /\ x.from \cup y.from \in SUBSET Kinds /\ bool \in BOOLEAN
    BY <1>5, <1>6 DEF Words
  <1>9. w \in Words /\ w.set = fresh /\ w.over = over /\ w.from = x.from \cup y.from
    <2>. HIDE DEF f, over, fresh, bool
    <2>. QED
      BY <1>6, <1>7, <1>8, ResultFacts
  <1>10. note \subseteq Notes
    <2>1. Constraint(op, x, y) \subseteq Models
      BY DEF Constraint
    <2>. QED
      BY <1>6, <2>1 DEF Notes
  <1>11. x.set \in DOMAIN notes /\ y.set \in DOMAIN notes
    BY <1>5 DEF WordInv
  <1>12. /\ ~Unnoted(op, x, y) => Issued(issues, "integer", pc) \/ entry \in note
    BY DEF Cached, Issued
  <1>. HIDE DEF note
  <1>13. /\ noted \in Seq(SUBSET Notes) /\ Grow(notes, noted) /\ DOMAIN noted = DOMAIN notes
         /\ noted[x.set] = notes[x.set] \cup note
    BY <1>3, <1>10, <1>11, Marked
  <1>14. Len(noted) = Len(notes) /\ A \subseteq Notes
    <2>. HIDE DEF noted
    <2>. QED
      BY <1>3, <1>11, <1>13
  <1>. HIDE DEF noted
  <1>15. notes' \in Seq(SUBSET Notes) /\ Grow(noted, notes') /\ fresh \in DOMAIN notes' /\ notes'[fresh] = A
    BY <1>2, <1>13, <1>14, Fresh
  <1>16. Grow(notes, notes') /\ notes[x.set] \subseteq A /\ notes[y.set] \subseteq A /\ note \subseteq A
    BY <1>11, <1>13, <1>15 DEF Grow
  <1>17. \A i \in s.models : \A p \in over[i] : Known(issues, A, i, p)
    <2> SUFFICES ASSUME NEW i \in s.models, NEW p \in over[i] PROVE Known(issues, A, i, p)
      OBVIOUS
    <2>1. CASE p \in x.over[i]
      <3>1. Known(issues, notes[x.set], i, p)
        BY <1>5, <2>1 DEF WordInv
      <3>. QED
        BY <1>16, <3>1, KnownMore
    <2>2. CASE p \in y.over[i]
      <3>1. Known(issues, notes[y.set], i, p)
        BY <1>5, <2>2 DEF WordInv
      <3>. QED
        BY <1>16, <3>1, KnownMore
    <2>3. CASE p \notin x.over[i] /\ p \notin y.over[i]
      <3>1. i \in Models
        BY <1>6
      <3>2. p = pc /\ Overflows(op, x.f[i], y.f[i]) /\ ~Overlooked(op, x, y)
        BY <2>3, <3>1
      <3>3. i \in Constraint(op, x, y) /\ ~Unnoted(op, x, y)
        BY <1>5, <3>1, <3>2, OverflowNoted DEF Overlooked
      <3>. QED
        BY <1>12, <1>16, <3>2, <3>3 DEF Known
    <2>. QED
      BY <2>1, <2>2, <2>3
  <1>18. WordInv(w, s.models, notes', issues)
    <2>2. x.from \cup y.from \subseteq Marks(A)
      BY <1>5, <1>16 DEF WordInv, Marks
    <2>. HIDE DEF w, over, A, fresh
    <2>. QED
      BY <1>9, <1>15, <1>17, <2>2 DEF WordInv
  <1>. HIDE DEF w, A, over, fresh, f
  <1>19. <<w>> \in Seq(Words) /\ WordsInv(<<w>>, s.models, notes', issues)
    BY <1>9, <1>18, One, OneWord
  <1>20. 2 \in Nat
    OBVIOUS
  <1>. QED
    BY <1>2, <1>3, <1>4, <1>15, <1>16, <1>19, <1>20, MoveStep DEF s

\* What words carry goes to the path.
LEMMA SinkPath ==
  ASSUME Inv, NEW s \in Paths, s.status = "run", PathInv(s, notes, issues),
         NEW words, words \subseteq Words, \A w \in words : WordInv(w, s.models, notes, issues)
  PROVE  /\ Sink(s, words) \in Paths /\ PathInv(Sink(s, words), notes, issues)
         /\ Sink(s, words).stack = s.stack /\ Sink(s, words).models = s.models
         /\ Sink(s, words).status = "run" /\ Sink(s, words).pc = s.pc /\ Sink(s, words).decided = s.decided
  <1> DEFINE A == s.over \cup {a \in UNION {notes[w.set] : w \in words} : a.kind = "over"}
             U == [i \in Models |-> s.used[i] \cup UNION {w.over[i] : w \in words}]
             t == [s EXCEPT !.over = A, !.used = U]
  <1>1. s.over \subseteq Notes /\ s.used \in [Models -> SUBSET Nat] /\ s.models \subseteq Models
    BY DEF Paths
  <1>2. t = Sink(s, words)
    <2>1. DOMAIN s.used = Models
      BY <1>1
    <2>2. U = [i \in Models |-> s.used[i] \cup UNION {w.over[i] : w \in words}]
      OBVIOUS
    <2>. QED
      BY DEF Sink
  <1>3. A \subseteq Notes
    <2>1. \A w \in words : w.set \in DOMAIN notes
      BY DEF WordInv
    <2>2. notes \in Seq(SUBSET Notes)
      BY DEF Inv, Types
    <2>. QED
      BY <1>1, <2>1, <2>2
  <1>4. U \in [Models -> SUBSET Nat]
    <2>1. \A w \in words : w.over \in [Models -> SUBSET Nat]
      BY DEF Words
    <2>. QED
      BY <1>1, <2>1
  <1>5. ASSUME NEW i \in s.models, NEW p \in U[i]
        PROVE  Known(issues, A, i, p)
    <2>1. CASE p \in s.used[i]
      <3>1. Known(issues, s.over, i, p)
        BY <2>1 DEF PathInv, Used
      <3>. QED
        BY <3>1, KnownMore
    <2>2. CASE p \notin s.used[i]
      <3>1. PICK w \in words : p \in w.over[i]
        BY <1>1, <2>2
      <3>2. Known(issues, notes[w.set], i, p)
        BY <3>1 DEF WordInv
      <3>. QED
        BY <3>2 DEF Known
    <2>. QED
      BY <2>1, <2>2
  <1>. HIDE DEF A, U
  <1>6. /\ t \in Paths /\ t.stack = s.stack /\ t.mem = s.mem /\ t.models = s.models /\ t.over = A /\ t.used = U
        /\ t.decided = s.decided /\ t.status = "run" /\ t.pc = s.pc
    BY <1>3, <1>4 DEF Paths
  <1>. HIDE DEF t
  <1>7. PathInv(t, notes, issues)
    BY <1>5, <1>6 DEF PathInv, Used
  <1>. QED
    BY <1>2, <1>6, <1>7

\* The operand of a sink is popped.
LEMMA SinkNext ==
  ASSUME Inv, NEW k \in DOMAIN paths, paths[k] \in Paths, paths[k].status = "run", 1 <= Len(paths[k].stack)
  PROVE  LET t == Next1(Sink(paths[k], {Arg(k, 1)}), 1, <<>>)
         IN  /\ t \in Paths /\ PathInv(t, notes, issues) /\ t.models = paths[k].models /\ t.status = "run"
             /\ t.decided = paths[k].decided
  <1> DEFINE s == paths[k]
             w == Arg(k, 1)
             v == Sink(s, {w})
             t == Next1(v, 1, <<>>)
  <1>1. w \in Words /\ WordInv(w, s.models, notes, issues) /\ PathInv(s, notes, issues)
    BY ArgFacts DEF Inv
  <1>. HIDE DEF s, w
  <1>2. /\ v \in Paths /\ PathInv(v, notes, issues) /\ v.stack = s.stack /\ v.models = s.models
        /\ v.status = "run" /\ v.decided = s.decided
    BY <1>1, SinkPath DEF s
  <1>. HIDE DEF v
  <1>3. /\ <<>> \in Seq(Words) /\ WordsInv(<<>>, v.models, notes, issues) /\ 1 <= Len(v.stack) /\ 1 \in Nat
    BY <1>2, NoWord DEF s
  <1>4. t \in Paths /\ t.models = v.models /\ t.status = v.status /\ t.decided = v.decided
    BY <1>2, <1>3, NextPath
  <1>5. PathInv(t, notes, issues)
    BY <1>2, <1>3, GrowSame, MovePath
  <1>. QED
    BY <1>2, <1>4, <1>5 DEF v, w, s

LEMMA SinksInv == Inv /\ Sinks => Inv'
  <1> SUFFICES ASSUME Inv, Sinks PROVE Inv'
    OBVIOUS
  <1>1. PICK k \in DOMAIN paths :
          /\ Running(k, {"SSTORE", "CALL"})
          /\ paths' = [paths EXCEPT ![k] = Next1(Sink(@, {Arg(k, 1)}), 1, <<>>)]
    BY DEF Sinks
  <1>2. UNCHANGED <<program, notes, issues>>
    BY DEF Sinks
  <1>3. paths[k] \in Paths /\ paths[k].status = "run" /\ 1 <= Len(paths[k].stack) /\ notes \in Seq(SUBSET Notes)
    <2>1. /\ paths[k] \in Paths /\ paths[k].status = "run" /\ Instr(k).op \in {"SSTORE", "CALL"}
          /\ Required(Instr(k).op) <= Len(paths[k].stack) /\ notes \in Seq(SUBSET Notes)
      BY <1>1, RunningFacts
    <2>2. Required(Instr(k).op) = 1
      BY <2>1 DEF Required, Arithmetic
    <2>. QED
      BY <2>1, <2>2
  <1> DEFINE t == Next1(Sink(paths[k], {Arg(k, 1)}), 1, <<>>)
  <1>4. t \in Paths /\ PathInv(t, notes, issues) /\ paths' = [paths EXCEPT ![k] = t]
    BY <1>1, <1>3, SinkNext
  <1>. HIDE DEF t
  <1>. QED
    BY <1>2, <1>3, <1>4, GrowSame, OneStep

\* A branch: fewer valuations, more decisions.
LEMMA Branch ==
  ASSUME NEW u \in Paths, u.status = "run", NEW N, NEW R, NEW Q, R \subseteq Q, PathInv(u, N, R),
         NEW D \in SUBSET [module : Kinds, pc : Nat], \A d \in D : Issued(Q, d.module, d.pc),
         NEW V, V \subseteq u.models, NEW pc \in Nat
  PROVE  LET t == [u EXCEPT !.decided = D, !.models = V, !.pc = pc] IN t \in Paths /\ PathInv(t, N, Q)
  <1> DEFINE t == [u EXCEPT !.decided = D, !.models = V, !.pc = pc]
  <1>1. V \subseteq Models
    BY DEF Paths
  <1>2. /\ t \in Paths /\ t.stack = u.stack /\ t.mem = u.mem /\ t.models = V /\ t.over = u.over
        /\ t.used = u.used /\ t.decided = D /\ t.status = "run"
    BY <1>1 DEF Paths
  <1>. HIDE DEF t
  <1>3. WordsInv(u.stack, V, N, Q) /\ WordsInv(u.mem, V, N, Q)
    BY GrowSame, WordsKept DEF PathInv
  <1>4. Used(t, Q)
    <2> SUFFICES ASSUME NEW i \in V, NEW p \in u.used[i] PROVE Known(Q, u.over, i, p)
      BY <1>2 DEF Used
    <2>1. Known(R, u.over, i, p)
      BY DEF PathInv, Used
    <2>. QED
      BY <2>1, KnownMore
  <1>5. PathInv(t, N, Q)
    BY <1>2, <1>3, <1>4 DEF PathInv
  <1>. QED
    BY <1>2, <1>5 DEF t

LEMMA JumpiInv == Inv /\ Jumpi => Inv'
  <1> SUFFICES ASSUME Inv, Jumpi PROVE Inv'
    OBVIOUS
  <1>1. PICK k \in DOMAIN paths :
          /\ Running(k, {"JUMPI"})
          /\ LET w == Arg(k, 1)
                 pc == paths[k].pc
                 possible == paths[k].models # {}
                 s == [Next1(Sink(paths[k], {w}), 1, <<>>)
                         EXCEPT !.decided = IF possible THEN @ \cup {[module |-> c, pc |-> pc] : c \in w.from} ELSE @]
                 taken == [s EXCEPT !.pc = Instr(k).arg, !.models = {i \in @ : w.f[i] # 0}]
                 falls == [s EXCEPT !.models = {i \in @ : w.f[i] = 0}]
             IN  /\ paths' = IF IsConst(w) THEN [paths EXCEPT ![k] = IF Of(w) # 0 THEN taken ELSE falls]
                             ELSE Append([paths EXCEPT ![k] = taken], falls)
                 /\ issues' = issues \cup {[module |-> c, pc |-> pc] :
                                             c \in {d \in Decided(k, w) : possible /\ ~Cached(d, pc)}}
    BY Zenon DEF Jumpi
  <1> DEFINE w == Arg(k, 1)
             pc == paths[k].pc
             possible == paths[k].models # {}
             u == Next1(Sink(paths[k], {w}), 1, <<>>)
             new == {[module |-> c, pc |-> pc] : c \in w.from}
             D == IF possible THEN u.decided \cup new ELSE u.decided
             s == [u EXCEPT !.decided = D]
             T == {i \in s.models : w.f[i] # 0}
             F == {i \in s.models : w.f[i] = 0}
             taken == [s EXCEPT !.pc = Instr(k).arg, !.models = T]
             falls == [s EXCEPT !.models = F]
  <1>2. /\ UNCHANGED <<program, notes>>
        /\ issues' = issues \cup {[module |-> c, pc |-> pc] : c \in {d \in Decided(k, w) : possible /\ ~Cached(d, pc)}}
    BY <1>1 DEF Jumpi
  <1>3. paths' = IF IsConst(w) THEN [paths EXCEPT ![k] = IF Of(w) # 0 THEN taken ELSE falls]
                 ELSE Append([paths EXCEPT ![k] = taken], falls)
    BY <1>1
  <1>4. /\ paths[k] \in Paths /\ paths[k].status = "run" /\ 1 <= Len(paths[k].stack) /\ notes \in Seq(SUBSET Notes)
        /\ Instr(k).arg \in Nat
    <2>1. /\ paths[k] \in Paths /\ paths[k].status = "run" /\ Instr(k).op \in {"JUMPI"}
          /\ Required(Instr(k).op) <= Len(paths[k].stack) /\ notes \in Seq(SUBSET Notes) /\ Instr(k).arg \in Nat
      BY <1>1, RunningFacts
    <2>2. Required(Instr(k).op) = 1
      BY <2>1 DEF Required, Arithmetic
    <2>. QED
      BY <2>1, <2>2
  <1>5. u \in Paths /\ PathInv(u, notes, issues) /\ u.status = "run" /\ u.decided = paths[k].decided /\ u.models = paths[k].models
    BY <1>4, SinkNext
  <1>6. w \in Words /\ WordInv(w, paths[k].models, notes, issues) /\ pc \in Nat
    <2>1. 1 \in Nat \ {0} /\ pc \in Nat
      BY <1>4 DEF Paths
    <2>. QED
      BY <1>4, <2>1, ArgFacts
  <1>7. issues \subseteq issues'
    BY <1>2
  <1>. HIDE DEF u, w, pc
  <1>8. D \in SUBSET [module : Kinds, pc : Nat]
    <2>1. u.decided \subseteq [module : Kinds, pc : Nat]
      BY <1>5 DEF Paths
    <2>2. w.from \subseteq Kinds
      BY <1>6 DEF Words
    <2>. QED
      BY <1>6, <2>1, <2>2
  <1>9. \A d \in D : Issued(issues', d.module, d.pc)
    <2>1. \A d \in u.decided : Issued(issues', d.module, d.pc)
      BY <1>5, <1>7 DEF PathInv, Issued
    <2>2. ASSUME possible, NEW c \in w.from
          PROVE  Issued(issues', c, pc)
      <3>1. c \in Marks(notes[w.set]) /\ c # "over"
        BY <1>6 DEF WordInv, Words, Kinds
      <3>2. c \in Decided(k, w)
        BY <3>1 DEF Decided, Marks
      <3>3. CASE Cached(c, pc)
        BY <1>7, <3>3 DEF Cached, Issued
      <3>4. CASE ~Cached(c, pc)
        BY <1>2, <2>2, <3>2, <3>4 DEF Issued
      <3>. QED
        BY <3>3, <3>4
    <2>. QED
      BY <2>1, <2>2
  <1>. HIDE DEF D
  <1>10. s.models = u.models /\ s.pc = u.pc /\ u.pc \in Nat
    BY <1>5 DEF Paths
  <1>11. T \subseteq u.models /\ F \subseteq u.models
    BY <1>10
  <1>. HIDE DEF T, F
  <1>12. taken \in Paths /\ PathInv(taken, notes, issues')
    <2> DEFINE t == [u EXCEPT !.decided = D, !.models = T, !.pc = Instr(k).arg]
    <2>1. t \in Paths /\ PathInv(t, notes, issues')
      BY <1>4, <1>5, <1>7, <1>8, <1>9, <1>11, Branch
    <2>2. taken = t
      BY <1>5 DEF Paths
    <2>. QED
      BY <2>1, <2>2
  <1>13. falls \in Paths /\ PathInv(falls, notes, issues')
    <2> DEFINE t == [u EXCEPT !.decided = D, !.models = F, !.pc = u.pc]
    <2>1. t \in Paths /\ PathInv(t, notes, issues')
      BY <1>5, <1>7, <1>8, <1>9, <1>10, <1>11, Branch
    <2>2. falls = t
      BY <1>5 DEF Paths
    <2>. QED
      BY <2>1, <2>2
  <1>. HIDE DEF taken, falls
  <1>14. Grow(notes, notes') /\ notes' = notes
    BY <1>2, GrowSame
  <1>15. CASE IsConst(w)
    <2>1. CASE Of(w) # 0
      BY <1>2, <1>3, <1>4, <1>7, <1>12, <1>14, <1>15, <2>1, OneStep
    <2>2. CASE ~(Of(w) # 0)
      BY <1>2, <1>3, <1>4, <1>7, <1>13, <1>14, <1>15, <2>2, OneStep
    <2>. QED
      BY <2>1, <2>2
  <1>16. CASE ~IsConst(w)
    <2> DEFINE q == [paths EXCEPT ![k] = taken]
    <2>1. paths' = Append(q, falls)
      BY <1>3, <1>16
    <2>2. paths \in Seq(Paths)
      BY DEF Inv, Types
    <2>3. /\ q \in Seq(Paths) /\ DOMAIN q = DOMAIN paths
          /\ \A j \in DOMAIN paths : q[j] = IF j = k THEN taken ELSE paths[j]
      BY <1>12, <2>2, ExceptSeq
    <2>. HIDE DEF q
    <2>4. /\ paths' \in Seq(Paths) /\ DOMAIN paths' = DOMAIN paths \cup {Len(q) + 1}
          /\ Len(q) + 1 \notin DOMAIN paths
          /\ \A j \in DOMAIN paths : paths'[j] = q[j]
          /\ paths'[Len(q) + 1] = falls
      BY <1>13, <2>1, <2>3, AppendProperties
    <2>5. \A j \in DOMAIN paths : PathInv(paths[j], notes', issues')
      BY <1>7, <1>14, PathIdle DEF Inv
    <2>6. Types'
      BY <1>2, <2>4 DEF Inv, Types
    <2>7. \A j \in DOMAIN paths' : PathInv(paths'[j], notes', issues')
      BY <1>12, <1>13, <1>14, <2>3, <2>4, <2>5
    <2>. QED
      BY <2>6, <2>7 DEF Inv
  <1>. QED
    BY <1>15, <1>16

\* An overflow that is used and still possible is found.
LEMMA EndsSettled ==
  ASSUME NEW s \in Paths, NEW R, Used(s, R), NEW Q, R \subseteq Q,
         \A pc \in Found(s) : Issued(Q, "integer", pc)
  PROVE  Settled(s, Q)
  <1> SUFFICES ASSUME NEW i \in s.models, NEW pc \in s.used[i] PROVE Issued(Q, "integer", pc)
    BY DEF Settled
  <1>1. CASE Issued(R, "integer", pc)
    BY <1>1 DEF Issued
  <1>2. CASE ~Issued(R, "integer", pc)
    <2>1. PICK a \in s.over : a.kind = "over" /\ a.pc = pc /\ i \in a.state /\ i \in a.bad
      BY <1>2 DEF Used, Known
    <2>2. pc \in Found(s)
      BY <2>1 DEF Found
    <2>. QED
      BY <2>2
  <1>. QED
    BY <1>1, <1>2

LEMMA EndsInv == Inv /\ Ends => Inv'
  <1> SUFFICES ASSUME Inv, Ends PROVE Inv'
    OBVIOUS
  <1>1. PICK k \in DOMAIN paths :
          /\ Running(k, {"STOP", "RETURN", "REVERT"})
          /\ LET op == Instr(k).op
                 s == IF op = "RETURN" THEN Sink(paths[k], Range(paths[k].mem)) ELSE paths[k]
             IN  /\ paths' = [paths EXCEPT ![k] = [s EXCEPT !.status = IF op = "REVERT" THEN "reverted" ELSE "stopped"]]
                 /\ issues' = IF op = "REVERT" THEN issues
                              ELSE issues \cup {[module |-> "integer", pc |-> pc] : pc \in Found(s)}
    BY Zenon DEF Ends
  <1> DEFINE op == Instr(k).op
             words == Range(paths[k].mem)
             s == IF op = "RETURN" THEN Sink(paths[k], words) ELSE paths[k]
             status == IF op = "REVERT" THEN "reverted" ELSE "stopped"
             t == [s EXCEPT !.status = status]
  <1>2. /\ UNCHANGED <<program, notes>> /\ paths' = [paths EXCEPT ![k] = t]
        /\ issues' = IF op = "REVERT" THEN issues
                     ELSE issues \cup {[module |-> "integer", pc |-> pc] : pc \in Found(s)}
    BY <1>1 DEF Ends
  <1>3. paths[k] \in Paths /\ paths[k].status = "run" /\ PathInv(paths[k], notes, issues) /\ notes \in Seq(SUBSET Notes)
    BY <1>1, RunningFacts
  <1>4. words \subseteq Words /\ \A w \in words : WordInv(w, paths[k].models, notes, issues)
    <2>1. paths[k].mem \in Seq(Words)
      BY <1>3 DEF Paths
    <2>. QED
      BY <1>3, <2>1 DEF Range, PathInv, WordsInv
  <1>5. s \in Paths /\ PathInv(s, notes, issues) /\ s.status = "run"
    <2>. HIDE DEF words
    <2>. QED
      BY <1>3, <1>4, SinkPath
  <1>6. issues \subseteq issues' /\ (op # "REVERT" => \A pc \in Found(s) : Issued(issues', "integer", pc))
    BY <1>2 DEF Issued
  <1>7. status \in {"stopped", "reverted"} /\ (status = "stopped" => op # "REVERT")
    OBVIOUS
  <1>. HIDE DEF s, op, status
  <1>8. /\ t \in Paths /\ t.stack = s.stack /\ t.mem = s.mem /\ t.models = s.models /\ t.over = s.over
        /\ t.used = s.used /\ t.decided = s.decided /\ t.status = status
    BY <1>5, <1>7 DEF Paths
  <1>9. status = "stopped" => Settled(s, issues')
    BY <1>5, <1>6, <1>7, EndsSettled DEF PathInv
  <1>10. PathInv(s, notes, issues')
    BY <1>5, <1>6, GrowSame, PathIdle
  <1>. HIDE DEF t
  <1>11. PathInv(t, notes, issues')
    BY <1>8, <1>9, <1>10 DEF PathInv, Used, Settled
  <1>. QED
    BY <1>2, <1>3, <1>6, <1>8, <1>11, GrowSame, OneStep

LEMMA InitInv == Init => Inv
  <1> SUFFICES ASSUME Init PROVE Inv
    OBVIOUS
  <1> DEFINE s == [pc |-> 1, stack |-> <<>>, mem |-> <<>>, models |-> Models, over |-> {}, old |-> FALSE,
                   used |-> Clean, decided |-> {}, status |-> "run"]
  <1>1. paths = <<s>> /\ notes = <<{}, {}, {}>> /\ program \in Programs
    BY DEF Init
  <1>2. /\ program \in Seq([op : STRING, arg : Nat])
        /\ \A n \in DOMAIN program : program[n].op = "PUSH" => program[n].arg < Size
    BY <1>1, ProgramsAssumption
  <1>3. notes \in Seq(SUBSET Notes) /\ {Sender, Callvalue, BlockNumber} \subseteq DOMAIN notes
    BY <1>1 DEF Sender, Callvalue, BlockNumber
  <1>4. Clean \in [Models -> SUBSET Nat] /\ \A i \in Models : Clean[i] = {}
    BY DEF Clean, Constant
  <1>5. FALSE \in BOOLEAN /\ <<>> \in Seq(Words) /\ DOMAIN <<>> = {}
    OBVIOUS
  <1>6. s \in Paths
    <2>. HIDE DEF Clean, Models, Words, Notes, Kinds
    <2>. QED
      BY <1>4, <1>5 DEF Paths
  <1>7. PathInv(s, notes, issues)
    BY <1>4, <1>5 DEF PathInv, WordsInv, Used
  <1>. HIDE DEF s
  <1>8. <<s>> \in Seq(Paths) /\ \A k \in DOMAIN <<s>> : <<s>>[k] = s
    BY <1>6
  <1>. QED
    BY <1>1, <1>2, <1>3, <1>7, <1>8 DEF Inv, Types

LEMMA NextInv == Inv /\ [Next]_vars => Inv'
  <1> SUFFICES ASSUME Inv, [Next]_vars PROVE Inv'
    OBVIOUS
  <1>1. CASE UNCHANGED vars
    BY <1>1 DEF vars, Inv, Types
  <1>. QED
    BY <1>1, MovesInv, ReadsInv, BlockhashInv, OperationInv, SinksInv, JumpiInv, EndsInv DEF Next

LEMMA Invariant == Spec => []Inv
  BY InitInv, NextInv, PTL DEF Spec

-------------------------------------------------------------------------------
(* Theorems *)

\* IntegerArithmetics (integer.py): an overflow on a committed path that reached a sink (SSTORE,
\* CALL, JUMPI, RETURN) under inputs the path still allows is reported, unless the hook of its
\* operation has overlooked it, though the annotation sets that carry it are shared by DUP, by the
\* environment and by the states of a fork, and no address is looked at again once it has an issue.
THEOREM OverflowsAreReported == Spec => []OverflowsReported
  <1>1. Inv => OverflowsReported
    <2> SUFFICES ASSUME Inv, NEW k \in DOMAIN paths, paths[k].status = "stopped",
                        NEW i \in paths[k].models, NEW pc \in paths[k].used[i]
                 PROVE  Cached("integer", pc)
      BY DEF OverflowsReported
    <2>. QED
      BY DEF Inv, PathInv, Settled, Issued, Cached
  <1>. QED
    BY <1>1, Invariant, PTL

\* TxOrigin and PredictableVariables (dependence_on_origin.py, dependence_on_predictable_vars.py):
\* a JUMPI of a possible path whose condition depends on the origin, the block number, the time or
\* an old block hash is reported, whatever way through stack, memory and operations the value took.
THEOREM DecisionsAreReported == Spec => []DecisionsReported
  <1>1. Inv => DecisionsReported
    <2> SUFFICES ASSUME Inv, NEW k \in DOMAIN paths, NEW d \in paths[k].decided
                 PROVE  Cached(d.module, d.pc)
      BY DEF DecisionsReported
    <2>. QED
      BY DEF Inv, PathInv, Issued, Cached
  <1>. QED
    BY <1>1, Invariant, PTL
===============================================================================
