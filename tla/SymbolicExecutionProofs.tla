------------------------ MODULE SymbolicExecutionProofs ------------------------
(* Theorems about SymbolicExecution, for every engine setting and any bounds. *)
EXTENDS SymbolicExecution, FiniteSetTheorems, SequenceTheorems, TLAPS

-------------------------------------------------------------------------------
(* Sequences *)

Elems(q) == {q[i] : i \in DOMAIN q}

\* Without takes one element out and moves those behind it up by one.
LEMMA WithoutOne ==
  ASSUME NEW T, NEW q \in Seq(T), NEW k \in DOMAIN q
  PROVE  /\ Without(q, k) \in Seq(T)
         /\ Len(Without(q, k)) = Len(q) - 1
         /\ \A j \in 1..Len(q) - 1 : Without(q, k)[j] = q[IF j < k THEN j ELSE j + 1]
  <1>. DEFINE a == SubSeq(q, 1, k - 1)
              b == SubSeq(q, k + 1, Len(q))
  <1>1. k \in 1..Len(q) /\ Len(q) \in Nat /\ \A i \in 1..Len(q) : q[i] \in T
    OBVIOUS
  <1>2. a \in Seq(T) /\ Len(a) = k - 1 /\ \A j \in 1..k - 1 : a[j] = q[j]
    BY <1>1, SubSeqProperties
  <1>3. b \in Seq(T) /\ Len(b) = Len(q) - k /\ \A j \in 1..Len(q) - k : b[j] = q[k + j]
    BY <1>1, SubSeqProperties
  <1>. HIDE DEF a, b
  <1>4. /\ a \o b \in Seq(T)
        /\ Len(a \o b) = Len(q) - 1
        /\ \A j \in 1..Len(q) - 1 : (a \o b)[j] = IF j < k THEN a[j] ELSE b[j - (k - 1)]
    <2>1. /\ a \o b \in Seq(T) /\ Len(a \o b) = Len(a) + Len(b)
          /\ \A j \in 1..Len(a) + Len(b) : (a \o b)[j] = IF j <= Len(a) THEN a[j] ELSE b[j - Len(a)]
      BY <1>2, <1>3, ConcatProperties
    <2>2. Len(a) = k - 1 /\ Len(a) + Len(b) = Len(q) - 1 /\ \A j \in Int : j <= k - 1 <=> j < k
      BY <1>1, <1>2, <1>3
    <2>. QED
      BY <1>1, <2>1, <2>2
  <1>5. \A j \in 1..Len(q) - 1 : (a \o b)[j] = q[IF j < k THEN j ELSE j + 1]
    <2>. SUFFICES ASSUME NEW j \in 1..Len(q) - 1
                  PROVE  (a \o b)[j] = q[IF j < k THEN j ELSE j + 1]
      OBVIOUS
    <2>1. CASE j < k
      BY <1>1, <1>2, <1>4, <2>1
    <2>2. CASE ~(j < k)
      <3>1. j - (k - 1) \in 1..Len(q) - k /\ k + (j - (k - 1)) = j + 1
        BY <1>1, <2>2
      <3>. QED
        BY <1>3, <1>4, <2>2, <3>1
    <2>. QED
      BY <2>1, <2>2
  <1>6. Without(q, k) = a \o b
    BY DEF Without, a, b
  <1>. QED
    BY <1>4, <1>5, <1>6

\* Push takes the popped state out and appends the new ones: where each element of the
\* new work list comes from.
LEMMA PushedPositions ==
  ASSUME NEW T, NEW q \in Seq(T), NEW k \in DOMAIN q, NEW states \in Seq(T)
  PROVE  LET w == Without(q, k) \o states
         IN  /\ w \in Seq(T)
             /\ Len(w) = Len(q) - 1 + Len(states)
             /\ \A j \in DOMAIN w :
                  IF j < Len(q) THEN w[j] = q[IF j < k THEN j ELSE j + 1]
                  ELSE /\ j - Len(q) + 1 \in DOMAIN states
                       /\ w[j] = states[j - Len(q) + 1]
  <1>1. /\ Without(q, k) \in Seq(T)
        /\ Len(Without(q, k)) = Len(q) - 1
        /\ \A j \in 1..Len(q) - 1 : Without(q, k)[j] = q[IF j < k THEN j ELSE j + 1]
    BY WithoutOne
  <1>. DEFINE v == Without(q, k)
              w == v \o states
  <1>. HIDE DEF v
  <1>2. w \in Seq(T) /\ Len(w) = Len(q) - 1 + Len(states)
    BY <1>1, ConcatProperties DEF v
  <1>3. \A j \in DOMAIN w : w[j] = IF j <= Len(v) THEN v[j] ELSE states[j - Len(v)]
    BY <1>1, ConcatProperties DEF v
  <1>4. ASSUME NEW j \in DOMAIN w
        PROVE  IF j < Len(q) THEN w[j] = q[IF j < k THEN j ELSE j + 1]
               ELSE j - Len(q) + 1 \in DOMAIN states /\ w[j] = states[j - Len(q) + 1]
    <2>0. Len(q) \in Nat /\ Len(states) \in Nat /\ Len(v) = Len(q) - 1 /\ j \in 1..Len(w)
      BY <1>1, <1>2 DEF v
    <2>1. CASE j < Len(q)
      BY <1>1, <1>3, <2>0, <2>1 DEF v
    <2>2. CASE ~(j < Len(q))
      <3>1. j - Len(v) = j - Len(q) + 1 /\ ~(j <= Len(v))
        BY <2>0, <2>2
      <3>2. j - Len(q) + 1 \in 1..Len(states)
        BY <1>2, <2>0, <2>2
      <3>. HIDE DEF w
      <3>3. w[j] = states[j - Len(q) + 1]
        BY <1>3, <3>1
      <3>. QED
        BY <2>2, <3>2, <3>3
    <2>. QED
      BY <2>1, <2>2
  <1>. QED
    BY <1>2, <1>4 DEF v

\* The elements of the new work list are old ones and the new states.
LEMMA PushedElems ==
  ASSUME NEW T, NEW q \in Seq(T), NEW k \in DOMAIN q, NEW states \in Seq(T)
  PROVE  /\ Without(q, k) \o states \in Seq(T)
         /\ Elems(Without(q, k) \o states) \subseteq Elems(q) \cup Elems(states)
  <1>. DEFINE v == Without(q, k)
              w == v \o states
  <1>1. /\ v \in Seq(T)
        /\ Len(v) = Len(q) - 1
        /\ \A j \in 1..Len(q) - 1 : v[j] = q[IF j < k THEN j ELSE j + 1]
    BY WithoutOne
  <1>2. Len(q) \in Nat /\ k \in 1..Len(q) /\ DOMAIN q = 1..Len(q)
    OBVIOUS
  <1>. HIDE DEF v
  <1>3. \A j \in 1..Len(v) : v[j] \in Elems(q)
    <2>. SUFFICES ASSUME NEW j \in 1..Len(q) - 1
                  PROVE  v[j] \in Elems(q)
      BY <1>1
    <2>1. (IF j < k THEN j ELSE j + 1) \in DOMAIN q
      BY <1>2
    <2>. QED
      BY <1>1, <2>1 DEF Elems
  <1>4. /\ w \in Seq(T) /\ Len(w) = Len(v) + Len(states)
        /\ \A j \in 1..Len(v) : w[j] = v[j]
        /\ \A j \in 1..Len(w) : j \notin 1..Len(v) => w[j] = states[j - Len(v)]
    BY <1>1, ConcatProperties
  <1>5. ASSUME NEW j \in 1..Len(w)
        PROVE  w[j] \in Elems(q) \cup Elems(states)
    <2>. HIDE DEF w
    <2>1. CASE j \in 1..Len(v)
      BY <1>3, <1>4, <2>1
    <2>2. CASE j \notin 1..Len(v)
      <3>1. j - Len(v) \in DOMAIN states
        BY <1>1, <1>4, <2>2
      <3>. QED
        BY <1>4, <2>2, <3>1 DEF Elems
    <2>. QED
      BY <2>1, <2>2
  <1>. QED
    BY <1>4, <1>5 DEF Elems, v

LEMMA ConcatElems ==
  ASSUME NEW T, NEW q \in Seq(T), NEW r \in Seq(T)
  PROVE  q \o r \in Seq(T) /\ Elems(q \o r) \subseteq Elems(q) \cup Elems(r)
  <1>. DEFINE w == q \o r
  <1>1. /\ w \in Seq(T) /\ Len(w) = Len(q) + Len(r)
        /\ \A i \in 1..Len(q) + Len(r) : w[i] = IF i <= Len(q) THEN q[i] ELSE r[i - Len(q)]
    BY ConcatProperties
  <1>2. Len(q) \in Nat /\ Len(r) \in Nat /\ DOMAIN q = 1..Len(q) /\ DOMAIN r = 1..Len(r)
    OBVIOUS
  <1>. HIDE DEF w
  <1>3. ASSUME NEW i \in DOMAIN w
        PROVE  w[i] \in Elems(q) \cup Elems(r)
    <2>1. i \in 1..Len(q) + Len(r)
      BY <1>1
    <2>2. CASE i <= Len(q)
      BY <1>1, <1>2, <2>1, <2>2 DEF Elems
    <2>3. CASE ~(i <= Len(q))
      <3>1. i - Len(q) \in DOMAIN r
        BY <1>2, <2>1, <2>3
      <3>2. w[i] = r[i - Len(q)]
        BY <1>1, <2>1, <2>3
      <3>. QED
        BY <3>1, <3>2 DEF Elems
    <2>. QED
      BY <2>2, <2>3
  <1>. QED
    BY <1>1, <1>3 DEF Elems, w

LEMMA AppendElems ==
  ASSUME NEW T, NEW q \in Seq(T), NEW x \in T
  PROVE  /\ Append(q, x) \in Seq(T)
         /\ Len(Append(q, x)) = Len(q) + 1
         /\ Append(q, x)[Len(q) + 1] = x
         /\ \A i \in DOMAIN q : Append(q, x)[i] = q[i]
         /\ Elems(Append(q, x)) \subseteq Elems(q) \cup {x}
  <1>. DEFINE w == Append(q, x)
  <1>1. /\ w \in Seq(T) /\ Len(w) = Len(q) + 1 /\ w[Len(q) + 1] = x
        /\ \A i \in 1..Len(q) : w[i] = q[i]
    BY AppendProperties
  <1>. HIDE DEF w
  <1>2. DOMAIN w = 1..Len(q) + 1 /\ DOMAIN q = 1..Len(q) /\ Len(q) \in Nat
    BY <1>1
  <1>3. \A i \in DOMAIN w : w[i] \in Elems(q) \cup {x}
    BY <1>1, <1>2 DEF Elems
  <1>4. Elems(w) \subseteq Elems(q) \cup {x}
    BY <1>3 DEF Elems
  <1>. QED
    BY <1>1, <1>2, <1>4 DEF w

LEMMA NoElems ==
  /\ \A T : <<>> \in Seq(T)
  /\ Elems(<<>>) = {}
  BY DEF Elems

LEMMA FewElems ==
  ASSUME NEW T, NEW x \in T, NEW y \in T
  PROVE  /\ <<x>> \in Seq(T) /\ Elems(<<x>>) = {x}
         /\ <<x, y>> \in Seq(T) /\ Elems(<<x, y>>) = {x, y}
  BY DEF Elems

LEMMA FunctionSequence ==
  ASSUME NEW T, NEW n \in Nat, NEW s \in [1..n -> T]
  PROVE  s \in Seq(T)
  OBVIOUS

LEMMA ElemsTyped ==
  ASSUME NEW T, NEW q \in Seq(T)
  PROVE  Elems(q) \subseteq T
  BY DEF Elems
-------------------------------------------------------------------------------
(* Types *)

\* What Init, the transactions and the instructions make is a path again.
LEMMA PathTypes ==
  /\ EmptyWorld \in OpenStates
  /\ \A ws \in OpenStates : \A n :
       /\ n \in Nat => Transaction(ws, n) \in Paths
       /\ Transaction(ws, n).callers = <<>>
       /\ Transaction(ws, n).cond = ws.cond
       /\ ~Transaction(ws, n).wrote
       /\ Transaction(ws, n).mixed = ws.mixed
       /\ Transaction(ws, n).issued = n
  BY DEF EmptyWorld, OpenStates, Transaction, Paths

LEMMA InstructionTypes ==
  ASSUME NEW s \in Paths, forks \in 0..MaxForks
  PROVE  /\ \A b \in BOOLEAN : forks < MaxForks => Side(s, b) \in Paths
         /\ Deeper(s) \in Paths
         /\ [s EXCEPT !.mutation = TRUE, !.wrote = TRUE] \in Paths
         /\ \A kind \in CallKinds : Annotated(kind, s) \in Paths
         /\ \A f \in Paths : /\ AddAnnotations(f, s) \in Paths
                              /\ Resume(f, s) \in Paths
                              /\ ResumeReverted(f, s) \in Paths
                              /\ [ResumeReverted(f, s) EXCEPT !.mixed = TRUE] \in Paths
  <1>1. ASSUME NEW b \in BOOLEAN, forks < MaxForks
        PROVE  Side(s, b) \in Paths
    <2>1. [fork |-> forks + 1, side |-> b] \in Literals
      BY <1>1, BoundAssumption DEF Literals
    <2>2. s.cond \cup {[fork |-> forks + 1, side |-> b]} \in SUBSET Literals /\ s.depth + 1 \in Nat
      BY <2>1 DEF Paths
    <2>. QED
      BY <2>2 DEF Side, Paths
  <1>2. Deeper(s) \in Paths
    BY DEF Deeper, Paths
  <1>3. [s EXCEPT !.mutation = TRUE, !.wrote = TRUE] \in Paths
    BY DEF Paths
  <1>4. \A kind \in CallKinds : Annotated(kind, s) \in Paths
    BY DEF Annotated, Paths
  <1>5. ASSUME NEW f \in Paths
        PROVE  /\ AddAnnotations(f, s) \in Paths
               /\ Resume(f, s) \in Paths
               /\ ResumeReverted(f, s) \in Paths
               /\ [ResumeReverted(f, s) EXCEPT !.mixed = TRUE] \in Paths
    BY DEF AddAnnotations, Resume, ResumeReverted, Paths
  <1>. QED
    BY <1>1, <1>2, <1>3, <1>4, <1>5

\* The last caller of a path in a call.
LEMMA LastCaller ==
  ASSUME NEW s \in Paths, s.callers # <<>>
  PROVE  Last(s.callers) \in Elems(s.callers)
  <1>1. s.callers \in Seq(1..MaxCalls)
    BY DEF Paths
  <1>2. Len(s.callers) \in DOMAIN s.callers
    BY <1>1
  <1>. QED
    BY <1>2 DEF Last, Elems

\* The state that an action executes is in the work list.
LEMMA PoppedState ==
  ASSUME NEW k \in Positions, work \in Seq(Paths)
  PROVE  k \in DOMAIN work /\ work[k] \in Elems(work) /\ work[k] \in Paths
  <1>1. Len(work) \in Nat /\ DOMAIN work = 1..Len(work)
    OBVIOUS
  <1>2. k \in DOMAIN work
    BY <1>1, SearchAssumption DEF Positions
  <1>. QED
    BY <1>2 DEF Elems
-------------------------------------------------------------------------------
(* Steps *)

\* t goes on where s is: in the same calls of the same transaction, with at most one new
\* literal, and what it writes it is marked with.
Follows(s, t) ==
  /\ t.callers = s.callers /\ t.issued = s.issued /\ t.mixed = s.mixed
  /\ \/ t.cond = s.cond
     \/ /\ forks' = forks + 1
        /\ \E side \in BOOLEAN : t.cond = s.cond \cup {[fork |-> forks', side |-> side]}
  /\ t.wrote => t.mutation \/ (s.wrote /\ t.mutation = s.mutation)

\* Most steps replace at most one path by paths that follow it, or by a world state.
Advance ==
  /\ frames' = frames /\ round' = round /\ forks' \in Nat /\ forks <= forks'
  /\ work' \in Seq(Paths)
  /\ \A t \in Elems(work') : t \in Elems(work) \/ \E s \in Elems(work) : Follows(s, t)
  /\ openStates' \in Seq(OpenStates)
  /\ \A ws \in Elems(openStates') :
       \/ ws \in Elems(openStates)
       \/ \E s \in Elems(work) : ws.cond = s.cond /\ ws.issued = s.issued /\ ws.mixed = s.mixed

\* A step that pushes the successors of a state.
LEMMA PushSteps ==
  ASSUME TypeOK, NEW k \in Positions, NEW states \in Seq(Paths), Push(k, states)
  PROVE  /\ work' \in Seq(Paths)
         /\ work[k] \in Paths /\ work[k] \in Elems(work)
         /\ Elems(work') \subseteq Elems(work) \cup Elems(states)
  <1>1. work \in Seq(Paths)
    BY DEF TypeOK
  <1>2. k \in DOMAIN work /\ work[k] \in Elems(work) /\ work[k] \in Paths
    BY <1>1, PoppedState
  <1>. QED
    BY <1>1, <1>2, PushedElems DEF Push

LEMMA AddWorldStateSteps ==
  ASSUME TypeOK, NEW s \in Elems(work), NEW dead \in BOOLEAN, AddWorldState(s, dead)
  PROVE  /\ openStates' \in Seq(OpenStates)
         /\ \A ws \in Elems(openStates') :
              \/ ws \in Elems(openStates)
              \/ ws.cond = s.cond /\ ws.issued = s.issued /\ ws.mixed = s.mixed
         /\ lostWrites' \in BOOLEAN
  <1>. DEFINE new == [cond |-> s.cond, issued |-> s.issued, dead |-> dead, mixed |-> s.mixed]
  <1>1. s \in Paths /\ openStates \in Seq(OpenStates) /\ lostWrites \in BOOLEAN
    BY ElemsTyped DEF TypeOK
  <1>2. new \in OpenStates /\ new.cond = s.cond /\ new.issued = s.issued /\ new.mixed = s.mixed
    BY <1>1 DEF OpenStates, Paths
  <1>3. Append(openStates, new) \in Seq(OpenStates)
        /\ Elems(Append(openStates, new)) \subseteq Elems(openStates) \cup {new}
    BY <1>1, <1>2, AppendElems
  <1>4. \/ openStates' = Append(openStates, new) /\ lostWrites' = lostWrites
        \/ openStates' = openStates /\ lostWrites' = (lostWrites \/ s.wrote)
    BY DEF AddWorldState
  <1>5. s.wrote \in BOOLEAN
    BY <1>1 DEF Paths
  <1>6. lostWrites' \in BOOLEAN
    BY <1>1, <1>4, <1>5
  <1>. HIDE DEF new
  <1>. QED
    BY <1>1, <1>2, <1>3, <1>4, <1>6

Dropping == Discard \/ ExecDone \/ Timeout \/ Unimplemented \/ SkipCall \/ FailTransaction \/ Finish
Executed == Jumpi \/ JumpiConstant \/ Store

LEMMA DroppingAdvances ==
  ASSUME TypeOK, Dropping \/ UNCHANGED vars
  PROVE  Advance /\ Elems(work') \subseteq Elems(work) /\ UNCHANGED <<openStates, forks, lostWrites>>
  <1>1. /\ work \in Seq(Paths) /\ forks \in Nat /\ <<>> \in Seq(Paths)
        /\ openStates \in Seq(OpenStates)
    BY BoundAssumption DEF TypeOK
  <1>2. ASSUME NEW k \in Positions, Push(k, <<>>)
        PROVE  work' \in Seq(Paths) /\ Elems(work') \subseteq Elems(work)
    BY <1>1, <1>2, PushSteps, NoElems
  <1>3. ASSUME NEW k \in Positions, work' = Without(work, k)
        PROVE  Push(k, <<>>)
    <2>1. k \in DOMAIN work
      BY <1>1, PoppedState
    <2>2. Without(work, k) \in Seq(Paths)
      BY <1>1, <2>1, WithoutOne
    <2>. QED
      BY <1>3, <2>2, ConcatEmptySeq DEF Push
  <1>4. /\ work' \in Seq(Paths) /\ Elems(work') \subseteq Elems(work)
        /\ UNCHANGED <<frames, round, forks, openStates, lostWrites>>
    <2>1. CASE Discard \/ Timeout
      BY <1>2, <1>3, <2>1 DEF Discard, Timeout
    <2>2. CASE Unimplemented
      BY <1>2, <2>2 DEF Unimplemented
    <2>3. CASE SkipCall
      BY <1>2, <2>3 DEF SkipCall
    <2>4. CASE FailTransaction
      BY <1>2, <2>4 DEF FailTransaction
    <2>5. CASE ExecDone \/ Finish \/ UNCHANGED vars
      BY <1>1, <2>5 DEF ExecDone, Finish, vars
    <2>. QED
      BY <2>1, <2>2, <2>3, <2>4, <2>5 DEF Dropping
  <1>. QED
    BY <1>1, <1>4 DEF Advance
LEMMA ExecutedAdvances ==
  ASSUME TypeOK, Executed
  PROVE  Advance /\ UNCHANGED <<openStates, lostWrites>> /\ forks' \in 0..MaxForks
  <1>1. /\ work \in Seq(Paths) /\ forks \in 0..MaxForks /\ MaxForks \in Nat
        /\ openStates \in Seq(OpenStates)
    BY BoundAssumption DEF TypeOK
  <1>. DEFINE Going(states, s) == \A t \in Elems(states) : Follows(s, t)
  <1>2. ASSUME NEW k \in Positions, NEW states \in Seq(Paths), Push(k, states), Going(states, work[k])
        PROVE  /\ work' \in Seq(Paths)
               /\ \A t \in Elems(work') : t \in Elems(work) \/ \E s \in Elems(work) : Follows(s, t)
    BY <1>2, PushSteps
  <1>3. CASE Jumpi
    <2>1. PICK k \in Positions :
            LET states == <<Side(work[k], FALSE), Side(work[k], TRUE)>>
            IN  Push(k, states) \/ Push(k, <<>>) \/ \E b \in 1..2 : Push(k, <<states[b]>>)
      BY <1>3 DEF Jumpi
    <2>2. forks' = forks + 1 /\ forks < MaxForks /\ UNCHANGED <<round, openStates, frames, lostWrites>>
      BY <1>3 DEF Jumpi
    <2>3. work[k] \in Paths
      BY <1>1, PoppedState
    <2>. DEFINE f == Side(work[k], FALSE)
                t == Side(work[k], TRUE)
    <2>4. ASSUME NEW b \in BOOLEAN
          PROVE  Side(work[k], b) \in Paths /\ Follows(work[k], Side(work[k], b))
      <3>1. Side(work[k], b) \in Paths
        BY <1>1, <2>2, <2>3, InstructionTypes
      <3>2. Side(work[k], b).cond = work[k].cond \cup {[fork |-> forks', side |-> b]}
        BY <2>2, <2>3 DEF Side, Paths
      <3>3. /\ Side(work[k], b).callers = work[k].callers
            /\ Side(work[k], b).issued = work[k].issued
            /\ Side(work[k], b).wrote = work[k].wrote
            /\ Side(work[k], b).mixed = work[k].mixed
            /\ Side(work[k], b).mutation = work[k].mutation
        BY <2>3 DEF Side, Paths
      <3>. QED
        BY <2>2, <3>1, <3>2, <3>3 DEF Follows
    <2>5. f \in Paths /\ t \in Paths /\ Follows(work[k], f) /\ Follows(work[k], t)
      BY <2>4
    <2>. HIDE DEF f, t
    <2>6. Push(k, <<f, t>>) \/ Push(k, <<>>) \/ Push(k, <<f>>) \/ Push(k, <<t>>)
      BY <2>1 DEF f, t
    <2>7. /\ <<f, t>> \in Seq(Paths) /\ Going(<<f, t>>, work[k])
          /\ <<>> \in Seq(Paths) /\ Going(<<>>, work[k])
          /\ <<f>> \in Seq(Paths) /\ Going(<<f>>, work[k])
          /\ <<t>> \in Seq(Paths) /\ Going(<<t>>, work[k])
      <3>1. /\ <<f, t>> \in Seq(Paths) /\ Elems(<<f, t>>) = {f, t}
            /\ <<f>> \in Seq(Paths) /\ Elems(<<f>>) = {f}
            /\ <<t>> \in Seq(Paths) /\ Elems(<<t>>) = {t}
        BY <2>5, FewElems
      <3>2. <<>> \in Seq(Paths) /\ Elems(<<>>) = {}
        BY NoElems
      <3>. QED
        BY <2>5, <3>1, <3>2
    <2>8. /\ work' \in Seq(Paths)
          /\ \A u \in Elems(work') : u \in Elems(work) \/ \E s \in Elems(work) : Follows(s, u)
      BY <1>2, <2>6, <2>7
    <2>. QED
      BY <1>1, <2>2, <2>8 DEF Advance
  <1>4. ASSUME NEW k \in Positions, NEW t \in Paths, Push(k, <<t>>), Follows(work[k], t),
               UNCHANGED <<round, openStates, frames, forks, lostWrites>>
        PROVE  Advance /\ UNCHANGED <<openStates, lostWrites>> /\ forks' \in 0..MaxForks
    <2>1. <<t>> \in Seq(Paths) /\ Going(<<t>>, work[k])
      <3>1. <<t>> \in Seq(Paths) /\ Elems(<<t>>) = {t}
        BY FewElems
      <3>. QED
        BY <1>4, <3>1
    <2>2. /\ work' \in Seq(Paths)
          /\ \A u \in Elems(work') : u \in Elems(work) \/ \E s \in Elems(work) : Follows(s, u)
      BY <1>2, <1>4, <2>1
    <2>. QED
      BY <1>1, <1>4, <2>2 DEF Advance
  <1>5. CASE JumpiConstant
    <2>1. PICK k \in Positions : Push(k, <<Deeper(work[k])>>)
      BY <1>5 DEF JumpiConstant
    <2>2. work[k] \in Paths
      BY <1>1, PoppedState
    <2>3. Deeper(work[k]) \in Paths /\ Follows(work[k], Deeper(work[k]))
      BY <1>1, <2>2, InstructionTypes DEF Follows, Deeper, Paths
    <2>. QED
      BY <1>4, <1>5, <2>1, <2>3 DEF JumpiConstant
  <1>6. CASE Store
    <2>1. PICK k \in Positions : Push(k, <<[work[k] EXCEPT !.mutation = TRUE, !.wrote = TRUE]>>)
      BY <1>6 DEF Store
    <2>2. work[k] \in Paths
      BY <1>1, PoppedState
    <2>. DEFINE t == [work[k] EXCEPT !.mutation = TRUE, !.wrote = TRUE]
    <2>3. t \in Paths /\ Follows(work[k], t)
      BY <1>1, <2>2, InstructionTypes DEF Follows, Paths
    <2>. QED
      BY <1>4, <1>6, <2>1, <2>3 DEF Store
  <1>. QED
    BY <1>3, <1>5, <1>6 DEF Executed

LEMMA EndingAdvances ==
  ASSUME TypeOK, EndTransaction \/ OffCode
  PROVE  Advance /\ lostWrites' \in BOOLEAN /\ forks' = forks
  <1>1. /\ work \in Seq(Paths) /\ forks \in Nat /\ <<>> \in Seq(Paths)
        /\ openStates \in Seq(OpenStates) /\ lostWrites \in BOOLEAN
    BY BoundAssumption DEF TypeOK
  <1>2. PICK k \in Positions :
          /\ Push(k, <<>>)
          /\ \/ \E dead \in BOOLEAN : AddWorldState(work[k], dead)
             \/ UNCHANGED <<openStates, lostWrites>>
    <2>1. CASE EndTransaction
      <3>1. PICK k \in Positions :
              /\ Push(k, <<>>)
              /\ \/ \E dead \in {FALSE, ~work[k].creation /\ "selfdestruct" \in Events} :
                      AddWorldState(work[k], dead)
                 \/ UNCHANGED <<openStates, lostWrites>>
        BY <2>1 DEF EndTransaction
      <3>2. (~work[k].creation /\ "selfdestruct" \in Events) \in BOOLEAN
        OBVIOUS
      <3>. QED
        BY <3>1, <3>2
    <2>2. CASE OffCode
      BY <2>2 DEF OffCode
    <2>. QED
      BY <2>1, <2>2
  <1>3. work[k] \in Elems(work)
    BY <1>1, PoppedState
  <1>4. work' \in Seq(Paths) /\ Elems(work') \subseteq Elems(work)
    BY <1>1, <1>2, PushSteps, NoElems
  <1>5. /\ openStates' \in Seq(OpenStates) /\ lostWrites' \in BOOLEAN
        /\ \A ws \in Elems(openStates') :
             \/ ws \in Elems(openStates)
             \/ \E s \in Elems(work) : ws.cond = s.cond /\ ws.issued = s.issued /\ ws.mixed = s.mixed
    BY <1>1, <1>2, <1>3, AddWorldStateSteps
  <1>6. UNCHANGED <<frames, round, forks>>
    BY DEF EndTransaction, OffCode
  <1>. QED
    BY <1>1, <1>4, <1>5, <1>6 DEF Advance
\* Every caller of a path is in the heap: without it a return would resume anything.
AllPaths == Elems(work) \cup Elems(frames)
CallersKnown == \A s \in AllPaths : Elems(s.callers) \subseteq DOMAIN frames
Structure == TypeOK /\ CallersKnown

\* A call puts the caller into the heap and the callee into the work list.
Calls(s, kind, c) ==
  /\ s \in Elems(work) /\ s \in Paths /\ c \in Paths
  /\ ~TooDeep(kind, s)
  /\ frames' = Append(frames, Annotated(kind, s))
  /\ c.callers = Append(s.callers, Len(frames) + 1)
  /\ c.cond = s.cond /\ c.issued = s.issued /\ c.wrote = s.wrote /\ c.mixed = s.mixed
  /\ work' \in Seq(Paths) /\ Elems(work') \subseteq Elems(work) \cup {c}

LEMMA CallSteps ==
  ASSUME Structure, Call
  PROVE  /\ \E s \in Paths, kind \in CallKinds, c \in Paths : Calls(s, kind, c)
         /\ frames' \in Seq(Paths) /\ Len(frames') <= MaxCalls
         /\ Len(frames') = Len(frames) + 1
         /\ \A i \in DOMAIN frames : frames'[i] = frames[i]
         /\ Elems(frames') \subseteq Elems(frames) \cup {frames'[Len(frames) + 1]}
         /\ UNCHANGED <<phase, round, openStates, expired, forks, lostWrites>>
  <1>1. /\ work \in Seq(Paths) /\ frames \in Seq(Paths) /\ Len(frames) \in Nat /\ MaxCalls \in Nat
        /\ forks \in 0..MaxForks
    BY BoundAssumption DEF Structure, TypeOK
  <1>2. Len(frames) < MaxCalls /\ UNCHANGED <<phase, round, openStates, expired, forks, lostWrites>>
    BY DEF Call
  <1>3. PICK k \in Positions, kind \in CallKinds :
          /\ ~TooDeep(kind, work[k])
          /\ frames' = Append(frames, Annotated(kind, work[k]))
          /\ Push(k, <<[work[k] EXCEPT !.callers = Append(@, Len(frames) + 1), !.depth = 0,
                          !.mutation = FALSE, !.static = @ \/ kind = "STATICCALL"]>>)
    BY DEF Call
  <1>. DEFINE s == work[k]
              c == [s EXCEPT !.callers = Append(@, Len(frames) + 1), !.depth = 0,
                             !.mutation = FALSE, !.static = @ \/ kind = "STATICCALL"]
  <1>4. s \in Paths /\ s \in Elems(work)
    BY <1>1, PoppedState
  <1>5. Append(s.callers, Len(frames) + 1) \in Seq(1..MaxCalls)
    <2>1. s.callers \in Seq(1..MaxCalls) /\ Len(frames) + 1 \in 1..MaxCalls
      BY <1>1, <1>2, <1>4 DEF Paths
    <2>. QED
      BY <2>1, AppendElems
  <1>6. /\ c \in Paths
        /\ c.callers = Append(s.callers, Len(frames) + 1)
        /\ c.cond = s.cond /\ c.issued = s.issued /\ c.wrote = s.wrote /\ c.mixed = s.mixed
    BY <1>4, <1>5 DEF Paths
  <1>7. Annotated(kind, s) \in Paths
    BY <1>1, <1>4, InstructionTypes
  <1>. HIDE DEF c
  <1>8. Push(k, <<c>>)
    BY <1>3 DEF c
  <1>9. work' \in Seq(Paths) /\ Elems(work') \subseteq Elems(work) \cup {c}
    <2>1. <<c>> \in Seq(Paths) /\ Elems(<<c>>) = {c}
      BY <1>6, FewElems
    <2>. QED
      BY <1>8, <2>1, PushSteps DEF Structure
  <1>10. Calls(s, kind, c)
    BY <1>3, <1>4, <1>6, <1>9 DEF Calls
  <1>11. /\ frames' \in Seq(Paths) /\ Len(frames') = Len(frames) + 1
         /\ frames'[Len(frames) + 1] = Annotated(kind, s)
         /\ \A i \in DOMAIN frames : frames'[i] = frames[i]
         /\ Elems(frames') \subseteq Elems(frames) \cup {Annotated(kind, s)}
    BY <1>1, <1>3, <1>7, AppendElems
  <1>. QED
    BY <1>1, <1>2, <1>4, <1>6, <1>10, <1>11

\* A frame that becomes another one keeps its callers and its message count; a frame is
\* marked, or a failing callee adds its condition.
LEMMA FrameUpdate ==
  ASSUME Structure, NEW f \in DOMAIN frames, NEW g \in Paths, frames' = [frames EXCEPT ![f] = g]
  PROVE  /\ frames' \in Seq(Paths) /\ Len(frames') = Len(frames)
         /\ DOMAIN frames' = DOMAIN frames
         /\ \A i \in DOMAIN frames : frames'[i] = IF i = f THEN g ELSE frames[i]
         /\ Elems(frames') \subseteq Elems(frames) \cup {g}
  <1>1. frames \in Seq(Paths)
    BY DEF Structure, TypeOK
  <1>2. /\ frames' \in Seq(Paths) /\ Len(frames') = Len(frames)
        /\ \A i \in 1..Len(frames) : frames'[i] = IF i = f THEN g ELSE frames[i]
    BY <1>1, ExceptSeq
  <1>3. DOMAIN frames' = DOMAIN frames
    BY <1>1, <1>2
  <1>. QED
    BY <1>1, <1>2, <1>3 DEF Elems

\* The end of a call: the frame becomes g, and the path goes on as t or is gone.
Returns(s, f, g, new) ==
  /\ s \in Elems(work) /\ s \in Paths
  /\ s.callers # <<>> /\ f = Last(s.callers)
  /\ f \in Elems(s.callers) /\ f \in DOMAIN frames /\ frames[f] \in Paths /\ frames[f] \in Elems(frames)
  /\ g \in Paths /\ new \subseteq Paths
  /\ frames' = [frames EXCEPT ![f] = g]
  /\ work' \in Seq(Paths) /\ Elems(work') \subseteq Elems(work) \cup new

LEMMA EndCallSteps ==
  ASSUME Structure, EndCall
  PROVE  /\ \E s \in Paths, f \in DOMAIN frames :
              LET g == AddAnnotations(frames[f], s)
              IN  Returns(s, f, g, {Resume(g, s), ResumeReverted(g, s)})
         /\ UNCHANGED <<phase, round, openStates, expired, forks, lostWrites>>
  <1>1. work \in Seq(Paths) /\ frames \in Seq(Paths) /\ forks \in 0..MaxForks
    BY DEF Structure, TypeOK
  <1>2. PICK k \in Positions :
          LET g == AddAnnotations(frames[Last(work[k].callers)], work[k])
          IN  /\ work[k].callers # <<>>
              /\ frames' = [frames EXCEPT ![Last(work[k].callers)] = g]
              /\ \/ Push(k, <<Resume(g, work[k])>>)
                 \/ Push(k, <<ResumeReverted(g, work[k])>>)
                 \/ Push(k, <<>>)
    BY DEF EndCall
  <1>. DEFINE s == work[k]
              f == Last(s.callers)
              g == AddAnnotations(frames[f], s)
  <1>3. s \in Paths /\ s \in Elems(work)
    BY <1>1, PoppedState
  <1>4. f \in Elems(s.callers) /\ f \in DOMAIN frames
    BY <1>2, <1>3, LastCaller DEF Structure, CallersKnown, AllPaths
  <1>5. frames[f] \in Paths /\ frames[f] \in Elems(frames)
    BY <1>1, <1>4, ElemsTyped DEF Elems
  <1>6. g \in Paths /\ Resume(g, s) \in Paths /\ ResumeReverted(g, s) \in Paths
    <2>1. g \in Paths
      BY <1>1, <1>3, <1>5, InstructionTypes
    <2>. QED
      BY <1>1, <1>3, <2>1, InstructionTypes
  <1>. HIDE DEF g
  <1>7. Push(k, <<Resume(g, s)>>) \/ Push(k, <<ResumeReverted(g, s)>>) \/ Push(k, <<>>)
    BY <1>2 DEF g
  <1>8. work' \in Seq(Paths) /\ Elems(work') \subseteq Elems(work) \cup {Resume(g, s), ResumeReverted(g, s)}
    <2>1. /\ <<Resume(g, s)>> \in Seq(Paths) /\ Elems(<<Resume(g, s)>>) = {Resume(g, s)}
          /\ <<ResumeReverted(g, s)>> \in Seq(Paths)
          /\ Elems(<<ResumeReverted(g, s)>>) = {ResumeReverted(g, s)}
      BY <1>6, FewElems
    <2>2. <<>> \in Seq(Paths) /\ Elems(<<>>) = {}
      BY NoElems
    <2>3. CASE Push(k, <<Resume(g, s)>>)
      BY <2>1, <2>3, PushSteps DEF Structure
    <2>4. CASE Push(k, <<ResumeReverted(g, s)>>)
      BY <2>1, <2>4, PushSteps DEF Structure
    <2>5. CASE Push(k, <<>>)
      BY <2>2, <2>5, PushSteps DEF Structure
    <2>. QED
      BY <1>7, <2>3, <2>4, <2>5
  <1>9. Returns(s, f, g, {Resume(g, s), ResumeReverted(g, s)})
    BY <1>2, <1>3, <1>4, <1>5, <1>6, <1>8 DEF Returns, g
  <1>10. UNCHANGED <<phase, round, openStates, expired, forks, lostWrites>>
    BY DEF EndCall
  <1>. QED
    BY <1>3, <1>4, <1>9, <1>10 DEF g

LEMMA FailInCallSteps ==
  ASSUME Structure, FailInCall
  PROVE  /\ "callee_failure" \in Events
         /\ \E s \in Paths, f \in DOMAIN frames :
              LET r == ResumeReverted(frames[f], s)
              IN  Returns(s, f, [r EXCEPT !.mixed = TRUE], {r})
         /\ UNCHANGED <<phase, round, openStates, expired, forks, lostWrites>>
  <1>1. work \in Seq(Paths) /\ frames \in Seq(Paths) /\ forks \in 0..MaxForks
    BY DEF Structure, TypeOK
  <1>2. PICK k \in Positions :
          LET r == ResumeReverted(frames[Last(work[k].callers)], work[k])
          IN  /\ work[k].callers # <<>>
              /\ frames' = [frames EXCEPT ![Last(work[k].callers)] = [r EXCEPT !.mixed = TRUE]]
              /\ Push(k, <<r>>) \/ Push(k, <<>>)
    BY DEF FailInCall
  <1>. DEFINE s == work[k]
              f == Last(s.callers)
              r == ResumeReverted(frames[f], s)
              g == [r EXCEPT !.mixed = TRUE]
  <1>3. s \in Paths /\ s \in Elems(work)
    BY <1>1, PoppedState
  <1>4. f \in Elems(s.callers) /\ f \in DOMAIN frames
    BY <1>2, <1>3, LastCaller DEF Structure, CallersKnown, AllPaths
  <1>5. frames[f] \in Paths /\ frames[f] \in Elems(frames)
    BY <1>1, <1>4, ElemsTyped DEF Elems
  <1>6. r \in Paths /\ g \in Paths
    BY <1>1, <1>3, <1>5, InstructionTypes
  <1>7. frames' = [frames EXCEPT ![f] = g] /\ s.callers # <<>>
    BY <1>2
  <1>. HIDE DEF g
  <1>8. work' \in Seq(Paths) /\ Elems(work') \subseteq Elems(work) \cup {r}
    <2>. HIDE DEF r
    <2>1. Push(k, <<r>>) \/ Push(k, <<>>)
      BY <1>2 DEF r
    <2>2. <<r>> \in Seq(Paths) /\ Elems(<<r>>) = {r} /\ <<>> \in Seq(Paths) /\ Elems(<<>>) = {}
      BY <1>6, FewElems, NoElems
    <2>. QED
      BY <2>1, <2>2, PushSteps DEF Structure
  <1>9. Returns(s, f, g, {r})
    <2>. HIDE DEF r
    <2>. QED
      BY <1>3, <1>4, <1>5, <1>6, <1>7, <1>8 DEF Returns
  <1>10. "callee_failure" \in Events /\ UNCHANGED <<phase, round, openStates, expired, forks, lostWrites>>
    BY DEF FailInCall
  <1>. QED
    BY <1>3, <1>4, <1>9, <1>10 DEF g

\* Both ends of a call, as far as the transaction stacks and the rounds go.
LEMMA ReturnSteps ==
  ASSUME Structure, EndCall \/ FailInCall
  PROVE  /\ \E s \in Paths, f \in DOMAIN frames, g \in Paths, new \in SUBSET Paths :
              /\ Returns(s, f, g, new)
              /\ \A u \in new \cup {g} : /\ u.callers = frames[f].callers
                                        /\ u.issued = frames[f].issued
         /\ UNCHANGED <<phase, round, openStates, expired, forks, lostWrites>>
  <1>1. ASSUME NEW s \in Paths, NEW h \in Paths
        PROVE  \A u \in {AddAnnotations(h, s), Resume(h, s), ResumeReverted(h, s),
                       [ResumeReverted(h, s) EXCEPT !.mixed = TRUE]} :
                 u.callers = h.callers /\ u.issued = h.issued
    BY DEF AddAnnotations, Resume, ResumeReverted, Paths
  <1>2. CASE EndCall
    <2>1. PICK s \in Paths, f \in DOMAIN frames :
            LET g == AddAnnotations(frames[f], s)
            IN  Returns(s, f, g, {Resume(g, s), ResumeReverted(g, s)})
      BY <1>2, EndCallSteps
    <2>. DEFINE g == AddAnnotations(frames[f], s)
                new == {Resume(g, s), ResumeReverted(g, s)}
    <2>2. frames[f] \in Paths /\ g \in Paths /\ new \in SUBSET Paths
      BY <2>1 DEF Returns
    <2>3. \A u \in new \cup {g} : u.callers = frames[f].callers /\ u.issued = frames[f].issued
      BY <1>1, <2>2
    <2>4. UNCHANGED <<phase, round, openStates, expired, forks, lostWrites>>
      BY <1>2, EndCallSteps
    <2>. QED
      BY <2>1, <2>2, <2>3, <2>4
  <1>3. CASE FailInCall
    <2>1. PICK s \in Paths, f \in DOMAIN frames :
            LET r == ResumeReverted(frames[f], s)
            IN  Returns(s, f, [r EXCEPT !.mixed = TRUE], {r})
      BY <1>3, FailInCallSteps
    <2>. DEFINE r == ResumeReverted(frames[f], s)
                g == [r EXCEPT !.mixed = TRUE]
    <2>2. /\ frames[f] \in Paths /\ s \in Paths /\ g \in Paths /\ {r} \in SUBSET Paths
          /\ Returns(s, f, g, {r})
      BY <2>1 DEF Returns
    <2>3. \A u \in {r, g} : u.callers = frames[f].callers /\ u.issued = frames[f].issued
      BY <2>2 DEF ResumeReverted, Paths
    <2>4. UNCHANGED <<phase, round, openStates, expired, forks, lostWrites>>
      BY <1>3, FailInCallSteps
    <2>. HIDE DEF g, r
    <2>5. \A u \in {r} \cup {g} : u.callers = frames[f].callers /\ u.issued = frames[f].issued
      BY <2>3
    <2>. QED
      BY <2>2, <2>4, <2>5
  <1>. QED
    BY <1>2, <1>3

\* The transactions of a round are appended to the work list, one for each of some of the
\* open states.
LEMMA SetupSteps ==
  ASSUME Structure, NEW S \in Reachable, NEW states \in Setup(S)
  PROVE  /\ states \in Seq(Paths)
         /\ \E t \in [DOMAIN states -> DOMAIN openStates] :
              /\ \A n \in DOMAIN states : states[n] = Transaction(openStates[t[n]], round + 1)
              /\ \A m, n \in DOMAIN states : m # n => t[m] # t[n]
  <1>. DEFINE live == {j \in S : ~openStates[j].dead}
              n0 == Cardinality(live)
  <1>1. /\ Len(openStates) \in Nat /\ DOMAIN openStates = 1..Len(openStates)
        /\ \A j \in DOMAIN openStates : openStates[j] \in OpenStates
    BY DEF Structure, TypeOK
  <1>2. live \subseteq 1..Len(openStates)
    BY <1>1 DEF Reachable
  <1>. HIDE DEF live
  <1>3. n0 \in Nat
    <2>1. IsFiniteSet(1..Len(openStates))
      BY <1>1, FS_Interval
    <2>2. IsFiniteSet(live)
      BY <1>2, <2>1, FS_Subset
    <2>. QED
      BY <2>2, FS_CardinalityType
  <1>4. PICK t \in [1..n0 -> live] :
          /\ \A m, n \in DOMAIN t : m < n => t[m] < t[n]
          /\ states = [n \in DOMAIN t |-> Transaction(openStates[t[n]], round + 1)]
    BY DEF Setup, live
  <1>. HIDE DEF n0
  <1>5. /\ DOMAIN states = 1..n0
        /\ \A n \in 1..n0 : /\ t[n] \in DOMAIN openStates
                             /\ states[n] = Transaction(openStates[t[n]], round + 1)
    BY <1>1, <1>2, <1>4
  <1>6. \A n \in 1..n0 : states[n] \in Paths
    <2>. SUFFICES ASSUME NEW n \in 1..n0 PROVE states[n] \in Paths
      OBVIOUS
    <2>1. openStates[t[n]] \in OpenStates /\ states[n] = Transaction(openStates[t[n]], round + 1)
      BY <1>1, <1>5
    <2>2. round + 1 \in Nat
      BY BoundAssumption DEF Structure, TypeOK
    <2>. QED
      BY <2>1, <2>2, PathTypes
  <1>7. states \in Seq(Paths)
    <2>1. states \in [1..n0 -> Paths]
      BY <1>4, <1>5, <1>6
    <2>. QED
      BY <1>3, <2>1, FunctionSequence
  <1>8. \A m, n \in 1..n0 : m # n => t[m] # t[n]
    <2>. SUFFICES ASSUME NEW m \in 1..n0, NEW n \in 1..n0, m # n
                  PROVE  t[m] # t[n]
      OBVIOUS
    <2>1. m < n \/ n < m
      BY <1>3
    <2>2. t[m] \in live /\ t[n] \in live /\ DOMAIN t = 1..n0
      OBVIOUS
    <2>3. t[m] \in Int /\ t[n] \in Int
      <3>1. live \subseteq Int
        BY <1>1, <1>2
      <3>. QED
        BY <2>2, <3>1
    <2>. QED
      BY <1>4, <2>1, <2>2, <2>3
  <1>9. t \in [DOMAIN states -> DOMAIN openStates]
    BY <1>4, <1>5
  <1>. QED
    BY <1>5, <1>7, <1>8, <1>9

LEMMA NextRoundSteps ==
  ASSUME Structure, NextRound
  PROVE  /\ work' \in Seq(Paths)
         /\ \A u \in Elems(work') :
              \/ u \in Elems(work)
              \/ \E ws \in Elems(openStates) : ws \in OpenStates /\ u = Transaction(ws, round + 1)
         /\ UNCHANGED <<frames, expired, forks, lostWrites>>
  <1>0. PICK S \in Reachable : \E states \in Setup(S) : work' = work \o states
    BY DEF NextRound
  <1>1. PICK states \in Setup(S) : work' = work \o states
    BY <1>0
  <1>2. states \in Seq(Paths)
    BY SetupSteps
  <1>3. PICK t \in [DOMAIN states -> DOMAIN openStates] :
          \A n \in DOMAIN states : states[n] = Transaction(openStates[t[n]], round + 1)
    BY SetupSteps
  <1>4. work \in Seq(Paths) /\ openStates \in Seq(OpenStates)
    BY DEF Structure, TypeOK
  <1>5. work' \in Seq(Paths) /\ Elems(work') \subseteq Elems(work) \cup Elems(states)
    BY <1>1, <1>2, <1>4, ConcatElems
  <1>6. \A u \in Elems(states) :
          \E ws \in Elems(openStates) : ws \in OpenStates /\ u = Transaction(ws, round + 1)
    <2>. SUFFICES ASSUME NEW n \in DOMAIN states
                  PROVE  \E ws \in Elems(openStates) : ws \in OpenStates /\ states[n] = Transaction(ws, round + 1)
      BY DEF Elems
    <2>1. t[n] \in DOMAIN openStates
      OBVIOUS
    <2>2. openStates[t[n]] \in Elems(openStates) /\ openStates[t[n]] \in OpenStates
      BY <1>4, <2>1 DEF Elems
    <2>. QED
      BY <1>3, <2>2
  <1>. QED
    BY <1>5, <1>6 DEF NextRound

-------------------------------------------------------------------------------
(* Types and callers *)

LEMMA InitStructure == Init => Structure
  <1>. SUFFICES ASSUME Init PROVE Structure
    OBVIOUS
  <1>1. work = <<Transaction(EmptyWorld, 0)>> /\ Transaction(EmptyWorld, 0) \in Paths
    BY PathTypes DEF Init
  <1>2. work \in Seq(Paths) /\ Elems(work) = {Transaction(EmptyWorld, 0)}
    BY <1>1, FewElems
  <1>3. openStates \in Seq(OpenStates) /\ frames \in Seq(Paths) /\ Len(frames) = 0 /\ Elems(frames) = {}
    BY NoElems DEF Init
  <1>4. TypeOK
    <2>1. expired \in BOOLEAN /\ lostWrites \in BOOLEAN
      BY DEF Init
    <2>2. /\ phase \in {"creation", "message", "between", "done"}
          /\ round \in 0..TransactionCount /\ forks \in 0..MaxForks /\ 0 <= MaxCalls
      BY BoundAssumption DEF Init
    <2>. QED
      BY <1>2, <1>3, <2>1, <2>2 DEF TypeOK
  <1>5. Elems(Transaction(EmptyWorld, 0).callers) = {}
    BY PathTypes, NoElems
  <1>. QED
    BY <1>2, <1>3, <1>4, <1>5 DEF Structure, CallersKnown, AllPaths

\* The steps by their effect: the case split of every invariance proof below.
LEMMA StepKinds ==
  ASSUME Structure, [Next]_vars
  PROVE  \/ Advance /\ (Dropping \/ UNCHANGED vars \/ Executed \/ EndTransaction \/ OffCode)
         \/ Call \/ EndCall \/ FailInCall \/ NextRound
  <1>1. CASE Dropping \/ UNCHANGED vars
    BY <1>1, DroppingAdvances DEF Structure
  <1>2. CASE Executed
    BY <1>2, ExecutedAdvances DEF Structure
  <1>3. CASE EndTransaction \/ OffCode
    BY <1>3, EndingAdvances DEF Structure
  <1>. QED
    BY <1>1, <1>2, <1>3 DEF Next, Finished, Dropping, Executed

LEMMA StructureKept == Structure /\ [Next]_vars => Structure'
  <1>. SUFFICES ASSUME Structure, [Next]_vars
                PROVE  Structure'
    OBVIOUS
  <1>. USE DEF Structure
  <1>0. /\ work \in Seq(Paths) /\ frames \in Seq(Paths) /\ openStates \in Seq(OpenStates)
        /\ forks \in 0..MaxForks /\ Len(frames) \in Nat /\ round \in 0..TransactionCount
        /\ DOMAIN frames = 1..Len(frames)
    BY DEF TypeOK
  <1>1. CASE Advance /\ (Dropping \/ UNCHANGED vars \/ Executed \/ EndTransaction \/ OffCode)
    <2>1. /\ work' \in Seq(Paths) /\ openStates' \in Seq(OpenStates) /\ frames' = frames /\ round' = round
      BY <1>1 DEF Advance
    <2>2. forks' \in 0..MaxForks /\ lostWrites' \in BOOLEAN
      BY <1>0, <1>1, DroppingAdvances, ExecutedAdvances, EndingAdvances DEF TypeOK
    <2>3. phase' \in {"creation", "message", "between", "done"} /\ expired' \in BOOLEAN
      BY <1>1 DEF TypeOK, Dropping, Executed, vars, Discard, ExecDone, Timeout, Unimplemented, SkipCall,
                  FailTransaction, Finish, Jumpi, JumpiConstant, Store, EndTransaction, OffCode, Returned
    <2>4. TypeOK'
      BY <2>1, <2>2, <2>3 DEF TypeOK
    <2>5. CallersKnown'
      BY <1>1, <2>1 DEF Advance, Follows, CallersKnown, AllPaths
    <2>. QED
      BY <2>4, <2>5
  <1>2. CASE Call
    <2>1. /\ frames' \in Seq(Paths) /\ Len(frames') <= MaxCalls
          /\ Len(frames') = Len(frames) + 1
          /\ \A i \in DOMAIN frames : frames'[i] = frames[i]
          /\ Elems(frames') \subseteq Elems(frames) \cup {frames'[Len(frames) + 1]}
          /\ UNCHANGED <<phase, round, openStates, expired, forks, lostWrites>>
      BY <1>2, CallSteps
    <2>2. PICK s \in Paths, kind \in CallKinds, c \in Paths : Calls(s, kind, c)
      BY <1>2, CallSteps
    <2>3. TypeOK'
      BY <2>1, <2>2 DEF TypeOK, Calls
    <2>4. DOMAIN frames' = DOMAIN frames \cup {Len(frames) + 1}
      BY <1>0, <2>1
    <2>5. Annotated(kind, s).callers = s.callers /\ frames'[Len(frames) + 1] = Annotated(kind, s)
      <3>1. Annotated(kind, s) \in Paths
        BY <1>0, InstructionTypes
      <3>. QED
        BY <1>0, <2>2, <3>1, AppendElems DEF Calls, Annotated, Paths
    <2>6. Elems(c.callers) \subseteq Elems(s.callers) \cup {Len(frames) + 1}
      <3>1. s.callers \in Seq(Nat) /\ Len(frames) + 1 \in Nat
        BY <1>0, BoundAssumption DEF Paths
      <3>2. Elems(Append(s.callers, Len(frames) + 1)) \subseteq Elems(s.callers) \cup {Len(frames) + 1}
        BY <3>1, AppendElems
      <3>. QED
        BY <2>2, <3>2 DEF Calls
    <2>7. \A u \in Elems(work) \cup Elems(frames) : Elems(u.callers) \subseteq DOMAIN frames'
      BY <2>4 DEF CallersKnown, AllPaths
    <2>8. CallersKnown'
      <3>1. s \in Elems(work) /\ Elems(work') \subseteq Elems(work) \cup {c}
        BY <2>2 DEF Calls
      <3>2. Elems(s.callers) \subseteq DOMAIN frames'
        BY <2>7, <3>1
      <3>3. Elems(c.callers) \subseteq DOMAIN frames'
        BY <2>4, <2>6, <3>2
      <3>4. Elems(frames'[Len(frames) + 1].callers) \subseteq DOMAIN frames'
        BY <2>5, <3>2
      <3>5. \A u \in Elems(work') \cup Elems(frames') : Elems(u.callers) \subseteq DOMAIN frames'
        BY <2>1, <2>7, <3>1, <3>3, <3>4
      <3>. QED
        BY <3>5 DEF CallersKnown, AllPaths, Elems
    <2>. QED
      BY <2>3, <2>8
  <1>3. ASSUME NEW s \in Paths, NEW f \in DOMAIN frames, NEW g, NEW new, Returns(s, f, g, new),
               \A u \in new \cup {g} : u.callers = frames[f].callers,
               UNCHANGED <<phase, round, openStates, expired, forks, lostWrites>>
        PROVE  Structure'
    <2>1. /\ frames' \in Seq(Paths) /\ Len(frames') = Len(frames)
          /\ DOMAIN frames' = DOMAIN frames
          /\ Elems(frames') \subseteq Elems(frames) \cup {g}
      BY <1>3, FrameUpdate DEF Returns
    <2>2. TypeOK'
      BY <1>3, <2>1 DEF TypeOK, Returns
    <2>3. CallersKnown'
      BY <1>3, <2>1 DEF CallersKnown, AllPaths, Returns
    <2>. QED
      BY <2>2, <2>3
  <1>5. CASE EndCall \/ FailInCall
    <2>1. PICK s \in Paths, f \in DOMAIN frames, g \in Paths, new \in SUBSET Paths :
            Returns(s, f, g, new) /\ \A u \in new \cup {g} : u.callers = frames[f].callers
      BY <1>5, ReturnSteps
    <2>2. UNCHANGED <<phase, round, openStates, expired, forks, lostWrites>>
      BY <1>5, ReturnSteps
    <2>. QED
      BY <1>3, <2>1, <2>2
  <1>7. CASE NextRound
    <2>1. /\ work' \in Seq(Paths)
          /\ \A u \in Elems(work') :
               \/ u \in Elems(work)
               \/ \E ws \in Elems(openStates) : ws \in OpenStates /\ u = Transaction(ws, round + 1)
          /\ UNCHANGED <<frames, expired, forks, lostWrites>>
      BY <1>7, NextRoundSteps
    <2>2. round' \in 0..TransactionCount /\ phase' = "message" /\ openStates' = <<>>
      BY <1>0, <1>7, BoundAssumption DEF NextRound
    <2>3. TypeOK'
      BY <2>1, <2>2, NoElems DEF TypeOK
    <2>4. \A ws \in OpenStates : Elems(Transaction(ws, round + 1).callers) = {}
      BY PathTypes, NoElems
    <2>5. CallersKnown'
      BY <2>1, <2>4 DEF CallersKnown, AllPaths
    <2>. QED
      BY <2>3, <2>5
  <1>. QED
    BY <1>1, <1>2, <1>5, <1>7, StepKinds

\* The work list, the open states and the frames keep their types (state objects of svm.py),
\* and a transaction stack only refers to callers that exist.
THEOREM TypeCorrect == Spec => []TypeOK
  <1>1. Structure => TypeOK
    BY DEF Structure
  <1>. QED
    BY InitStructure, StructureKept, <1>1, PTL DEF Spec
-------------------------------------------------------------------------------
(* The depth of calls *)

\* Frames are as shallow as paths: a return resumes one of them.
Shallow == \A s \in AllPaths : Len(s.callers) <= CallDepthLimit

LEMMA ShallowStart ==
  ASSUME NEW ws, NEW issued
  PROVE  Len(Transaction(ws, issued).callers) <= CallDepthLimit
  <1>1. Transaction(ws, issued).callers = <<>>
    BY DEF Transaction
  <1>2. 0 <= CallDepthLimit
    BY BoundAssumption
  <1>. QED
    BY <1>1, <1>2

LEMMA OneElem ==
  ASSUME NEW s
  PROVE  Elems(<<s>>) = {s}
  BY DEF Elems

LEMMA ShallowKept ==
  ASSUME CallKinds \subseteq {"CALL"}, Structure, Shallow, [Next]_vars
  PROVE  Shallow'
  <1>0. frames \in Seq(Paths) /\ forks \in 0..MaxForks
    BY DEF Structure, TypeOK
  <1>1. CASE Advance
    BY <1>1 DEF Advance, Follows, Shallow, AllPaths
  <1>2. CASE Call
    <2>1. /\ Elems(frames') \subseteq Elems(frames) \cup {frames'[Len(frames) + 1]}
          /\ \E s \in Paths, kind \in CallKinds, c \in Paths : Calls(s, kind, c)
      BY <1>2, CallSteps
    <2>2. PICK s \in Paths, kind \in CallKinds, c \in Paths : Calls(s, kind, c)
      BY <2>1
    <2>3. s.callers \in Seq(Nat) /\ Len(frames) + 1 \in Nat /\ Len(s.callers) \in Nat
      BY <1>0, BoundAssumption DEF Paths
    <2>4. Len(s.callers) <= CallDepthLimit /\ Len(s.callers) # CallDepthLimit
      BY <2>2 DEF Calls, TooDeep, Shallow, AllPaths
    <2>5. Len(c.callers) = Len(s.callers) + 1
      BY <2>2, <2>3, AppendElems DEF Calls
    <2>6. Len(c.callers) <= CallDepthLimit
      BY <2>3, <2>4, <2>5, BoundAssumption
    <2>7. Annotated(kind, s).callers = s.callers /\ frames'[Len(frames) + 1] = Annotated(kind, s)
      <3>1. Annotated(kind, s) \in Paths
        BY <1>0, InstructionTypes
      <3>. QED
        BY <1>0, <2>2, <3>1, AppendElems DEF Calls, Annotated, Paths
    <2>. QED
      BY <2>1, <2>2, <2>4, <2>6, <2>7 DEF Calls, Shallow, AllPaths
  <1>3. ASSUME NEW s \in Paths, NEW f \in DOMAIN frames, NEW g \in Paths, NEW new, Returns(s, f, g, new),
               \A u \in new \cup {g} : u.callers = frames[f].callers
        PROVE  Shallow'
    <2>1. Elems(frames') \subseteq Elems(frames) \cup {g}
      BY <1>3, FrameUpdate DEF Returns
    <2>. QED
      BY <1>3, <2>1 DEF Shallow, AllPaths, Returns
  <1>4. CASE EndCall \/ FailInCall
    <2>1. PICK s \in Paths, f \in DOMAIN frames, g \in Paths, new \in SUBSET Paths :
            Returns(s, f, g, new) /\ \A u \in new \cup {g} : u.callers = frames[f].callers
      BY <1>4, ReturnSteps
    <2>. QED
      BY <1>3, <2>1
  <1>5. CASE NextRound
    <2>1. /\ \A u \in Elems(work') :
               \/ u \in Elems(work)
               \/ \E ws \in Elems(openStates) : ws \in OpenStates /\ u = Transaction(ws, round + 1)
          /\ UNCHANGED frames
      BY <1>5, NextRoundSteps
    <2>2. \A ws \in OpenStates : Len(Transaction(ws, round + 1).callers) <= CallDepthLimit
      BY ShallowStart
    <2>3. \A u \in Elems(work') : u \in Elems(work) \/ Len(u.callers) <= CallDepthLimit
      BY <2>1, <2>2
    <2>. QED
      BY <2>1, <2>3 DEF Shallow, AllPaths
  <1>. QED
    BY <1>1, <1>2, <1>4, <1>5, StepKinds

\* --call-depth-limit bounds the depth of a contract whose only calls are CALLs: other
\* opcodes are not hooked by CallDepthLimit.
THEOREM CallDepthStaysWithinLimit ==
  ASSUME CallKinds \subseteq {"CALL"}
  PROVE  Spec => []CallDepthWithinLimit
  <1>1. Init => Shallow
    <2>1. Init => /\ Elems(work) = {Transaction(EmptyWorld, 0)} /\ Elems(frames) = {}
      BY OneElem, NoElems DEF Init
    <2>2. Len(Transaction(EmptyWorld, 0).callers) <= CallDepthLimit
      BY ShallowStart
    <2>. QED
      BY <2>1, <2>2 DEF Shallow, AllPaths
  <1>2. Structure /\ Shallow /\ [Next]_vars => Shallow'
    BY ShallowKept
  <1>3. Shallow => CallDepthWithinLimit
    BY DEF Shallow, AllPaths, Elems, CallDepthWithinLimit
  <1>. QED
    BY InitStructure, StructureKept, <1>1, <1>2, <1>3, PTL DEF Spec

-------------------------------------------------------------------------------
(* The conditions, the marks and the rounds of the paths. *)
-------------------------------------------------------------------------------
(* No path twice *)

Negated(l) == [l EXCEPT !.side = ~@]

LEMMA NegatedTwice ==
  ASSUME NEW l \in Literals
  PROVE  Negated(l) \in Literals /\ Negated(Negated(l)) = l
  BY DEF Literals, Negated

LEMMA IncompatibleSymmetric ==
  ASSUME NEW c \in SUBSET Literals, NEW d \in SUBSET Literals, Incompatible(c, d)
  PROVE  Incompatible(d, c)
  <1>1. PICK l \in c : Negated(l) \in d
    BY DEF Incompatible, Negated
  <1>2. Negated(Negated(l)) = l
    BY NegatedTwice
  <1>. QED
    BY <1>1, <1>2 DEF Incompatible, Negated

LEMMA IncompatibleGrows ==
  ASSUME NEW c, NEW d, NEW c2, NEW d2, Incompatible(c, d), c \subseteq c2, d \subseteq d2
  PROVE  Incompatible(c2, d2)
  BY DEF Incompatible

\* The states pushed for a popped one assume what it has assumed, and are distinct; or a
\* world state takes its place.
Splits(k, states) ==
  /\ k \in DOMAIN work /\ states \in Seq(Paths) /\ Push(k, states)
  /\ \A m \in DOMAIN states : work[k].cond \subseteq states[m].cond
  /\ \A m, n \in DOMAIN states : m # n => Incompatible(states[m].cond, states[n].cond)
  /\ \/ UNCHANGED openStates
     \/ /\ states = <<>>
        /\ \E ws \in OpenStates : ws.cond = work[k].cond /\ openStates' = Append(openStates, ws)

LEMMA SplittingKeepsDistinct ==
  ASSUME TypeOK, DistinctPaths, NEW k, NEW states, Splits(k, states)
  PROVE  DistinctPaths'
  <1>0. /\ work \in Seq(Paths) /\ openStates \in Seq(OpenStates) /\ states \in Seq(Paths)
        /\ k \in 1..Len(work) /\ Len(work) \in Nat /\ DOMAIN work = 1..Len(work)
        /\ \A j \in DOMAIN work : work[j].cond \in SUBSET Literals
        /\ \A j \in DOMAIN openStates : openStates[j].cond \in SUBSET Literals
        /\ \A j \in DOMAIN states : states[j].cond \in SUBSET Literals
    <2>1. work \in Seq(Paths) /\ openStates \in Seq(OpenStates) /\ states \in Seq(Paths) /\ k \in DOMAIN work
      BY DEF TypeOK, Splits
    <2>2. /\ k \in 1..Len(work) /\ Len(work) \in Nat /\ DOMAIN work = 1..Len(work)
          /\ Elems(work) \subseteq Paths /\ Elems(openStates) \subseteq OpenStates
          /\ Elems(states) \subseteq Paths
      BY <2>1, ElemsTyped
    <2>3. (\A s \in Paths : s.cond \in SUBSET Literals) /\ \A ws \in OpenStates : ws.cond \in SUBSET Literals
      BY DEF Paths, OpenStates
    <2>. QED
      BY <2>1, <2>2, <2>3 DEF Elems
  \* Where a state of the new work list comes from.
  <1>. DEFINE old(j) == IF j < Len(work) THEN IF j < k THEN j ELSE j + 1 ELSE k
              new(j) == j - Len(work) + 1
  <1>1. /\ work' \in Seq(Paths) /\ Len(work') = Len(work) - 1 + Len(states)
        /\ \A j \in DOMAIN work' :
             IF j < Len(work) THEN work'[j] = work[IF j < k THEN j ELSE j + 1]
             ELSE new(j) \in DOMAIN states /\ work'[j] = states[new(j)]
    <2>1. work' = Without(work, k) \o states /\ k \in DOMAIN work
      BY DEF Splits, Push
    <2>. DEFINE w == Without(work, k) \o states
    <2>2. work \in Seq(Paths) /\ states \in Seq(Paths) /\ k \in DOMAIN work
      BY <1>0, <2>1
    <2>3. w \in Seq(Paths) /\ Len(w) = Len(work) - 1 + Len(states)
      BY <2>2, PushedPositions
    <2>4. \A j \in DOMAIN w :
               IF j < Len(work) THEN w[j] = work[IF j < k THEN j ELSE j + 1]
               ELSE j - Len(work) + 1 \in DOMAIN states /\ w[j] = states[j - Len(work) + 1]
      BY <2>2, PushedPositions
    <2>5. w = work'
      BY <2>1
    <2>. QED
      BY <2>3, <2>4, <2>5
  <1>2. ASSUME NEW j \in DOMAIN work'
        PROVE  /\ old(j) \in DOMAIN work /\ work[old(j)].cond \subseteq work'[j].cond
               /\ j < Len(work) => old(j) # k
    <2>1. j \in 1..Len(work') /\ Len(states) \in Nat
      BY <1>0, <1>1
    <2>2. CASE j < Len(work)
      BY <1>0, <1>1, <2>1, <2>2
    <2>3. CASE ~(j < Len(work))
      <3>1. old(j) = k
        BY <2>3
      <3>2. work'[j] = states[new(j)] /\ new(j) \in DOMAIN states
        BY <1>1, <2>3
      <3>. HIDE DEF new
      <3>3. work[k].cond \subseteq states[new(j)].cond
        BY <3>2 DEF Splits
      <3>. QED
        BY <1>0, <2>3, <3>1, <3>2, <3>3
    <2>. QED
      BY <2>2, <2>3
  <1>3. ASSUME NEW i \in DOMAIN work', NEW j \in DOMAIN work', i # j
        PROVE  Incompatible(work'[i].cond, work'[j].cond)
    <2>0. i \in Int /\ j \in Int
      BY <1>1
    <2>1. CASE i < Len(work) \/ j < Len(work)
      <3>1. old(i) # old(j)
        BY <1>0, <1>2, <2>0, <1>3, <2>1
      <3>2. /\ old(i) \in DOMAIN work /\ old(j) \in DOMAIN work
            /\ work[old(i)].cond \subseteq work'[i].cond /\ work[old(j)].cond \subseteq work'[j].cond
        BY <1>2
      <3>. HIDE DEF old
      <3>3. Incompatible(work[old(i)].cond, work[old(j)].cond)
        BY <3>1, <3>2 DEF DistinctPaths
      <3>. QED
        BY <3>2, <3>3, IncompatibleGrows
    <2>2. CASE ~(i < Len(work)) /\ ~(j < Len(work))
      <3>1. /\ new(i) \in DOMAIN states /\ work'[i] = states[new(i)]
            /\ new(j) \in DOMAIN states /\ work'[j] = states[new(j)]
        BY <1>1, <2>2
      <3>2. new(i) # new(j)
        BY <1>0, <2>0, <1>3
      <3>. HIDE DEF new
      <3>. QED
        BY <3>1, <3>2 DEF Splits
    <2>. QED
      BY <2>1, <2>2
  <1>. HIDE DEF old, new
  <1>4. CASE UNCHANGED openStates
    <2>1. ASSUME NEW j \in DOMAIN work', NEW i \in DOMAIN openStates
          PROVE  Incompatible(work'[j].cond, openStates[i].cond)
      <3>1. Incompatible(work[old(j)].cond, openStates[i].cond)
        BY <1>2 DEF DistinctPaths
      <3>. QED
        BY <1>2, <3>1, IncompatibleGrows
    <2>. QED
      BY <1>3, <1>4, <2>1 DEF DistinctPaths
  <1>5. ASSUME states = <<>>, NEW ws \in OpenStates, ws.cond = work[k].cond,
               openStates' = Append(openStates, ws)
        PROVE  DistinctPaths'
    <2>1. DOMAIN openStates' = 1..Len(openStates) + 1 /\ DOMAIN openStates = 1..Len(openStates)
          /\ Len(openStates) \in Nat
          /\ openStates'[Len(openStates) + 1] = ws
          /\ \A i \in DOMAIN openStates : openStates'[i] = openStates[i]
      <3>1. openStates' \in Seq(OpenStates) /\ Len(openStates') = Len(openStates) + 1
        BY <1>0, <1>5, AppendElems
      <3>. QED
        BY <1>0, <1>5, <3>1, AppendElems
    <2>2. \A j \in DOMAIN work' : j < Len(work)
      BY <1>0, <1>1, <1>5
    <2>3. ASSUME NEW i \in DOMAIN openStates
          PROVE  /\ Incompatible(ws.cond, openStates[i].cond)
                 /\ Incompatible(openStates[i].cond, ws.cond)
      <3>1. Incompatible(ws.cond, openStates[i].cond)
        BY <1>0, <1>5 DEF DistinctPaths
      <3>. QED
        BY <1>0, <1>5, <3>1, IncompatibleSymmetric
    <2>4. ASSUME NEW j \in DOMAIN work', NEW i \in DOMAIN openStates'
          PROVE  Incompatible(work'[j].cond, openStates'[i].cond)
      <3>1. /\ old(j) \in DOMAIN work /\ old(j) # k
            /\ work[old(j)].cond \subseteq work'[j].cond
        BY <1>2, <2>2
      <3>2. CASE i \in DOMAIN openStates
        <4>1. Incompatible(work[old(j)].cond, openStates[i].cond)
          BY <3>1, <3>2 DEF DistinctPaths
        <4>. QED
          BY <2>1, <3>1, <3>2, <4>1, IncompatibleGrows
      <3>3. CASE i = Len(openStates) + 1
        <4>1. Incompatible(work[old(j)].cond, ws.cond)
          BY <1>0, <1>5, <3>1 DEF DistinctPaths
        <4>. QED
          BY <2>1, <3>1, <3>3, <4>1, IncompatibleGrows
      <3>. QED
        BY <2>1, <3>2, <3>3
    <2>5. ASSUME NEW i \in DOMAIN openStates', NEW j \in DOMAIN openStates', i # j
          PROVE  Incompatible(openStates'[i].cond, openStates'[j].cond)
      <3>1. CASE i \in DOMAIN openStates /\ j \in DOMAIN openStates
        BY <2>1, <2>5, <3>1 DEF DistinctPaths
      <3>2. CASE i \in DOMAIN openStates /\ j = Len(openStates) + 1
        BY <2>1, <2>3, <3>2
      <3>3. CASE j \in DOMAIN openStates /\ i = Len(openStates) + 1
        BY <2>1, <2>3, <3>3
      <3>. QED
        BY <2>1, <2>5, <3>1, <3>2, <3>3
    <2>. QED
      BY <1>3, <2>4, <2>5 DEF DistinctPaths
  <1>. QED
    BY <1>4, <1>5 DEF Splits

\* Pushing nothing, or one state that assumes at least as much, splits nothing.
LEMMA FewSplit ==
  ASSUME TypeOK, NEW k \in Positions, UNCHANGED openStates
  PROVE  /\ Push(k, <<>>) => Splits(k, <<>>)
         /\ \A t \in Paths : Push(k, <<t>>) /\ work[k].cond \subseteq t.cond => Splits(k, <<t>>)
  <1>1. k \in DOMAIN work
    BY PoppedState DEF TypeOK
  <1>2. Push(k, <<>>) => Splits(k, <<>>)
    BY <1>1 DEF Splits
  <1>3. ASSUME NEW t \in Paths, Push(k, <<t>>), work[k].cond \subseteq t.cond
        PROVE  Splits(k, <<t>>)
    <2>1. <<t>> \in Seq(Paths) /\ DOMAIN <<t>> = {1} /\ <<t>>[1] = t
      BY <1>3
    <2>2. \A m \in DOMAIN <<t>> : m = 1
      BY <2>1
    <2>. QED
      BY <1>1, <1>3, <2>1, <2>2 DEF Splits
  <1>. QED
    BY <1>2, <1>3

\* The two branches of a jump are told apart by the new literal.
LEMMA JumpiSplits ==
  ASSUME TypeOK, Jumpi
  PROVE  \E k, states : Splits(k, states)
  <1>1. work \in Seq(Paths) /\ forks \in 0..MaxForks /\ UNCHANGED openStates /\ forks < MaxForks
    BY DEF TypeOK, Jumpi
  <1>2. PICK k \in Positions :
          LET states == <<Side(work[k], FALSE), Side(work[k], TRUE)>>
          IN  Push(k, states) \/ Push(k, <<>>) \/ \E b \in 1..2 : Push(k, <<states[b]>>)
    BY DEF Jumpi
  <1>3. work[k] \in Paths /\ k \in DOMAIN work
    BY <1>1, PoppedState
  <1>. DEFINE f == Side(work[k], FALSE)
              t == Side(work[k], TRUE)
  <1>4. f \in Paths /\ t \in Paths
    BY <1>1, <1>3, InstructionTypes
  <1>5. /\ f.cond = work[k].cond \cup {[fork |-> forks + 1, side |-> FALSE]}
        /\ t.cond = work[k].cond \cup {[fork |-> forks + 1, side |-> TRUE]}
    BY <1>3 DEF Side, Paths
  <1>6. Incompatible(f.cond, t.cond) /\ Incompatible(t.cond, f.cond)
    <2>1. /\ [[fork |-> forks + 1, side |-> FALSE] EXCEPT !.side = ~@] = [fork |-> forks + 1, side |-> TRUE]
          /\ [[fork |-> forks + 1, side |-> TRUE] EXCEPT !.side = ~@] = [fork |-> forks + 1, side |-> FALSE]
      <3>1. \A n : \A b \in BOOLEAN :
              [[fork |-> n, side |-> b] EXCEPT !.side = ~@] = [fork |-> n, side |-> ~b]
        OBVIOUS
      <3>2. /\ [[fork |-> forks + 1, side |-> FALSE] EXCEPT !.side = ~@] = [fork |-> forks + 1, side |-> ~FALSE]
            /\ [[fork |-> forks + 1, side |-> TRUE] EXCEPT !.side = ~@] = [fork |-> forks + 1, side |-> ~TRUE]
        BY <3>1, Zenon
      <3>. QED
        BY <3>2
    <2>. QED
      BY <1>5, <2>1 DEF Incompatible
  <1>7. Push(k, <<f, t>>) \/ Push(k, <<>>) \/ Push(k, <<f>>) \/ Push(k, <<t>>)
    BY <1>2
  <1>. HIDE DEF f, t
  <1>8. ASSUME Push(k, <<f, t>>)
        PROVE  Splits(k, <<f, t>>)
    <2>1. /\ <<f, t>> \in Seq(Paths) /\ DOMAIN <<f, t>> = {1, 2}
          /\ <<f, t>>[1] = f /\ <<f, t>>[2] = t
      BY <1>4
    <2>2. work[k].cond \subseteq f.cond /\ work[k].cond \subseteq t.cond
      BY <1>5
    <2>3. \A m \in DOMAIN <<f, t>> : work[k].cond \subseteq <<f, t>>[m].cond
      BY <2>1, <2>2
    <2>4. \A m, n \in DOMAIN <<f, t>> : m # n => Incompatible(<<f, t>>[m].cond, <<f, t>>[n].cond)
      BY <1>6, <2>1
    <2>. QED
      BY <1>1, <1>3, <1>8, <2>1, <2>3, <2>4 DEF Splits
  <1>. QED
    BY <1>1, <1>4, <1>5, <1>7, <1>8, FewSplit

\* Instructions, and ends of calls: the path that goes on knows what it has assumed.
LEMMA OneSplits ==
  ASSUME Structure, JumpiConstant \/ Store \/ Call \/ EndCall \/ FailInCall
  PROVE  \E k, states : Splits(k, states)
  <1>1. work \in Seq(Paths) /\ frames \in Seq(Paths) /\ forks \in 0..MaxForks /\ TypeOK
    BY DEF Structure, TypeOK
  <1>2. UNCHANGED openStates
    BY DEF JumpiConstant, Store, Call, EndCall, FailInCall
  <1>3. ASSUME NEW k \in Positions, work[k].callers # <<>>
        PROVE  frames[Last(work[k].callers)] \in Paths
    <2>1. work[k] \in Paths /\ work[k] \in Elems(work)
      BY <1>1, PoppedState
    <2>2. Last(work[k].callers) \in DOMAIN frames
      BY <1>3, <2>1, LastCaller DEF Structure, CallersKnown, AllPaths
    <2>. QED
      BY <1>1, <2>2, ElemsTyped DEF Elems
  <1>4. ASSUME NEW s \in Paths, NEW g \in Paths
        PROVE  /\ Resume(g, s) \in Paths /\ s.cond \subseteq Resume(g, s).cond
               /\ ResumeReverted(g, s) \in Paths /\ s.cond \subseteq ResumeReverted(g, s).cond
               /\ AddAnnotations(g, s) \in Paths
    <2>1. /\ Resume(g, s) \in Paths /\ ResumeReverted(g, s) \in Paths
          /\ AddAnnotations(g, s) \in Paths
      BY <1>1, InstructionTypes
    <2>2. s.cond \subseteq Resume(g, s).cond /\ s.cond \subseteq ResumeReverted(g, s).cond
      BY DEF Resume, ResumeReverted, Paths
    <2>. QED
      BY <2>1, <2>2
  <1>5. PICK k \in Positions :
          Push(k, <<>>) \/ \E t \in Paths : Push(k, <<t>>) /\ work[k].cond \subseteq t.cond
    <2>1. CASE JumpiConstant
      <3>1. PICK k \in Positions : Push(k, <<Deeper(work[k])>>)
        BY <2>1 DEF JumpiConstant
      <3>2. work[k] \in Paths
        BY <1>1, PoppedState
      <3>3. Deeper(work[k]) \in Paths /\ Deeper(work[k]).cond = work[k].cond
        BY <1>1, <3>2, InstructionTypes DEF Deeper, Paths
      <3>. QED
        BY <3>1, <3>3
    <2>2. CASE Store
      <3>1. PICK k \in Positions : Push(k, <<[work[k] EXCEPT !.mutation = TRUE, !.wrote = TRUE]>>)
        BY <2>2 DEF Store
      <3>2. work[k] \in Paths
        BY <1>1, PoppedState
      <3>. DEFINE t == [work[k] EXCEPT !.mutation = TRUE, !.wrote = TRUE]
      <3>3. t \in Paths /\ t.cond = work[k].cond
        BY <1>1, <3>2, InstructionTypes DEF Paths
      <3>. HIDE DEF t
      <3>4. Push(k, <<t>>)
        BY <3>1 DEF t
      <3>. QED
        BY <3>3, <3>4
    <2>3. CASE Call
      <3>1. PICK k \in Positions, kind \in CallKinds :
              Push(k, <<[work[k] EXCEPT !.callers = Append(@, Len(frames) + 1), !.depth = 0,
                          !.mutation = FALSE, !.static = @ \/ kind = "STATICCALL"]>>)
        BY <2>3 DEF Call
      <3>. DEFINE c == [work[k] EXCEPT !.callers = Append(@, Len(frames) + 1), !.depth = 0,
                                       !.mutation = FALSE, !.static = @ \/ kind = "STATICCALL"]
      <3>2. work[k] \in Paths
        BY <1>1, PoppedState
      <3>3. Append(work[k].callers, Len(frames) + 1) \in Seq(1..MaxCalls)
        <4>1. Len(frames) < MaxCalls /\ Len(frames) \in Nat /\ MaxCalls \in Nat
          <5>1. Len(frames) < MaxCalls
            BY <2>3 DEF Call
          <5>. QED
            BY <1>1, <5>1, BoundAssumption
        <4>2. work[k].callers \in Seq(1..MaxCalls) /\ Len(frames) + 1 \in 1..MaxCalls
          BY <3>2, <4>1 DEF Paths
        <4>. QED
          BY <4>2, AppendElems
      <3>4. c \in Paths /\ c.cond = work[k].cond
        BY <3>2, <3>3 DEF Paths
      <3>. HIDE DEF c
      <3>5. Push(k, <<c>>)
        BY <3>1 DEF c
      <3>. QED
        BY <3>4, <3>5
    <2>4. CASE EndCall
      <3>1. PICK k \in Positions :
              LET g == AddAnnotations(frames[Last(work[k].callers)], work[k])
              IN  /\ work[k].callers # <<>>
                  /\ \/ Push(k, <<Resume(g, work[k])>>)
                     \/ Push(k, <<ResumeReverted(g, work[k])>>)
                     \/ Push(k, <<>>)
        BY <2>4 DEF EndCall
      <3>2. work[k] \in Paths /\ frames[Last(work[k].callers)] \in Paths
        BY <1>1, <1>3, <3>1, PoppedState
      <3>. QED
        BY <1>4, <3>1, <3>2
    <2>5. CASE FailInCall
      <3>1. PICK k \in Positions :
              LET g == ResumeReverted(frames[Last(work[k].callers)], work[k])
              IN  work[k].callers # <<>> /\ (Push(k, <<g>>) \/ Push(k, <<>>))
        BY <2>5 DEF FailInCall
      <3>2. work[k] \in Paths /\ frames[Last(work[k].callers)] \in Paths
        BY <1>1, <1>3, <3>1, PoppedState
      <3>. QED
        BY <1>4, <3>1, <3>2
    <2>. QED
      BY <2>1, <2>2, <2>3, <2>4, <2>5
  <1>. QED
    BY <1>1, <1>2, <1>5, FewSplit

\* A world state takes the place of the path that ends.
LEMMA EndingSplits ==
  ASSUME TypeOK, EndTransaction \/ OffCode
  PROVE  \E k, states : Splits(k, states)
  <1>1. PICK k \in Positions :
          /\ Push(k, <<>>)
          /\ \/ \E dead \in BOOLEAN : AddWorldState(work[k], dead)
             \/ UNCHANGED openStates
    <2>1. CASE EndTransaction
      <3>1. PICK k \in Positions :
              /\ Push(k, <<>>)
              /\ \/ \E dead \in {FALSE, ~work[k].creation /\ "selfdestruct" \in Events} :
                      AddWorldState(work[k], dead)
                 \/ UNCHANGED openStates
        BY <2>1 DEF EndTransaction
      <3>2. (~work[k].creation /\ "selfdestruct" \in Events) \in BOOLEAN
        OBVIOUS
      <3>. QED
        BY <3>1, <3>2
    <2>2. CASE OffCode
      BY <2>2 DEF OffCode
    <2>. QED
      BY <2>1, <2>2
  <1>2. k \in DOMAIN work /\ work[k] \in Paths
    BY PoppedState DEF TypeOK
  <1>3. CASE UNCHANGED openStates
    BY <1>1, <1>3, FewSplit
  <1>4. ASSUME NEW dead \in BOOLEAN, AddWorldState(work[k], dead)
        PROVE  Splits(k, <<>>)
    <2>. DEFINE ws == [cond |-> work[k].cond, issued |-> work[k].issued, dead |-> dead,
                       mixed |-> work[k].mixed]
    <2>1. openStates' = Append(openStates, ws) \/ UNCHANGED openStates
      BY <1>4 DEF AddWorldState
    <2>2. ws \in OpenStates /\ ws.cond = work[k].cond
      BY <1>2 DEF OpenStates, Paths
    <2>. HIDE DEF ws
    <2>3. <<>> \in Seq(Paths) /\ DOMAIN <<>> = {}
      OBVIOUS
    <2>. QED
      BY <1>1, <1>2, <2>1, <2>2, <2>3 DEF Splits
  <1>. QED
    BY <1>1, <1>3, <1>4

\* The transactions of a round are as distinct as their world states.
LEMMA NextRoundDistinct ==
  ASSUME Structure, DistinctPaths, NextRound
  PROVE  DistinctPaths'
  <1>0. /\ work \in Seq(Paths) /\ openStates \in Seq(OpenStates)
        /\ Elems(work) \subseteq Paths /\ Elems(openStates) \subseteq OpenStates
    BY ElemsTyped DEF Structure, TypeOK
  <1>1. PICK S \in Reachable : \E states \in Setup(S) : work' = work \o states
    BY DEF NextRound
  <1>2. PICK states \in Setup(S) : work' = work \o states
    BY <1>1
  <1>3. states \in Seq(Paths)
    BY <1>2, SetupSteps
  <1>4. PICK t \in [DOMAIN states -> DOMAIN openStates] :
          /\ \A n \in DOMAIN states : states[n] = Transaction(openStates[t[n]], round + 1)
          /\ \A m, n \in DOMAIN states : m # n => t[m] # t[n]
    BY <1>2, SetupSteps
  <1>5. ASSUME NEW n \in DOMAIN states
        PROVE  t[n] \in DOMAIN openStates /\ states[n].cond = openStates[t[n]].cond
    <2>1. t[n] \in DOMAIN openStates
      OBVIOUS
    <2>2. openStates[t[n]] \in OpenStates
      BY <1>0, <2>1 DEF Elems
    <2>. QED
      BY <1>4, <2>1, <2>2, PathTypes
  <1>6. ASSUME NEW m \in DOMAIN states, NEW n \in DOMAIN states, m # n
        PROVE  Incompatible(states[m].cond, states[n].cond)
    BY <1>4, <1>5, <1>6 DEF DistinctPaths
  <1>7. ASSUME NEW j \in DOMAIN work, NEW n \in DOMAIN states
        PROVE  /\ Incompatible(work[j].cond, states[n].cond)
               /\ Incompatible(states[n].cond, work[j].cond)
    <2>1. Incompatible(work[j].cond, states[n].cond)
      BY <1>5 DEF DistinctPaths
    <2>2. work[j] \in Paths /\ states[n] \in Paths
      BY <1>0, <1>3, ElemsTyped DEF Elems
    <2>3. work[j].cond \in SUBSET Literals /\ states[n].cond \in SUBSET Literals
      BY <2>2 DEF Paths
    <2>. QED
      BY <2>1, <2>3, IncompatibleSymmetric
  <1>. DEFINE w == work \o states
  <1>8. /\ w \in Seq(Paths) /\ Len(w) = Len(work) + Len(states)
        /\ \A i \in 1..Len(work) + Len(states) :
             w[i] = IF i <= Len(work) THEN work[i] ELSE states[i - Len(work)]
    BY <1>0, <1>3, ConcatProperties
  <1>9. /\ Len(work) \in Nat /\ Len(states) \in Nat
        /\ DOMAIN work = 1..Len(work) /\ DOMAIN states = 1..Len(states)
    BY <1>0, <1>3
  <1>. HIDE DEF w
  <1>10. DOMAIN w = 1..Len(work) + Len(states)
    BY <1>8
  <1>11. ASSUME NEW i \in DOMAIN w
         PROVE  \/ i \in DOMAIN work /\ w[i] = work[i]
                \/ /\ ~(i <= Len(work)) /\ i - Len(work) \in DOMAIN states
                   /\ w[i] = states[i - Len(work)]
    <2>1. CASE i <= Len(work)
      BY <1>8, <1>9, <1>10, <2>1
    <2>2. CASE ~(i <= Len(work))
      <3>1. i - Len(work) \in 1..Len(states)
        BY <1>9, <1>10, <2>2
      <3>. QED
        BY <1>8, <1>9, <1>10, <2>2, <3>1
    <2>. QED
      BY <2>1, <2>2
  <1>12. ASSUME NEW i \in DOMAIN w, NEW j \in DOMAIN w, i # j
         PROVE  Incompatible(w[i].cond, w[j].cond)
    <2>1. CASE w[i] = work[i] /\ i \in DOMAIN work /\ w[j] = work[j] /\ j \in DOMAIN work
      BY <1>12, <2>1 DEF DistinctPaths
    <2>2. ASSUME w[i] = work[i], i \in DOMAIN work, ~(j <= Len(work))
          PROVE  Incompatible(w[i].cond, w[j].cond)
      BY <1>7, <1>9, <1>11, <2>2
    <2>3. ASSUME w[j] = work[j], j \in DOMAIN work, ~(i <= Len(work))
          PROVE  Incompatible(w[i].cond, w[j].cond)
      BY <1>7, <1>9, <1>11, <2>3
    <2>4. ASSUME ~(i <= Len(work)), ~(j <= Len(work))
          PROVE  Incompatible(w[i].cond, w[j].cond)
      <3>1. i - Len(work) # j - Len(work)
        BY <1>9, <1>10, <1>12
      <3>. QED
        BY <1>6, <1>9, <1>11, <2>4, <3>1
    <2>. QED
      BY <1>11, <2>1, <2>2, <2>3, <2>4
  <1>13. work' = w /\ DOMAIN openStates' = {}
    BY <1>2 DEF w, NextRound
  <1>. QED
    BY <1>12, <1>13 DEF DistinctPaths

LEMMA DistinctKept ==
  ASSUME Structure, DistinctPaths, [Next]_vars
  PROVE  DistinctPaths'
  <1>1. TypeOK
    BY DEF Structure
  <1>2. CASE Dropping \/ UNCHANGED vars
    <2>1. CASE ExecDone \/ Finish \/ UNCHANGED vars
      BY <2>1 DEF ExecDone, Finish, vars, DistinctPaths
    <2>2. CASE Discard \/ Timeout \/ Unimplemented \/ SkipCall \/ FailTransaction
      <3>1. PICK k \in Positions : Push(k, <<>>) \/ work' = Without(work, k)
        BY <2>2 DEF Discard, Timeout, Unimplemented, SkipCall, FailTransaction
      <3>2. k \in DOMAIN work /\ work \in Seq(Paths)
        BY <1>1, PoppedState DEF TypeOK
      <3>3. Without(work, k) \in Seq(Paths)
        BY <3>2, WithoutOne
      <3>4. Push(k, <<>>)
        BY <3>1, <3>3, ConcatEmptySeq DEF Push
      <3>5. UNCHANGED openStates
        BY <2>2 DEF Discard, Timeout, Unimplemented, SkipCall, FailTransaction
      <3>. QED
        BY <1>1, <3>4, <3>5, FewSplit, SplittingKeepsDistinct
    <2>. QED
      BY <1>2, <2>1, <2>2 DEF Dropping
  <1>3. CASE Jumpi
    BY <1>1, <1>3, JumpiSplits, SplittingKeepsDistinct
  <1>4. CASE JumpiConstant \/ Store \/ Call \/ EndCall \/ FailInCall
    BY <1>1, <1>4, OneSplits, SplittingKeepsDistinct
  <1>5. CASE EndTransaction \/ OffCode
    BY <1>1, <1>5, EndingSplits, SplittingKeepsDistinct
  <1>6. CASE NextRound
    BY <1>6, NextRoundDistinct
  <1>. QED
    BY <1>2, <1>3, <1>4, <1>5, <1>6, StepKinds DEF Executed

\* No path is explored twice, with any search strategy, any events and any bounds: of two
\* states in the work list or the open states, one has taken a branch (jumpi_) and the
\* other its negation.
THEOREM PathsStayDistinct == Spec => []DistinctPaths
  <1>1. Init => DistinctPaths
    <2>1. ASSUME Init
          PROVE  DistinctPaths
      <3>1. DOMAIN work = {1} /\ DOMAIN openStates = {}
        BY <2>1 DEF Init
      <3>. QED
        BY <3>1 DEF DistinctPaths
    <2>. QED
      BY <2>1
  <1>2. Structure /\ DistinctPaths /\ [Next]_vars => DistinctPaths'
    BY DistinctKept
  <1>. QED
    BY InitStructure, StructureKept, <1>1, <1>2, PTL DEF Spec

-------------------------------------------------------------------------------
(* Consistent path conditions *)

\* A callee knows what each of its callers has assumed, unless one of them is mixed.
Extended ==
  \A s \in AllPaths : \A f \in Elems(s.callers) :
    s.mixed \/ frames[f].mixed \/ frames[f].cond \subseteq s.cond

\* A literal is no older than its fork.
Known(cond) == \A l \in cond : l.fork <= forks
Fresh == /\ \A s \in AllPaths : Known(s.cond)
         /\ \A ws \in Elems(openStates) : Known(ws.cond)

AllConsistent == /\ \A s \in AllPaths : s.mixed \/ Consistent(s.cond)
                 /\ \A ws \in Elems(openStates) : ws.mixed \/ Consistent(ws.cond)

Assumptions == Extended /\ Fresh /\ AllConsistent

\* A fresh literal contradicts nothing.
LEMMA FreshLiteral ==
  ASSUME NEW cond \in SUBSET Literals, Known(cond), Consistent(cond), forks \in Nat,
         NEW side \in BOOLEAN, NEW cond2,
         cond2 = cond \cup {[fork |-> forks + 1, side |-> side]}
  PROVE  Consistent(cond2)
  <1>. DEFINE new == [fork |-> forks + 1, side |-> side]
  <1>1. new.fork = forks + 1 /\ Negated(new).fork = forks + 1 /\ Negated(new).side = ~side /\ new.side = side
    BY DEF Negated
  <1>2. \A l \in cond : l.fork # forks + 1 /\ Negated(l).fork = l.fork
    <2>1. \A l \in Literals : Negated(l).fork = l.fork
      BY DEF Literals, Negated
    <2>2. \A l \in Literals : l.fork \in Int
      BY DEF Literals
    <2>3. \A l \in cond : l.fork <= forks
      BY DEF Known
    <2>4. \A n \in Int : n <= forks => n # forks + 1
      OBVIOUS
    <2>. QED
      BY <2>1, <2>2, <2>3, <2>4
  <1>. HIDE DEF new
  <1>3. \A l \in cond : Negated(l) # new /\ l # Negated(new)
    BY <1>1, <1>2
  <1>4. Negated(new) # new
    BY <1>1
  <1>5. cond2 = cond \cup {new}
    BY DEF new
  <1>. QED
    BY <1>3, <1>4, <1>5 DEF Consistent, Negated

\* The end of a call in which frame f may become mixed: a path goes on in the place of f, and
\* is mixed if f or the callee s is.
LEMMA GoingOn ==
  ASSUME Structure, Assumptions, NEW s \in AllPaths, NEW f \in DOMAIN frames, frames[f] \in AllPaths,
         s.mixed \/ frames[f].mixed \/ frames[f].cond \subseteq s.cond,
         \A i \in DOMAIN frames :
           frames'[i].mixed \/ (frames'[i].cond = frames[i].cond /\ frames'[i].mixed = frames[i].mixed),
         \A u \in Elems(work') \cup Elems(frames') :
           \/ u \in AllPaths
           \/ /\ u.callers = frames[f].callers
              /\ u.cond \in {frames[f].cond, s.cond, frames[f].cond \cup s.cond}
              /\ \/ u.mixed
                 \/ u.cond = frames[f].cond /\ u.mixed = frames[f].mixed
                 \/ u.mixed = (frames[f].mixed \/ s.mixed),
         openStates' = openStates, forks' = forks
  PROVE  Assumptions'
  <1>. USE DEF Assumptions
  <1>1. ASSUME NEW u \in Elems(work') \cup Elems(frames'), NEW h \in Elems(u.callers)
        PROVE  u.mixed \/ frames'[h].mixed \/ frames'[h].cond \subseteq u.cond
    <2>1. CASE u \in AllPaths
      <3>1. h \in DOMAIN frames /\ (u.mixed \/ frames[h].mixed \/ frames[h].cond \subseteq u.cond)
        BY <2>1 DEF Structure, CallersKnown, Extended
      <3>. QED
        BY <3>1
    <2>2. CASE u \notin AllPaths
      <3>1. h \in DOMAIN frames /\ (frames[f].mixed \/ frames[h].mixed \/ frames[h].cond \subseteq frames[f].cond)
        BY <2>2 DEF Structure, CallersKnown, Extended
      <3>. QED
        BY <2>2, <3>1
    <2>. QED
      BY <2>1, <2>2
  <1>2. Extended'
    BY <1>1 DEF Extended, AllPaths, Elems
  <1>3. Fresh'
    BY DEF Fresh, AllPaths, Known
  <1>4. ASSUME NEW u \in Elems(work') \cup Elems(frames'), ~u.mixed
        PROVE  Consistent(u.cond)
    <2>1. CASE u \in AllPaths
      BY <1>4, <2>1 DEF AllConsistent
    <2>2. CASE u \notin AllPaths /\ u.cond = frames[f].cond /\ u.mixed = frames[f].mixed
      BY <1>4, <2>2 DEF AllConsistent
    <2>3. CASE u \notin AllPaths /\ u.mixed = (frames[f].mixed \/ s.mixed)
      <3>1. ~frames[f].mixed /\ ~s.mixed
        BY <1>4, <2>3
      <3>2. u.cond = s.cond \/ u.cond = frames[f].cond
        BY <2>3, <3>1
      <3>. QED
        BY <3>1, <3>2 DEF AllConsistent
    <2>. QED
      BY <1>4, <2>1, <2>2, <2>3
  <1>5. AllConsistent'
    BY <1>4 DEF AllConsistent, AllPaths
  <1>. QED
    BY <1>2, <1>3, <1>5

LEMMA AssumptionsKept ==
  ASSUME Structure, Assumptions, [Next]_vars
  PROVE  Assumptions'
  <1>. USE DEF Assumptions
  <1>0. /\ work \in Seq(Paths) /\ frames \in Seq(Paths) /\ openStates \in Seq(OpenStates)
        /\ forks \in 0..MaxForks /\ forks \in Nat /\ Len(frames) \in Nat
        /\ Elems(work) \subseteq Paths /\ Elems(frames) \subseteq Paths
        /\ Elems(openStates) \subseteq OpenStates /\ DOMAIN frames = 1..Len(frames)
    BY ElemsTyped DEF Structure, TypeOK
  <1>1. CASE Advance
    <2>1. /\ frames' = frames /\ forks' \in Nat /\ forks <= forks'
          /\ \A t \in Elems(work') : t \in Elems(work) \/ \E s \in Elems(work) : Follows(s, t)
          /\ \A ws \in Elems(openStates') :
               \/ ws \in Elems(openStates)
               \/ \E s \in Elems(work) : ws.cond = s.cond /\ ws.mixed = s.mixed
      BY <1>1 DEF Advance
    <2>2. \A cond \in SUBSET Literals : Known(cond) => Known(cond)'
      BY <1>0, <2>1 DEF Known, Literals
    <2>3. (\A s \in AllPaths : s.cond \in SUBSET Literals) /\ \A ws \in Elems(openStates) : ws.cond \in SUBSET Literals
      BY <1>0 DEF AllPaths, Paths, OpenStates
    <2>4. ASSUME NEW s \in Elems(work), NEW t, Follows(s, t)
          PROVE  /\ t.callers = s.callers /\ s.cond \subseteq t.cond /\ t.mixed = s.mixed
                 /\ s.mixed \/ Consistent(t.cond)
                 /\ Known(t.cond)'
      <3>0. /\ s \in AllPaths /\ s.cond \in SUBSET Literals /\ Known(s.cond)
            /\ s.mixed \/ Consistent(s.cond)
        BY <2>3 DEF AllPaths, Fresh, AllConsistent
      <3>1. CASE t.cond = s.cond
        BY <2>2, <2>4, <3>0, <3>1 DEF Follows
      <3>2. ASSUME NEW side \in BOOLEAN, forks' = forks + 1,
                   t.cond = s.cond \cup {[fork |-> forks', side |-> side]}
            PROVE  (s.mixed \/ Consistent(t.cond)) /\ Known(t.cond)'
        <4>1. s.mixed \/ Consistent(t.cond)
          BY <1>0, <3>0, <3>2, FreshLiteral
        <4>2. Known(s.cond)'
          BY <2>2, <3>0
        <4>. QED
          BY <2>1, <3>2, <4>1, <4>2 DEF Known
      <3>. QED
        BY <2>4, <3>1, <3>2 DEF Follows
    <2>5. Extended'
      BY <2>1, <2>4 DEF Extended, AllPaths
    <2>6. Fresh'
      <3>1. \A s \in AllPaths : Known(s.cond)'
        BY <2>2, <2>3 DEF Fresh
      <3>2. \A ws \in Elems(openStates) : Known(ws.cond)'
        BY <2>2, <2>3 DEF Fresh
      <3>3. \A t \in Elems(work') \cup Elems(frames') : Known(t.cond)'
        BY <2>1, <2>4, <3>1 DEF AllPaths
      <3>4. \A ws \in Elems(openStates') : Known(ws.cond)'
        BY <2>1, <3>1, <3>2 DEF AllPaths
      <3>. QED
        BY <3>3, <3>4 DEF Fresh, AllPaths, Known
    <2>7. AllConsistent'
      BY <2>1, <2>4 DEF AllConsistent, AllPaths
    <2>. QED
      BY <2>5, <2>6, <2>7
  <1>2. CASE Call
    <2>1. PICK s \in Paths, kind \in CallKinds, c \in Paths : Calls(s, kind, c)
      BY <1>2, CallSteps
    <2>2. /\ Len(frames') = Len(frames) + 1
          /\ \A i \in DOMAIN frames : frames'[i] = frames[i]
          /\ Elems(frames') \subseteq Elems(frames) \cup {frames'[Len(frames) + 1]}
          /\ openStates' = openStates /\ forks' = forks
      BY <1>2, CallSteps
    <2>3. /\ frames'[Len(frames) + 1].cond = s.cond
          /\ frames'[Len(frames) + 1].callers = s.callers
          /\ frames'[Len(frames) + 1].mixed = s.mixed
      <3>1. Annotated(kind, s) \in Paths
        BY <1>0, InstructionTypes
      <3>2. frames'[Len(frames) + 1] = Annotated(kind, s)
        BY <1>0, <2>1, <3>1, AppendElems DEF Calls
      <3>. QED
        BY <3>1, <3>2 DEF Annotated, Paths
    <2>4. /\ s \in AllPaths /\ c.cond = s.cond /\ c.mixed = s.mixed
          /\ Elems(work') \subseteq Elems(work) \cup {c}
      BY <2>1 DEF Calls, AllPaths
    <2>5. Elems(c.callers) \subseteq Elems(s.callers) \cup {Len(frames) + 1}
      <3>1. s.callers \in Seq(Nat) /\ Len(frames) + 1 \in Nat
        BY <1>0, BoundAssumption DEF Paths
      <3>. QED
        BY <2>1, <3>1, AppendElems DEF Calls
    <2>6. \A u \in AllPaths : \A f \in Elems(u.callers) :
            f \in DOMAIN frames /\ (u.mixed \/ frames'[f].mixed \/ frames'[f].cond \subseteq u.cond)
      BY <2>2 DEF Extended, Structure, CallersKnown
    <2>7. \A u \in Elems(work') \cup Elems(frames') :
            \/ u \in AllPaths
            \/ /\ u.cond = s.cond /\ u.mixed = s.mixed
               /\ Elems(u.callers) \subseteq Elems(s.callers) \cup {Len(frames) + 1}
      BY <2>2, <2>3, <2>4, <2>5 DEF AllPaths
    <2>8. Extended'
      <3>. SUFFICES ASSUME NEW u \in Elems(work') \cup Elems(frames'), NEW f \in Elems(u.callers)
                    PROVE  u.mixed \/ frames'[f].mixed \/ frames'[f].cond \subseteq u.cond
        BY DEF Extended, AllPaths, Elems
      <3>1. CASE u \in AllPaths
        BY <2>6, <3>1
      <3>2. CASE u.cond = s.cond /\ u.mixed = s.mixed /\ f \in Elems(s.callers)
        BY <2>4, <2>6, <3>2
      <3>3. CASE u.cond = s.cond /\ f = Len(frames) + 1
        BY <2>3, <3>3
      <3>. QED
        BY <2>7, <3>1, <3>2, <3>3
    <2>9. Fresh'
      BY <2>2, <2>4, <2>7 DEF Fresh, AllPaths, Known
    <2>10. AllConsistent'
      BY <2>2, <2>4, <2>7 DEF AllConsistent, AllPaths
    <2>. QED
      BY <2>8, <2>9, <2>10
  <1>3. CASE EndCall
    <2>1. PICK s \in Paths, f \in DOMAIN frames :
            LET g == AddAnnotations(frames[f], s)
            IN  Returns(s, f, g, {Resume(g, s), ResumeReverted(g, s)})
      BY <1>3, EndCallSteps
    <2>. DEFINE g == AddAnnotations(frames[f], s)
                r == Resume(g, s)
                v == ResumeReverted(g, s)
    <2>2. /\ frames[f] \in Paths /\ frames[f] \in AllPaths /\ s \in AllPaths
          /\ f \in Elems(s.callers) /\ g \in Paths
      BY <2>1 DEF Returns, AllPaths
    <2>3. s.mixed \/ frames[f].mixed \/ frames[f].cond \subseteq s.cond
      BY <2>2 DEF Extended
    <2>4. g.cond = frames[f].cond /\ g.callers = frames[f].callers /\ g.mixed = frames[f].mixed
      BY <2>2 DEF AddAnnotations, Paths
    <2>5. \A u \in {r, v} : u.callers = frames[f].callers /\ u.mixed = (frames[f].mixed \/ s.mixed)
      BY <2>2, <2>4 DEF Resume, ResumeReverted, Paths
    <2>6. r.cond = s.cond /\ v.cond = frames[f].cond \cup s.cond
      BY <2>2, <2>4 DEF Resume, ResumeReverted, Paths
    <2>7. /\ \A i \in DOMAIN frames : frames'[i] = IF i = f THEN g ELSE frames[i]
          /\ Elems(frames') \subseteq Elems(frames) \cup {g}
          /\ Elems(work') \subseteq Elems(work) \cup {r, v}
          /\ openStates' = openStates /\ forks' = forks
      BY <1>3, <2>1, EndCallSteps, FrameUpdate DEF Returns
    <2>. HIDE DEF g, r, v
    <2>8. \A i \in DOMAIN frames : frames'[i].cond = frames[i].cond /\ frames'[i].mixed = frames[i].mixed
      BY <2>4, <2>7
    <2>9. \A u \in Elems(work') \cup Elems(frames') :
            \/ u \in AllPaths
            \/ /\ u.callers = frames[f].callers
               /\ u.cond \in {frames[f].cond, s.cond, frames[f].cond \cup s.cond}
               /\ \/ u.cond = frames[f].cond /\ u.mixed = frames[f].mixed
                  \/ u.mixed = (frames[f].mixed \/ s.mixed)
      <3>1. Elems(work') \cup Elems(frames') \subseteq AllPaths \cup {g, r, v}
        BY <2>7 DEF AllPaths
      <3>. QED
        BY <2>4, <2>5, <2>6, <3>1
    <2>. QED
      BY <2>2, <2>3, <2>7, <2>8, <2>9, GoingOn
  <1>4. CASE FailInCall
    <2>1. PICK s \in Paths, f \in DOMAIN frames :
            LET r == ResumeReverted(frames[f], s)
            IN  Returns(s, f, [r EXCEPT !.mixed = TRUE], {r})
      BY <1>4, FailInCallSteps
    <2>. DEFINE r == ResumeReverted(frames[f], s)
                g == [r EXCEPT !.mixed = TRUE]
    <2>2. /\ frames[f] \in Paths /\ frames[f] \in AllPaths /\ s \in AllPaths
          /\ f \in Elems(s.callers) /\ g \in Paths
      BY <2>1 DEF Returns, AllPaths
    <2>3. s.mixed \/ frames[f].mixed \/ frames[f].cond \subseteq s.cond
      BY <2>2 DEF Extended
    <2>4. /\ g.cond = frames[f].cond \cup s.cond /\ g.callers = frames[f].callers /\ g.mixed
          /\ r.cond = frames[f].cond \cup s.cond /\ r.callers = frames[f].callers
          /\ r.mixed = (frames[f].mixed \/ s.mixed)
      BY <2>2 DEF ResumeReverted, Paths
    <2>5. /\ \A i \in DOMAIN frames : frames'[i] = IF i = f THEN g ELSE frames[i]
          /\ Elems(frames') \subseteq Elems(frames) \cup {g}
          /\ Elems(work') \subseteq Elems(work) \cup {r}
          /\ openStates' = openStates /\ forks' = forks
      BY <1>4, <2>1, FailInCallSteps, FrameUpdate DEF Returns
    <2>. HIDE DEF g, r
    <2>6. \A i \in DOMAIN frames :
            frames'[i].mixed \/ (frames'[i].cond = frames[i].cond /\ frames'[i].mixed = frames[i].mixed)
      BY <2>4, <2>5
    <2>7. \A u \in Elems(work') \cup Elems(frames') :
            \/ u \in AllPaths
            \/ /\ u.callers = frames[f].callers
               /\ u.cond \in {frames[f].cond, s.cond, frames[f].cond \cup s.cond}
               /\ u.mixed \/ u.mixed = (frames[f].mixed \/ s.mixed)
      <3>1. Elems(work') \cup Elems(frames') \subseteq AllPaths \cup {g, r}
        BY <2>5 DEF AllPaths
      <3>. QED
        BY <2>4, <3>1
    <2>. QED
      BY <2>2, <2>3, <2>5, <2>6, <2>7, GoingOn
  <1>5. CASE NextRound
    <2>1. /\ \A u \in Elems(work') :
               \/ u \in Elems(work)
               \/ \E ws \in Elems(openStates) : ws \in OpenStates /\ u = Transaction(ws, round + 1)
          /\ frames' = frames /\ forks' = forks
      BY <1>5, NextRoundSteps
    <2>2. Elems(openStates') = {}
      BY <1>5, NoElems DEF NextRound
    <2>3. \A ws \in OpenStates : /\ Elems(Transaction(ws, round + 1).callers) = {}
                                  /\ Transaction(ws, round + 1).cond = ws.cond
                                  /\ Transaction(ws, round + 1).mixed = ws.mixed
      BY PathTypes, NoElems
    <2>4. Extended'
      BY <2>1, <2>3 DEF Extended, AllPaths
    <2>5. Fresh'
      BY <2>1, <2>2, <2>3 DEF Fresh, AllPaths, Known
    <2>6. AllConsistent'
      BY <2>1, <2>2, <2>3 DEF AllConsistent, AllPaths
    <2>. QED
      BY <2>4, <2>5, <2>6
  <1>. QED
    BY <1>1, <1>2, <1>3, <1>4, <1>5, StepKinds

\* Whatever happens, the callees of a shared caller included (callees may fail,
\* handle_vm_exception resuming the caller's own state object): a path condition holds a
\* branch and its negation only on a path that went on from a caller which a failing callee
\* had resumed.
THEOREM PathsStayConsistent == Spec => []OnlyFailuresMix
  <1>1. Init => Assumptions
    <2>1. ASSUME Init
          PROVE  Assumptions
      <3>1. /\ Elems(work) = {Transaction(EmptyWorld, 0)} /\ Elems(frames) = {}
            /\ Elems(openStates) = {}
        BY <2>1, OneElem, NoElems DEF Init
      <3>2. /\ Transaction(EmptyWorld, 0).cond = {}
            /\ Elems(Transaction(EmptyWorld, 0).callers) = {}
        BY NoElems DEF Transaction, EmptyWorld
      <3>. QED
        BY <3>1, <3>2 DEF Assumptions, Extended, Fresh, Known, AllConsistent, Consistent, AllPaths
    <2>. QED
      BY <2>1
  <1>2. Structure /\ Assumptions /\ [Next]_vars => Assumptions'
    BY AssumptionsKept
  <1>3. Assumptions => OnlyFailuresMix
    BY DEF Assumptions, AllConsistent, OnlyFailuresMix, AllPaths, Elems
  <1>. QED
    BY InitStructure, StructureKept, <1>1, <1>2, <1>3, PTL DEF Spec

-------------------------------------------------------------------------------
(* Writes and mutation annotations *)

\* A path that has written is marked, or one of its callers is: a callee starts unmarked
\* with the storage of its caller.
MarkedIn(s, fs) == s.mutation \/ \E f \in Elems(s.callers) : fs[f].mutation
Marked == \A s \in AllPaths : s.wrote => MarkedIn(s, frames)

\* The callers of the last caller are the other callers.
Nested ==
  \A s \in AllPaths :
    s.callers # <<>> =>
      Elems(s.callers) \subseteq Elems(frames[Last(s.callers)].callers) \cup {Last(s.callers)}

LEMMA NestedKept ==
  ASSUME Structure, Nested, [Next]_vars
  PROVE  Nested'
  <1>0. /\ frames \in Seq(Paths) /\ Len(frames) \in Nat /\ DOMAIN frames = 1..Len(frames)
        /\ forks \in 0..MaxForks /\ Elems(work) \subseteq Paths /\ Elems(frames) \subseteq Paths
    BY ElemsTyped DEF Structure, TypeOK
  \* A step that adds paths with callers of before and leaves the callers of the frames.
  <1>1. ASSUME \A i \in DOMAIN frames : frames'[i].callers = frames[i].callers,
               \A u \in Elems(work') \cup Elems(frames') :
                 u.callers = <<>> \/ \E s \in AllPaths : u.callers = s.callers
        PROVE  Nested'
    <2>. SUFFICES ASSUME NEW u \in Elems(work') \cup Elems(frames'), u.callers # <<>>
                  PROVE  Elems(u.callers) \subseteq Elems(frames'[Last(u.callers)].callers)
                                                      \cup {Last(u.callers)}
      BY DEF Nested, AllPaths, Elems, Last
    <2>1. PICK s \in AllPaths : u.callers = s.callers
      BY <1>1
    <2>2. s \in Paths
      BY <1>0 DEF AllPaths
    <2>3. Last(s.callers) \in DOMAIN frames
      BY <2>1, <2>2, LastCaller DEF Structure, CallersKnown
    <2>. QED
      BY <1>1, <2>1, <2>3 DEF Nested
  <1>2. CASE Advance
    <2>1. /\ frames' = frames
          /\ \A u \in Elems(work') : u \in Elems(work) \/ \E s \in Elems(work) : u.callers = s.callers
      BY <1>2 DEF Advance, Follows
    <2>. QED
      BY <1>1, <2>1 DEF AllPaths
  <1>3. CASE Call
    <2>1. PICK s \in Paths, kind \in CallKinds, c \in Paths : Calls(s, kind, c)
      BY <1>3, CallSteps
    <2>2. /\ Len(frames') = Len(frames) + 1
          /\ \A i \in DOMAIN frames : frames'[i] = frames[i]
          /\ Elems(frames') \subseteq Elems(frames) \cup {frames'[Len(frames) + 1]}
      BY <1>3, CallSteps
    <2>3. frames'[Len(frames) + 1].callers = s.callers
      <3>1. Annotated(kind, s) \in Paths
        BY <1>0, InstructionTypes
      <3>2. frames'[Len(frames) + 1] = Annotated(kind, s)
        BY <1>0, <2>1, <3>1, AppendElems DEF Calls
      <3>. QED
        BY <3>1, <3>2 DEF Annotated, Paths
    <2>4. s \in AllPaths /\ Elems(work') \subseteq Elems(work) \cup {c}
      BY <2>1 DEF Calls, AllPaths
    <2>5. /\ Last(c.callers) = Len(frames) + 1
          /\ Elems(c.callers) \subseteq Elems(s.callers) \cup {Len(frames) + 1}
      <3>1. s.callers \in Seq(Nat) /\ Len(frames) + 1 \in Nat
        BY <1>0, BoundAssumption DEF Paths
      <3>2. c.callers = Append(s.callers, Len(frames) + 1)
        BY <2>1 DEF Calls
      <3>3. /\ Len(c.callers) = Len(s.callers) + 1
            /\ c.callers[Len(s.callers) + 1] = Len(frames) + 1
            /\ Elems(c.callers) \subseteq Elems(s.callers) \cup {Len(frames) + 1}
        BY <3>1, <3>2, AppendElems
      <3>. QED
        BY <3>3 DEF Last
    <2>6. ASSUME NEW u \in AllPaths, u.callers # <<>>
          PROVE  Elems(u.callers) \subseteq Elems(frames'[Last(u.callers)].callers) \cup {Last(u.callers)}
      <3>1. u \in Paths
        BY <1>0 DEF AllPaths
      <3>2. Last(u.callers) \in DOMAIN frames
        BY <2>6, <3>1, LastCaller DEF Structure, CallersKnown
      <3>. QED
        BY <2>2, <2>6, <3>2 DEF Nested
    <2>. SUFFICES ASSUME NEW u \in Elems(work') \cup Elems(frames'), u.callers # <<>>
                  PROVE  Elems(u.callers) \subseteq Elems(frames'[Last(u.callers)].callers)
                                                      \cup {Last(u.callers)}
      BY DEF Nested, AllPaths, Elems, Last
    <2>7. CASE u \in AllPaths
      BY <2>6, <2>7
    <2>8. CASE u = c
      BY <2>3, <2>5, <2>8
    <2>9. CASE u = frames'[Len(frames) + 1]
      BY <2>3, <2>4, <2>6, <2>9
    <2>. QED
      BY <2>2, <2>4, <2>7, <2>8, <2>9 DEF AllPaths
  <1>4. CASE EndCall \/ FailInCall
    <2>1. PICK s \in Paths, f \in DOMAIN frames, g \in Paths, new \in SUBSET Paths :
            Returns(s, f, g, new) /\ \A u \in new \cup {g} : u.callers = frames[f].callers
      BY <1>4, ReturnSteps
    <2>2. /\ \A i \in DOMAIN frames : frames'[i] = IF i = f THEN g ELSE frames[i]
          /\ Elems(frames') \subseteq Elems(frames) \cup {g}
      BY <2>1, FrameUpdate DEF Returns
    <2>3. frames[f] \in AllPaths /\ Elems(work') \subseteq Elems(work) \cup new
      BY <2>1 DEF Returns, AllPaths
    <2>4. \A u \in Elems(work') \cup Elems(frames') : \E t \in AllPaths : u.callers = t.callers
      BY <2>1, <2>2, <2>3 DEF AllPaths
    <2>5. \A i \in DOMAIN frames : frames'[i].callers = frames[i].callers
      BY <2>1, <2>2
    <2>. QED
      BY <1>1, <2>4, <2>5
  <1>5. CASE NextRound
    <2>1. /\ \A u \in Elems(work') :
               \/ u \in Elems(work)
               \/ \E ws \in Elems(openStates) : ws \in OpenStates /\ u = Transaction(ws, round + 1)
          /\ frames' = frames
      BY <1>5, NextRoundSteps
    <2>2. \A u \in Elems(work') \cup Elems(frames') :
            u.callers = <<>> \/ \E s \in AllPaths : u.callers = s.callers
      BY <2>1, PathTypes DEF AllPaths
    <2>. QED
      BY <1>1, <2>1, <2>2
  <1>. QED
    BY <1>2, <1>3, <1>4, <1>5, StepKinds

\* What a transaction that is not in a callee loses, it has written unmarked.
LEMMA LostSteps ==
  ASSUME "callee_off_code" \notin Events, Structure, Marked, ~lostWrites, [Next]_vars
  PROVE  ~lostWrites'
  <1>1. CASE EndTransaction \/ OffCode
    <2>1. PICK k \in Positions :
            /\ work[k].callers = <<>>
            /\ \/ \E dead : AddWorldState(work[k], dead)
               \/ UNCHANGED lostWrites
      BY <1>1 DEF EndTransaction, OffCode
    <2>2. work[k] \in AllPaths /\ work[k] \in Paths
      BY PoppedState DEF AllPaths, Structure, TypeOK
    <2>3. work[k].wrote => work[k].mutation
      BY <2>1, <2>2, NoElems DEF Marked, MarkedIn
    <2>. QED
      BY <2>1, <2>3 DEF AddWorldState
  <1>2. CASE Dropping \/ UNCHANGED vars
    BY <1>2, DroppingAdvances DEF Structure
  <1>3. CASE Executed
    BY <1>3, ExecutedAdvances DEF Structure
  <1>4. CASE Call \/ EndCall \/ FailInCall \/ NextRound
    BY <1>4 DEF Call, EndCall, FailInCall, NextRound
  <1>. QED
    BY <1>1, <1>2, <1>3, <1>4, StepKinds

LEMMA MarkedKept ==
  ASSUME Structure, Nested, Marked, [Next]_vars
  PROVE  Marked'
  <1>0. /\ frames \in Seq(Paths) /\ Len(frames) \in Nat /\ DOMAIN frames = 1..Len(frames)
        /\ forks \in 0..MaxForks /\ Elems(work) \subseteq Paths /\ Elems(frames) \subseteq Paths
        /\ \A s \in AllPaths : Elems(s.callers) \subseteq DOMAIN frames
    BY ElemsTyped DEF Structure, TypeOK, CallersKnown
  <1>1. CASE Advance
    <2>1. /\ frames' = frames
          /\ \A t \in Elems(work') : t \in Elems(work) \/ \E s \in Elems(work) : Follows(s, t)
      BY <1>1 DEF Advance
    <2>2. ASSUME NEW s \in Elems(work), NEW t, Follows(s, t), t.wrote
          PROVE  MarkedIn(t, frames)
      <3>1. t.mutation \/ (s.wrote /\ t.mutation = s.mutation)
        BY <2>2 DEF Follows
      <3>2. s.wrote => MarkedIn(s, frames)
        BY DEF Marked, AllPaths
      <3>3. t.callers = s.callers
        BY <2>2 DEF Follows
      <3>. QED
        BY <3>1, <3>2, <3>3 DEF MarkedIn
    <2>. QED
      BY <2>1, <2>2 DEF Marked, AllPaths, MarkedIn
  <1>2. CASE Call
    <2>1. PICK s \in Paths, kind \in CallKinds, c \in Paths : Calls(s, kind, c)
      BY <1>2, CallSteps
    <2>2. /\ Len(frames') = Len(frames) + 1
          /\ \A i \in DOMAIN frames : frames'[i] = frames[i]
          /\ Elems(frames') \subseteq Elems(frames) \cup {frames'[Len(frames) + 1]}
      BY <1>2, CallSteps
    <2>. DEFINE a == frames'[Len(frames) + 1]
    <2>3. a.callers = s.callers /\ a.wrote = s.wrote /\ (s.mutation => a.mutation)
      <3>1. Annotated(kind, s) \in Paths
        BY <1>0, InstructionTypes
      <3>2. a = Annotated(kind, s)
        BY <1>0, <2>1, <3>1, AppendElems DEF Calls
      <3>. QED
        BY <3>1, <3>2 DEF Annotated, Paths
    <2>4. s \in AllPaths /\ Elems(work') \subseteq Elems(work) \cup {c} /\ c.wrote = s.wrote
      BY <2>1 DEF Calls, AllPaths
    <2>5. Len(frames) + 1 \in Elems(c.callers) /\ Elems(s.callers) \subseteq Elems(c.callers)
      <3>1. s.callers \in Seq(Nat) /\ Len(frames) + 1 \in Nat
        BY <1>0, BoundAssumption DEF Paths
      <3>2. c.callers = Append(s.callers, Len(frames) + 1)
        BY <2>1 DEF Calls
      <3>3. /\ c.callers \in Seq(Nat) /\ Len(c.callers) = Len(s.callers) + 1
            /\ c.callers[Len(s.callers) + 1] = Len(frames) + 1
            /\ \A i \in DOMAIN s.callers : c.callers[i] = s.callers[i]
        BY <3>1, <3>2, AppendElems
      <3>4. DOMAIN c.callers = 1..Len(s.callers) + 1 /\ DOMAIN s.callers = 1..Len(s.callers)
            /\ Len(s.callers) \in Nat
        BY <3>1, <3>3
      <3>5. Len(s.callers) + 1 \in DOMAIN c.callers /\ DOMAIN s.callers \subseteq DOMAIN c.callers
        BY <3>4
      <3>. QED
        BY <3>3, <3>5 DEF Elems
    <2>6. ASSUME NEW u \in AllPaths, u.wrote
          PROVE  MarkedIn(u, frames')
      BY <1>0, <2>2, <2>6 DEF Marked, MarkedIn
    <2>. HIDE DEF a
    <2>7. a.wrote => MarkedIn(a, frames')
      BY <2>3, <2>4, <2>6 DEF MarkedIn
    <2>8. c.wrote => MarkedIn(c, frames')
      <3>1. ASSUME c.wrote
            PROVE  s.mutation \/ \E f \in Elems(s.callers) : frames'[f].mutation
        BY <2>4, <2>6, <3>1 DEF MarkedIn
      <3>. QED
        BY <2>3, <2>5, <3>1 DEF MarkedIn, a
    <2>9. \A u \in Elems(work') \cup Elems(frames') : u \in AllPaths \/ u = c \/ u = a
      BY <2>2, <2>4 DEF AllPaths, a
    <2>10. \A u \in Elems(work') \cup Elems(frames') : u.wrote => MarkedIn(u, frames')
      BY <2>6, <2>7, <2>8, <2>9
    <2>. QED
      BY <2>10 DEF Marked, AllPaths, MarkedIn, Elems
  \* The end of a call: the frame gains the mark of the callee, or none.
  <1>3. ASSUME NEW s \in Paths, NEW f \in DOMAIN frames, NEW g, NEW new, Returns(s, f, g, new),
               g.callers = frames[f].callers, frames[f].mutation => g.mutation,
               g.wrote = frames[f].wrote,
               \A u \in new : /\ u.callers = frames[f].callers /\ u.mutation = g.mutation
                              /\ \/ u.wrote = frames[f].wrote
                                 \/ u.wrote = s.wrote /\ (s.mutation => g.mutation)
        PROVE  Marked'
    <2>1. /\ \A i \in DOMAIN frames : frames'[i] = IF i = f THEN g ELSE frames[i]
          /\ Elems(frames') \subseteq Elems(frames) \cup {g}
      BY <1>3, FrameUpdate DEF Returns
    <2>2. /\ s \in AllPaths /\ f \in Elems(s.callers) /\ frames[f] \in AllPaths
          /\ Elems(work') \subseteq Elems(work) \cup new
      BY <1>3 DEF Returns, AllPaths
    <2>3. \A i \in DOMAIN frames : frames[i].mutation => frames'[i].mutation
      BY <1>3, <2>1
    <2>4. ASSUME NEW u \in AllPaths, u.wrote
          PROVE  MarkedIn(u, frames')
      BY <1>0, <2>3, <2>4 DEF Marked, MarkedIn
    <2>5. ASSUME NEW u \in new \cup {g}, u.wrote
          PROVE  MarkedIn(u, frames')
      <3>1. u.callers = frames[f].callers /\ u.mutation = g.mutation
        BY <1>3
      <3>2. CASE u.wrote = frames[f].wrote
        BY <1>3, <2>2, <2>4, <2>5, <3>1, <3>2 DEF MarkedIn
      <3>3. CASE u.wrote = s.wrote /\ (s.mutation => g.mutation)
        <4>1. s.mutation \/ \E h \in Elems(s.callers) : frames[h].mutation
          BY <2>2, <2>5, <3>3 DEF Marked, MarkedIn
        <4>2. s.callers # <<>> /\ Last(s.callers) = f
          BY <1>3 DEF Returns
        <4>3. Elems(s.callers) \subseteq Elems(frames[f].callers) \cup {f}
          BY <2>2, <4>2 DEF Nested
        <4>4. \A h \in Elems(frames[f].callers) : h \in DOMAIN frames
          BY <1>0, <2>2
        <4>. QED
          BY <1>3, <2>3, <3>1, <3>3, <4>1, <4>3, <4>4 DEF MarkedIn
      <3>. QED
        BY <1>3, <3>2, <3>3
    <2>6. \A u \in Elems(work') \cup Elems(frames') : u.wrote => MarkedIn(u, frames')
      BY <2>1, <2>2, <2>4, <2>5 DEF AllPaths
    <2>. QED
      BY <2>6 DEF Marked, AllPaths, MarkedIn, Elems
  <1>4. CASE EndCall
    <2>1. PICK s \in Paths, f \in DOMAIN frames :
            LET g == AddAnnotations(frames[f], s)
            IN  Returns(s, f, g, {Resume(g, s), ResumeReverted(g, s)})
      BY <1>4, EndCallSteps
    <2>. DEFINE g == AddAnnotations(frames[f], s)
                r == Resume(g, s)
                v == ResumeReverted(g, s)
    <2>2. frames[f] \in Paths /\ g \in Paths
      BY <2>1 DEF Returns
    <2>3. /\ g.callers = frames[f].callers /\ g.wrote = frames[f].wrote
          /\ frames[f].mutation => g.mutation
          /\ s.mutation => g.mutation
      <3>1. g.callers = frames[f].callers /\ g.wrote = frames[f].wrote
        BY <2>2 DEF AddAnnotations, Paths
      <3>2. g.mutation = (frames[f].mutation \/ s.mutation)
        BY <2>2, Zenon DEF AddAnnotations, Paths
      <3>. QED
        BY <3>1, <3>2
    <2>4. r.callers = g.callers /\ r.wrote = s.wrote /\ r.mutation = g.mutation
      BY <2>2 DEF Resume, Paths
    <2>5. v.callers = g.callers /\ v.wrote = g.wrote /\ v.mutation = g.mutation
      BY <2>2 DEF ResumeReverted, Paths
    <2>. HIDE DEF g, r, v
    <2>6. Returns(s, f, g, {r, v})
      BY <2>1 DEF g, r, v
    <2>7. \A u \in {r, v} : /\ u.callers = frames[f].callers /\ u.mutation = g.mutation
                             /\ \/ u.wrote = frames[f].wrote
                                \/ u.wrote = s.wrote /\ (s.mutation => g.mutation)
      BY <2>3, <2>4, <2>5
    <2>. QED
      BY <1>3, <2>3, <2>6, <2>7
  <1>5. CASE FailInCall
    <2>1. PICK s \in Paths, f \in DOMAIN frames :
            LET r == ResumeReverted(frames[f], s)
            IN  Returns(s, f, [r EXCEPT !.mixed = TRUE], {r})
      BY <1>5, FailInCallSteps
    <2>. DEFINE r == ResumeReverted(frames[f], s)
                g == [r EXCEPT !.mixed = TRUE]
    <2>2. frames[f] \in Paths
      BY <2>1 DEF Returns
    <2>3. \A u \in {r, g} : /\ u.callers = frames[f].callers /\ u.wrote = frames[f].wrote
                             /\ u.mutation = frames[f].mutation
      BY <2>2 DEF ResumeReverted, Paths
    <2>. HIDE DEF r, g
    <2>4. Returns(s, f, g, {r})
      BY <2>1 DEF r, g
    <2>. QED
      BY <1>3, <2>3, <2>4
  <1>6. CASE NextRound
    <2>1. /\ \A u \in Elems(work') :
               \/ u \in Elems(work)
               \/ \E ws \in Elems(openStates) : ws \in OpenStates /\ u = Transaction(ws, round + 1)
          /\ frames' = frames
      BY <1>6, NextRoundSteps
    <2>2. \A ws \in OpenStates : ~Transaction(ws, round + 1).wrote
      BY PathTypes
    <2>. QED
      BY <2>1, <2>2 DEF Marked, AllPaths, MarkedIn
  <1>. QED
    BY <1>1, <1>2, <1>4, <1>5, <1>6, StepKinds

\* As long as no callee runs off its code (where add_world_state is called without the
\* annotations of the callers), the mutation pruner abandons no state whose storage has
\* changed.
THEOREM WritesStayAlive ==
  ASSUME "callee_off_code" \notin Events
  PROVE  Spec => []NoWriteLost
  <1>1. Init => Nested /\ Marked /\ ~lostWrites
    <2>1. ASSUME Init
          PROVE  Nested /\ Marked /\ ~lostWrites
      <3>1. /\ Elems(work) = {Transaction(EmptyWorld, 0)} /\ Elems(frames) = {}
            /\ ~lostWrites
        BY <2>1, OneElem, NoElems DEF Init
      <3>2. /\ Transaction(EmptyWorld, 0).callers = <<>>
            /\ ~Transaction(EmptyWorld, 0).wrote
        BY DEF Transaction, EmptyWorld
      <3>. QED
        BY <3>1, <3>2 DEF Nested, Marked, AllPaths
    <2>. QED
      BY <2>1
  <1>2. Structure /\ Nested /\ [Next]_vars => Nested'
    BY NestedKept
  <1>3. Structure /\ Nested /\ Marked /\ [Next]_vars => Marked'
    BY MarkedKept
  <1>4. Structure /\ Marked /\ ~lostWrites /\ [Next]_vars => ~lostWrites'
    BY LostSteps
  <1>5. ~lostWrites => NoWriteLost
    BY DEF NoWriteLost
  <1>. QED
    BY InitStructure, StructureKept, <1>1, <1>2, <1>3, <1>4, <1>5, PTL DEF Spec

-------------------------------------------------------------------------------
(* Rounds *)

\* A callee runs in the transaction of its callers.
SameTransaction == \A s \in AllPaths : \A f \in Elems(s.callers) : frames[f].issued = s.issued

\* What is executed and what it leaves comes from a transaction that may end in the round.
\* States wait between two rounds only if the creation or everything was cut off, or when
\* there is nothing to go on with.
Counted ==
  /\ \A ws \in Elems(openStates) : ws.issued \in Issuing
  /\ phase = "creation" => ~expired
  /\ ~expired =>
       /\ phase = "creation" => round = 0
       /\ phase \in {"creation", "message"} => \A s \in Elems(work) : s.issued \in Issuing
       /\ phase = "between" =>
            \/ openStates = <<>> \/ work = <<>>
            \/ /\ "create_timeout" \in Events /\ round = 0
               /\ \A s \in Elems(work) : s.issued = 0

LEMMA SameTransactionKept ==
  ASSUME Structure, SameTransaction, [Next]_vars
  PROVE  SameTransaction'
  <1>0. /\ frames \in Seq(Paths) /\ Len(frames) \in Nat /\ DOMAIN frames = 1..Len(frames)
        /\ forks \in 0..MaxForks
        /\ \A s \in AllPaths : Elems(s.callers) \subseteq DOMAIN frames
    BY DEF Structure, TypeOK, CallersKnown
  <1>1. CASE Advance
    BY <1>1 DEF Advance, Follows, SameTransaction, AllPaths
  <1>2. CASE Call
    <2>1. PICK s \in Paths, kind \in CallKinds, c \in Paths : Calls(s, kind, c)
      BY <1>2, CallSteps
    <2>2. /\ Len(frames') = Len(frames) + 1
          /\ \A i \in DOMAIN frames : frames'[i] = frames[i]
          /\ Elems(frames') \subseteq Elems(frames) \cup {frames'[Len(frames) + 1]}
      BY <1>2, CallSteps
    <2>. DEFINE a == frames'[Len(frames) + 1]
    <2>3. a.callers = s.callers /\ a.issued = s.issued
      <3>1. Annotated(kind, s) \in Paths
        BY <1>0, InstructionTypes
      <3>2. a = Annotated(kind, s)
        BY <1>0, <2>1, <3>1, AppendElems DEF Calls
      <3>. QED
        BY <3>1, <3>2 DEF Annotated, Paths
    <2>4. s \in AllPaths /\ Elems(work') \subseteq Elems(work) \cup {c} /\ c.issued = s.issued
      BY <2>1 DEF Calls, AllPaths
    <2>5. Elems(c.callers) \subseteq Elems(s.callers) \cup {Len(frames) + 1}
      <3>1. s.callers \in Seq(Nat) /\ Len(frames) + 1 \in Nat
        BY <1>0, BoundAssumption DEF Paths
      <3>. QED
        BY <2>1, <3>1, AppendElems DEF Calls
    <2>6. \A u \in AllPaths : \A f \in Elems(u.callers) : frames'[f].issued = u.issued
      BY <1>0, <2>2 DEF SameTransaction
    <2>7. \A u \in Elems(work') \cup Elems(frames') :
            \/ u \in AllPaths
            \/ u.issued = s.issued /\ Elems(u.callers) \subseteq Elems(s.callers) \cup {Len(frames) + 1}
      BY <2>2, <2>3, <2>4, <2>5 DEF AllPaths
    <2>. SUFFICES ASSUME NEW u \in Elems(work') \cup Elems(frames'), NEW f \in Elems(u.callers)
                  PROVE  frames'[f].issued = u.issued
      BY DEF SameTransaction, AllPaths, Elems
    <2>8. CASE u \in AllPaths
      BY <2>6, <2>8
    <2>9. CASE u.issued = s.issued /\ f \in Elems(s.callers)
      BY <2>4, <2>6, <2>9
    <2>10. CASE u.issued = s.issued /\ f = Len(frames) + 1
      BY <2>3, <2>10
    <2>. QED
      BY <2>7, <2>8, <2>9, <2>10
  <1>3. CASE EndCall \/ FailInCall
    <2>1. PICK s \in Paths, f \in DOMAIN frames, g \in Paths, new \in SUBSET Paths :
            /\ Returns(s, f, g, new)
            /\ \A u \in new \cup {g} : u.callers = frames[f].callers /\ u.issued = frames[f].issued
      BY <1>3, ReturnSteps
    <2>2. /\ \A i \in DOMAIN frames : frames'[i] = IF i = f THEN g ELSE frames[i]
          /\ Elems(frames') \subseteq Elems(frames) \cup {g}
      BY <2>1, FrameUpdate DEF Returns
    <2>3. frames[f] \in AllPaths /\ Elems(work') \subseteq Elems(work) \cup new
      BY <2>1 DEF Returns, AllPaths
    <2>4. \A i \in DOMAIN frames : frames'[i].issued = frames[i].issued
      BY <2>1, <2>2
    <2>5. \A u \in Elems(work') \cup Elems(frames') :
            \E t \in AllPaths : u.callers = t.callers /\ u.issued = t.issued
      BY <2>1, <2>2, <2>3 DEF AllPaths
    <2>6. \A u \in Elems(work') \cup Elems(frames') : \A h \in Elems(u.callers) :
            frames'[h].issued = u.issued
      BY <1>0, <2>4, <2>5 DEF SameTransaction
    <2>. QED
      BY <2>6 DEF SameTransaction, AllPaths, Elems
  <1>4. CASE NextRound
    <2>1. /\ \A u \in Elems(work') :
               \/ u \in Elems(work)
               \/ \E ws \in Elems(openStates) : ws \in OpenStates /\ u = Transaction(ws, round + 1)
          /\ frames' = frames
      BY <1>4, NextRoundSteps
    <2>2. \A ws \in OpenStates : Elems(Transaction(ws, round + 1).callers) = {}
      BY PathTypes, NoElems
    <2>. QED
      BY <2>1, <2>2 DEF SameTransaction, AllPaths
  <1>. QED
    BY <1>1, <1>2, <1>3, <1>4, StepKinds

\* The steps of one turn of the loop stay in the round.
LEMMA CountedTurn ==
  ASSUME Counted, Executing, UNCHANGED <<phase, round, expired>>,
         \A t \in Elems(work') : \E s \in Elems(work) : t.issued = s.issued,
         \A ws \in Elems(openStates') :
           \/ ws \in Elems(openStates)
           \/ ~expired /\ \E s \in Elems(work) : ws.issued = s.issued
  PROVE  Counted'
  <1>1. /\ \A ws \in Elems(openStates) : ws.issued \in Issuing
        /\ phase = "creation" => ~expired
        /\ ~expired => /\ phase = "creation" => round = 0
                       /\ \A s \in Elems(work) : s.issued \in Issuing
    BY DEF Counted, Executing
  <1>2. phase # "between" /\ Issuing' = Issuing
    BY DEF Executing, Issuing
  <1>3. \A ws \in Elems(openStates') : ws.issued \in Issuing
    BY <1>1
  <1>4. ~expired => \A t \in Elems(work') : t.issued \in Issuing
    BY <1>1
  <1>. QED
    BY <1>1, <1>2, <1>3, <1>4 DEF Counted, Elems

LEMMA CountedKept ==
  ASSUME Structure, SameTransaction, Counted, [Next]_vars
  PROVE  Counted'
  <1>1. CASE Advance /\ (Discard \/ Unimplemented \/ SkipCall \/ FailTransaction \/ Executed
                         \/ EndTransaction \/ OffCode)
    <2>1. Executing /\ UNCHANGED <<phase, round, expired>> /\ (~expired \/ openStates' = openStates)
      BY <1>1 DEF Executed, Discard, Unimplemented, SkipCall, FailTransaction, Jumpi, JumpiConstant,
                  Store, EndTransaction, OffCode, Popped
    <2>2. /\ \A t \in Elems(work') : \E s \in Elems(work) : t.issued = s.issued
          /\ \A ws \in Elems(openStates') :
               \/ ws \in Elems(openStates)
               \/ \E s \in Elems(work) : ws.issued = s.issued
      BY <1>1 DEF Advance, Follows
    <2>. QED
      BY <2>1, <2>2, CountedTurn
  <1>2. CASE ExecDone
    <2>1. /\ Executing /\ work = <<>> /\ phase' = "between"
          /\ UNCHANGED <<round, work, openStates, expired>>
      BY <1>2 DEF ExecDone, Returned
    <2>. QED
      BY <2>1 DEF Counted, Executing, Elems, Issuing
  <1>3. CASE Timeout
    <2>1. Executing /\ phase' = "between" /\ UNCHANGED <<openStates, round>> /\ expired' = (phase = "message")
      BY <1>3 DEF Timeout, Returned
    <2>2. CASE phase = "message"
      BY <2>1, <2>2 DEF Counted, Elems, Issuing
    <2>3. CASE phase = "creation" /\ ~expired
      <3>1. openStates = <<>> \/ "create_timeout" \in Events
        BY <1>3, <2>3 DEF Timeout, TimedOut
      <3>2. round = 0 /\ \A s \in Elems(work) : s.issued = 0
        BY <2>3 DEF Counted, Issuing
      <3>3. Elems(work') \subseteq Elems(work)
        BY <1>3, DroppingAdvances DEF Structure, Dropping
      <3>. QED
        BY <2>1, <3>1, <3>2, <3>3 DEF Counted, Elems, Issuing
    <2>. QED
      BY <2>1, <2>2, <2>3 DEF Executing, Counted
  <1>4. CASE Finish
    BY <1>4 DEF Finish, Counted, Elems, Issuing
  <1>5. CASE UNCHANGED vars
    BY <1>5 DEF vars, Counted, Elems, Issuing
  <1>6. CASE Call
    <2>1. PICK s \in Paths, kind \in CallKinds, c \in Paths : Calls(s, kind, c)
      BY <1>6, CallSteps
    <2>2. Executing /\ UNCHANGED <<phase, round, openStates, expired>>
      BY <1>6, CallSteps DEF Call, Popped
    <2>3. \A t \in Elems(work') : \E u \in Elems(work) : t.issued = u.issued
      BY <2>1 DEF Calls
    <2>. QED
      BY <2>2, <2>3, CountedTurn
  <1>7. CASE EndCall \/ FailInCall
    <2>1. PICK s \in Paths, f \in DOMAIN frames, g \in Paths, new \in SUBSET Paths :
            Returns(s, f, g, new) /\ \A u \in new : u.issued = frames[f].issued
      BY <1>7, ReturnSteps
    <2>2. Executing /\ UNCHANGED <<phase, round, openStates, expired>>
      BY <1>7 DEF EndCall, FailInCall, Popped
    <2>3. s \in Elems(work) /\ frames[f].issued = s.issued
      BY <2>1 DEF Returns, SameTransaction, AllPaths
    <2>4. \A t \in Elems(work') : \E u \in Elems(work) : t.issued = u.issued
      BY <2>1, <2>3 DEF Returns
    <2>. QED
      BY <2>2, <2>4, CountedTurn
  <1>8. CASE NextRound
    <2>1. /\ phase = "between" /\ openStates # <<>> /\ openStates' = <<>>
          /\ round' = round + 1 /\ phase' = "message" /\ expired' = expired
      BY <1>8 DEF NextRound
    <2>2. Elems(openStates') = {}
      BY <2>1, NoElems
    <2>3. CASE expired
      BY <2>1, <2>2, <2>3 DEF Counted, Elems
    <2>4. CASE ~expired
      <3>1. \A u \in Elems(work') :
               \/ u \in Elems(work)
               \/ \E ws \in Elems(openStates) : ws \in OpenStates /\ u = Transaction(ws, round + 1)
        BY <1>8, NextRoundSteps
      <3>2. round \in Nat
        BY BoundAssumption DEF Structure, TypeOK
      <3>3. ASSUME NEW ws \in Elems(openStates), ws \in OpenStates
            PROVE  Transaction(ws, round + 1).issued \in Issuing'
        <4>1. Transaction(ws, round + 1).issued = round + 1
          BY <3>3, PathTypes
        <4>. QED
          BY <2>1, <4>1 DEF Issuing
      <3>4. \A u \in Elems(work) : u.issued \in Issuing'
        <4>1. CASE work = <<>>
          BY <4>1, NoElems
        <4>2. CASE "create_timeout" \in Events /\ round = 0 /\ \A s \in Elems(work) : s.issued = 0
          BY <2>1, <4>2 DEF Issuing
        <4>. QED
          BY <2>1, <2>4, <4>1, <4>2 DEF Counted
      <3>5. \A u \in Elems(work') : u.issued \in Issuing'
        BY <3>1, <3>3, <3>4
      <3>. QED
        BY <2>1, <2>2, <3>5 DEF Counted, Elems
    <2>. QED
      BY <2>3, <2>4
  <1>. QED
    BY <1>1, <1>2, <1>3, <1>4, <1>5, <1>6, <1>7, <1>8, StepKinds DEF Dropping

\* Whatever timeout strikes when: a world state that a round leaves comes from a transaction
\* of that round, or it is the first round and the creation was cut off (create_timeout); no
\* state left over by an execution timeout comes to an end in a later round.
THEOREM RoundsStayApart == Spec => []RoundsDoNotMix
  <1>1. Init => SameTransaction /\ Counted
    <2>1. ASSUME Init
          PROVE  SameTransaction /\ Counted
      <3>1. /\ Elems(work) = {Transaction(EmptyWorld, 0)} /\ Elems(frames) = {}
            /\ Elems(openStates) = {} /\ phase = "creation" /\ round = 0
        BY <2>1, OneElem, NoElems DEF Init
      <3>0. ~expired
        BY <2>1 DEF Init
      <3>2. /\ Elems(Transaction(EmptyWorld, 0).callers) = {}
            /\ Transaction(EmptyWorld, 0).issued = 0
        BY NoElems DEF Transaction
      <3>. QED
        BY <3>0, <3>1, <3>2 DEF SameTransaction, Counted, AllPaths, Issuing
    <2>. QED
      BY <2>1
  <1>2. Structure /\ SameTransaction /\ [Next]_vars => SameTransaction'
    BY SameTransactionKept
  <1>3. Structure /\ SameTransaction /\ Counted /\ [Next]_vars => Counted'
    BY CountedKept
  <1>4. Counted => RoundsDoNotMix
    BY DEF Counted, RoundsDoNotMix, Elems
  <1>. QED
    BY InitStructure, StructureKept, <1>1, <1>2, <1>3, <1>4, PTL DEF Spec
===============================================================================
