--------------------------- MODULE AnnotationsProofs ---------------------------
(***************************************************************************)
(* Theorems about Annotations, for every search strategy and any bounds:    *)
(* that a transaction loses none of its own issues and that the heaps keep  *)
(* their types for every contract, what the annotations tell and who holds  *)
(* them for the contracts of Private.                                       *)
(***************************************************************************)
EXTENDS Annotations, SequenceTheorems, FiniteSetTheorems, TLAPS

Elems(q) == {q[i] : i \in DOMAIN q}
IsSequence(q) == q \in Seq(Elems(q))

LEMMA TypedSequence ==
  ASSUME NEW T, NEW q \in Seq(T)
  PROVE  IsSequence(q)
  <1>1. \A i \in 1..Len(q) : q[i] \in Elems(q)
    BY DEF Elems
  <1>. QED
    BY <1>1 DEF IsSequence

\* Sequences that agree up to a position have the same prefix up to it.
LEMMA SamePrefix ==
  ASSUME NEW T, NEW q \in Seq(T), NEW r \in Seq(T), NEW n \in Nat,
         n <= Len(q), n <= Len(r), \A j \in 1..n : q[j] = r[j]
  PROVE  SubSeq(q, 1, n) = SubSeq(r, 1, n)
  <1>1. \A j \in 1..n : q[j] \in T /\ r[j] \in T
    BY Len(q) \in Nat, Len(r) \in Nat
  <1>2. /\ SubSeq(q, 1, n) \in Seq(T) /\ Len(SubSeq(q, 1, n)) = n
        /\ \A j \in 1..n : SubSeq(q, 1, n)[j] = q[j]
    BY <1>1, SubSeqProperties
  <1>3. /\ SubSeq(r, 1, n) \in Seq(T) /\ Len(SubSeq(r, 1, n)) = n
        /\ \A j \in 1..n : SubSeq(r, 1, n)[j] = r[j]
    BY <1>1, SubSeqProperties
  <1>. QED
    BY <1>2, <1>3, SeqEqual

\* What a work list holds after a step: old states and the successors of the popped one.
LEMMA PushedStates ==
  ASSUME NEW q, IsSequence(q), NEW p \in DOMAIN q, NEW states, IsSequence(states)
  PROVE  LET r == SubSeq(q, 1, p - 1) \o SubSeq(q, p + 1, Len(q)) \o states
         IN  IsSequence(r) /\ Elems(r) \subseteq Elems(q) \cup Elems(states)
  <1>. DEFINE T == Elems(q) \cup Elems(states)
              a == SubSeq(q, 1, p - 1)
              b == SubSeq(q, p + 1, Len(q))
              r == a \o b \o states
  <1>1. q \in Seq(T) /\ states \in Seq(T)
    <2>1. Elems(q) \subseteq T /\ Elems(states) \subseteq T
      OBVIOUS
    <2>2. q \in Seq(Elems(q)) /\ states \in Seq(Elems(states))
      BY DEF IsSequence
    <2>. QED
      BY <2>1, <2>2
  <1>2. a \in Seq(T)
    <2>1. \A i \in 1..p - 1 : q[i] \in T
      BY <1>1
    <2>. QED
      BY <1>1, <2>1, SubSeqProperties
  <1>3. b \in Seq(T)
    <2>1. \A i \in p + 1..Len(q) : q[i] \in T
      BY <1>1
    <2>. QED
      BY <1>1, <2>1, SubSeqProperties
  <1>4. r \in Seq(T)
    BY <1>1, <1>2, <1>3, ConcatProperties
  <1>. HIDE DEF T, a, b
  <1>5. Elems(r) \subseteq T
    BY <1>4 DEF Elems
  <1>. QED
    BY <1>4, <1>5, TypedSequence DEF T, a, b
-------------------------------------------------------------------------------
(* Potential issues *)

Fields == {"fn", "dep", "pot", "stack", "behind", "own", "callers", "ran", "found", "inner",
           "wrote"}

\* What a state has found is in the list it refers to.
Backed(s, ls) ==
  /\ DOMAIN s = Fields
  /\ s.pot \in 0..Len(ls)
  /\ s.found \subseteq (IF s.pot = 0 THEN {} ELSE ls[s.pot])
  /\ s.inner \subseteq Sites

\* So it is for the callers it returns to, and those below them.
BackedThroughout(s, ls) ==
  /\ Backed(s, ls)
  /\ IsSequence(s.callers)
  /\ \A i \in DOMAIN s.callers :
       Backed(s.callers[i], ls) /\ s.callers[i].callers = SubSeq(s.callers, 1, i - 1)

PotentialIssues ==
  /\ IsSequence(work)
  /\ lists \in Seq(SUBSET Sites)
  /\ \A s \in Elems(work) : BackedThroughout(s, lists)
  /\ missed = {}
  /\ lost \subseteq Sites

\* Lists only grow.
Grows(ls, later) == Len(ls) <= Len(later) /\ \A i \in 1..Len(ls) : ls[i] \subseteq later[i]

LEMMA BackedLater ==
  ASSUME NEW s, NEW ls, NEW later, Len(ls) \in Nat, Len(later) \in Nat, Grows(ls, later)
  PROVE  /\ Backed(s, ls) => Backed(s, later)
         /\ BackedThroughout(s, ls) => BackedThroughout(s, later)
  <1>1. \A t : Backed(t, ls) => Backed(t, later)
    BY DEF Backed, Grows
  <1>. QED
    BY <1>1 DEF BackedThroughout

\* t holds the issues of s and returns where s returns.
Alike(s, t) ==
  /\ DOMAIN t = DOMAIN s /\ t.pot = s.pot /\ t.callers = s.callers
  /\ t.found = s.found /\ t.inner = s.inner

LEMMA AlikeBacked ==
  ASSUME NEW s, NEW t, NEW ls, Alike(s, t), BackedThroughout(s, ls)
  PROVE  BackedThroughout(t, ls)
  BY DEF Alike, BackedThroughout, Backed

\* The copies and the dependency hooks do not touch them.
LEMMA HooksAlike ==
  ASSUME NEW h, NEW s, DOMAIN s = Fields
  PROVE  Alike(s, Copied(h, s)[2]) /\ Alike(s, Dependency(h, s)[2])
  BY DEF Alike, Copied, Dependency, Fields

LEMMA AlikeTwice ==
  ASSUME NEW s, NEW t, NEW u, Alike(s, t), Alike(t, u)
  PROVE  Alike(s, u)
  BY DEF Alike

\* A caller comes back as it was when it called.
LEMMA CallerBacked ==
  ASSUME NEW s, NEW ls, BackedThroughout(s, ls), s.callers # <<>>
  PROVE  BackedThroughout(Last(s.callers), ls)
  <1>. DEFINE q == s.callers
              n == Len(q)
              c == q[n]
  <1>1. q \in Seq(Elems(q)) /\ n \in DOMAIN q /\ n \in Nat
    BY DEF BackedThroughout, IsSequence
  <1>2. Backed(c, ls) /\ c.callers = SubSeq(q, 1, n - 1)
    BY <1>1 DEF BackedThroughout
  <1>3. /\ c.callers \in Seq(Elems(q)) /\ Len(c.callers) = n - 1
        /\ \A i \in 1..n - 1 : c.callers[i] = q[i]
    <2>1. \A i \in 1..n - 1 : q[i] \in Elems(q)
      BY <1>1
    <2>. QED
      BY <1>1, <1>2, <2>1, SubSeqProperties
  <1>4. ASSUME NEW i \in DOMAIN c.callers
        PROVE  /\ Backed(c.callers[i], ls)
               /\ c.callers[i].callers = SubSeq(c.callers, 1, i - 1)
    <2>1. i \in 1..n - 1 /\ i \in DOMAIN q /\ c.callers[i] = q[i]
      BY <1>1, <1>3
    <2>2. Backed(q[i], ls) /\ q[i].callers = SubSeq(q, 1, i - 1)
      BY <2>1 DEF BackedThroughout
    <2>3. SubSeq(q, 1, i - 1) = SubSeq(c.callers, 1, i - 1)
      <3>1. i - 1 \in Nat /\ i - 1 <= n - 1 /\ \A j \in 1..i - 1 : q[j] = c.callers[j]
        BY <1>1, <1>3, <2>1
      <3>. QED
        BY <1>1, <1>3, <3>1, SamePrefix
    <2>. QED
      BY <2>1, <2>2, <2>3
  <1>5. IsSequence(c.callers)
    BY <1>3, TypedSequence
  <1>. QED
    BY <1>2, <1>4, <1>5 DEF BackedThroughout, Last

\* The caller that a call leaves behind.
LEMMA CalleeBacked ==
  ASSUME NEW d, NEW c, NEW ls, BackedThroughout(d, ls), Len(ls) \in Nat,
         DOMAIN c = Fields, c.pot = 0, c.found = {}, c.inner = {},
         c.callers = Append(d.callers, d)
  PROVE  BackedThroughout(c, ls)
  <1>. DEFINE q == d.callers
              T == Elems(q) \cup {d}
  <1>1. q \in Seq(T)
    <2>1. Elems(q) \subseteq T
      OBVIOUS
    <2>2. q \in Seq(Elems(q))
      BY DEF BackedThroughout, IsSequence
    <2>. QED
      BY <2>1, <2>2
  <1>2. d \in T /\ Len(q) \in Nat
    BY <1>1
  <1>. HIDE DEF T
  <1>3. /\ c.callers \in Seq(T) /\ Len(c.callers) = Len(q) + 1
        /\ c.callers[Len(q) + 1] = d
        /\ \A i \in 1..Len(q) : c.callers[i] = q[i]
    BY <1>1, <1>2, AppendProperties
  <1>4. ASSUME NEW i \in DOMAIN c.callers
        PROVE  /\ Backed(c.callers[i], ls)
               /\ c.callers[i].callers = SubSeq(c.callers, 1, i - 1)
    <2>0. i \in 1..Len(q) + 1
      BY <1>3
    <2>1. SubSeq(q, 1, i - 1) = SubSeq(c.callers, 1, i - 1)
      <3>1. i - 1 \in Nat /\ i - 1 <= Len(q) /\ \A j \in 1..i - 1 : q[j] = c.callers[j]
        BY <1>2, <1>3, <2>0
      <3>. QED
        BY <1>1, <1>2, <1>3, <3>1, SamePrefix
    <2>2. CASE i \in 1..Len(q)
      <3>1. i \in DOMAIN q
        BY <1>1, <2>2
      <3>2. Backed(q[i], ls) /\ q[i].callers = SubSeq(q, 1, i - 1)
        BY <3>1 DEF BackedThroughout
      <3>. QED
        BY <1>3, <2>1, <2>2, <3>2
    <2>3. CASE i = Len(q) + 1
      <3>1. SubSeq(q, 1, i - 1) = q
        BY <1>1, <1>2, <2>3, SubSeqFull
      <3>. QED
        BY <1>3, <2>1, <2>3, <3>1 DEF BackedThroughout
    <2>. QED
      BY <1>2, <2>0, <2>2, <2>3
  <1>5. IsSequence(c.callers)
    BY <1>3, TypedSequence
  <1>6. Backed(c, ls)
    BY DEF Backed
  <1>. QED
    BY <1>4, <1>5, <1>6 DEF BackedThroughout
-------------------------------------------------------------------------------
(* The steps *)

LEMMA FewStates ==
  /\ IsSequence(<<>>) /\ Elems(<<>>) = {}
  /\ \A s : IsSequence(<<s>>) /\ Elems(<<s>>) = {s}
  /\ \A s, t : IsSequence(<<s, t>>) /\ Elems(<<s, t>>) = {s, t}
  <1>1. Elems(<<>>) = {} /\ \A s : Elems(<<s>>) = {s}
    BY DEF Elems
  <1>2. ASSUME NEW s, NEW t
        PROVE  Elems(<<s, t>>) = {s, t}
    <2>1. DOMAIN <<s, t>> = {1, 2} /\ <<s, t>>[1] = s /\ <<s, t>>[2] = t
      OBVIOUS
    <2>. QED
      BY <2>1, Zenon DEF Elems
  <1>. QED
    BY <1>1, <1>2 DEF IsSequence

\* The popped state is one of the work list.
LEMMA PoppedBacked ==
  ASSUME PotentialIssues, work # <<>>
  PROVE  Position \in DOMAIN work /\ BackedThroughout(Popped, lists)
  <1>1. work \in Seq(Elems(work)) /\ Len(work) \in Nat /\ Len(work) # 0
    BY DEF PotentialIssues, IsSequence
  <1>2. Position \in DOMAIN work
    BY <1>1 DEF Position
  <1>. QED
    BY <1>2 DEF PotentialIssues, Popped, Elems

\* A step that replaces the popped state by states backed by the lists keeps the invariant.
LEMMA Continued ==
  ASSUME PotentialIssues, work # <<>>, NEW states, IsSequence(states), Push(states),
         lists' \in Seq(SUBSET Sites), Grows(lists, lists'),
         \A s \in Elems(states) : BackedThroughout(s, lists'),
         missed' = {}, lost' \subseteq Sites
  PROVE  PotentialIssues'
  <1>1. Position \in DOMAIN work /\ IsSequence(work)
    BY PoppedBacked DEF PotentialIssues
  <1>2. IsSequence(work') /\ Elems(work') \subseteq Elems(work) \cup Elems(states)
    BY <1>1, PushedStates DEF Push
  <1>3. \A s \in Elems(work) : BackedThroughout(s, lists')
    <2>1. Len(lists) \in Nat /\ Len(lists') \in Nat
      BY DEF PotentialIssues
    <2>. QED
      BY <2>1, BackedLater DEF PotentialIssues
  <1>4. \A s \in Elems(work') : BackedThroughout(s, lists')
    BY <1>2, <1>3
  <1>. QED
    BY <1>2, <1>4 DEF PotentialIssues

\* So does one with one successor and no new issue.
LEMMA OneSuccessor ==
  ASSUME PotentialIssues, work # <<>>, NEW t, Push(<<t>>), BackedThroughout(t, lists),
         lists' = lists, missed' = missed, lost' = lost
  PROVE  PotentialIssues'
  <1>1. /\ Grows(lists, lists') /\ lists' \in Seq(SUBSET Sites)
        /\ missed' = {} /\ lost' \subseteq Sites
    BY DEF Grows, PotentialIssues
  <1>2. IsSequence(<<t>>) /\ Elems(<<t>>) = {t}
    BY FewStates
  <1>. QED
    BY <1>1, <1>2, Continued

LEMMA RoundKeepsIssues ==
  ASSUME PotentialIssues, NextRound
  PROVE  PotentialIssues'
  <1>1. PICK S \in SUBSET DOMAIN open :
          /\ Cardinality(S) \in 1..MaxPicked
          /\ LET Pick(T) == [n \in 1..Cardinality(T) |->
                               open[CHOOSE j \in T : Cardinality({m \in T : m <= j}) = n]]
                 picked == Pick(S)
             IN  work' = [n \in DOMAIN picked |-> Started(picked[n])]
    BY DEF NextRound
  <1>. DEFINE picked == [n \in 1..Cardinality(S) |->
                           open[CHOOSE j \in S : Cardinality({m \in S : m <= j}) = n]]
  <1>2. work' = [n \in 1..Cardinality(S) |-> Started(picked[n])]
    <2>1. work' = [n \in DOMAIN picked |-> Started(picked[n])]
      BY <1>1
    <2>2. DOMAIN picked = 1..Cardinality(S)
      OBVIOUS
    <2>. QED
      BY <2>1, <2>2
  <1>. HIDE DEF picked
  <1>3. Cardinality(S) \in Nat
    BY <1>1, AnnotationAssumption DEF AnnotationAssumption
  <1>4. IsSequence(work')
    BY <1>2, <1>3 DEF IsSequence, Elems
  <1>5. lists' = lists /\ missed' = missed /\ lost' = lost
    BY DEF NextRound, heaps, issueVars
  <1>6. \A ws : BackedThroughout(Started(ws), lists)
    <2>. SUFFICES ASSUME NEW ws
                  PROVE  BackedThroughout(Started(ws), lists)
      OBVIOUS
    <2>1. /\ DOMAIN Started(ws) = Fields /\ Started(ws).pot = 0
          /\ Started(ws).found = {} /\ Started(ws).inner = {} /\ Started(ws).callers = <<>>
      BY DEF Started, Fields
    <2>2. Backed(Started(ws), lists)
      BY <2>1 DEF Backed, PotentialIssues
    <2>. QED
      BY <2>1, <2>2, FewStates DEF BackedThroughout
  <1>7. \A s \in Elems(work') : BackedThroughout(s, lists)
    BY <1>2, <1>6 DEF Elems
  <1>. QED
    BY <1>4, <1>5, <1>7 DEF PotentialIssues

LEMMA PlainKeepsIssues ==
  ASSUME PotentialIssues, Plain \/ Jump
  PROVE  PotentialIssues'
  <1>1. work # <<>> /\ lists' = lists /\ missed' = missed /\ lost' = lost
    BY DEF Plain, Jump, Free, Running, issueVars
  <1>2. BackedThroughout(Popped, lists) /\ DOMAIN Popped = Fields
    BY <1>1, PoppedBacked DEF BackedThroughout, Backed
  <1>. DEFINE c == Copied(objs, Popped)
              d == Dependency(c[1], c[2])
  <1>3. Alike(Popped, c[2]) /\ DOMAIN c[2] = Fields
    BY <1>2, HooksAlike DEF Alike
  <1>4. Alike(Popped, d[2])
    BY <1>3, HooksAlike, AlikeTwice
  <1>5. CASE Plain
    <2>. DEFINE t == [c[2] EXCEPT !.behind = "no"]
    <2>1. Alike(c[2], t)
      BY DEF Alike
    <2>2. Alike(Popped, t)
      BY <1>3, <2>1, AlikeTwice
    <2>3. BackedThroughout(t, lists)
      BY <1>2, <2>2, AlikeBacked
    <2>4. Push(<<t>>)
      BY <1>5 DEF Plain
    <2>. QED
      BY <1>1, <2>3, <2>4, OneSuccessor
  <1>6. CASE Jump
    <2>1. BackedThroughout(d[2], lists)
      BY <1>2, <1>4, AlikeBacked
    <2>2. Push(<<d[2]>>)
      BY <1>6 DEF Jump
    <2>. QED
      BY <1>1, <2>1, <2>2, OneSuccessor
  <1>. QED
    BY <1>5, <1>6

LEMMA JumpiKeepsIssues ==
  ASSUME PotentialIssues, Jumpi
  PROVE  PotentialIssues'
  <1>1. work # <<>> /\ lists' = lists /\ missed' = missed /\ lost' = lost
    BY DEF Jumpi, Free, Running, issueVars
  <1>2. BackedThroughout(Popped, lists) /\ DOMAIN Popped = Fields
    BY <1>1, PoppedBacked DEF BackedThroughout, Backed
  <1>. DEFINE c1 == Copied(objs, Popped)
              c2 == Copied(c1[1], Popped)
              d1 == Dependency(c2[1], c1[2])
              d2 == Dependency(d1[1], c2[2])
  <1>3. PICK f : Push(<<[d1[2] EXCEPT !.behind = "fork"],
                        [d2[2] EXCEPT !.behind = "dest", !.fn = f]>>)
    BY DEF Jumpi
  <1>4. /\ Alike(Popped, c1[2]) /\ DOMAIN c1[2] = Fields
        /\ Alike(Popped, c2[2]) /\ DOMAIN c2[2] = Fields
    BY <1>2, HooksAlike DEF Alike
  <1>5. Alike(Popped, d1[2]) /\ Alike(Popped, d2[2])
    BY <1>4, HooksAlike, AlikeTwice
  <1>. HIDE DEF d1, d2
  <1>. DEFINE s == [d1[2] EXCEPT !.behind = "fork"]
              t == [d2[2] EXCEPT !.behind = "dest", !.fn = f]
  <1>6. Alike(d1[2], s) /\ Alike(d2[2], t)
    BY DEF Alike
  <1>7. BackedThroughout(s, lists) /\ BackedThroughout(t, lists)
    BY <1>2, <1>5, <1>6, AlikeTwice, AlikeBacked
  <1>8. /\ Grows(lists, lists') /\ lists' \in Seq(SUBSET Sites)
        /\ missed' = {} /\ lost' \subseteq Sites
    BY <1>1 DEF Grows, PotentialIssues
  <1>9. IsSequence(<<s, t>>) /\ Elems(<<s, t>>) = {s, t} /\ Push(<<s, t>>)
    BY <1>3, FewStates
  <1>. HIDE DEF s, t
  <1>. QED
    BY <1>1, <1>7, <1>8, <1>9, Continued

LEMMA SstoreKeepsIssues ==
  ASSUME PotentialIssues, Sstore
  PROVE  PotentialIssues'
  <1>1. work # <<>> /\ lists' = lists /\ missed' = missed /\ lost' = lost
    BY DEF Sstore, Free, Running, issueVars
  <1>2. BackedThroughout(Popped, lists) /\ DOMAIN Popped = Fields
    BY <1>1, PoppedBacked DEF BackedThroughout, Backed
  <1>. DEFINE d == Dependency(objs, Popped)
              w(slot) == Stored(<<d[1], sets>>, d[2].dep, slot)
              c(slot) == Copied(w(slot)[1], d[2])
              n(slot) == Len(c(slot)[2].wrote)
              t(slot) == IF c(slot)[2].own
                         THEN [c(slot)[2] EXCEPT !.wrote[n(slot)] = @ \cup {slot}]
                         ELSE c(slot)[2]
  <1>3. PICK slot \in Slots : Push(<<t(slot)>>)
    BY DEF Sstore
  <1>4. Alike(Popped, d[2]) /\ DOMAIN d[2] = Fields
    BY <1>2, HooksAlike DEF Alike
  <1>5. Alike(Popped, c(slot)[2])
    BY <1>4, HooksAlike, AlikeTwice
  <1>6. Alike(c(slot)[2], t(slot))
    <2>. DEFINE u == c(slot)[2]
    <2>. HIDE DEF u
    <2>1. Alike(u, [u EXCEPT !.wrote[n(slot)] = @ \cup {slot}]) /\ Alike(u, u)
      BY DEF Alike
    <2>. QED
      BY <2>1 DEF u
  <1>7. BackedThroughout(t(slot), lists)
    BY <1>2, <1>5, <1>6, AlikeTwice, AlikeBacked
  <1>. HIDE DEF t
  <1>. QED
    BY <1>1, <1>3, <1>7, OneSuccessor

LEMMA DetectKeepsIssues ==
  ASSUME PotentialIssues, Detect
  PROVE  PotentialIssues'
  <1>1. work # <<>> /\ missed' = missed /\ lost' = lost
    BY DEF Detect, Free, Running, issueVars
  <1>2. BackedThroughout(Popped, lists) /\ Backed(Popped, lists)
    BY <1>1, PoppedBacked DEF BackedThroughout
  <1>. DEFINE s  == IF Popped.pot = 0 THEN [Popped EXCEPT !.pot = Len(lists) + 1] ELSE Popped
              ls == IF Popped.pot = 0 THEN Append(lists, {}) ELSE lists
              c  == Copied(objs, s)
  <1>3. PICK site \in Sites, issue \in BOOLEAN :
          /\ lists' = IF issue THEN [ls EXCEPT ![s.pot] = @ \cup {site}] ELSE ls
          /\ Push(<<IF issue THEN [c[2] EXCEPT !.found = @ \cup {site}] ELSE c[2]>>)
    BY DEF Detect
  <1>. DEFINE t == IF issue THEN [c[2] EXCEPT !.found = @ \cup {site}] ELSE c[2]
  <1>4. lists \in Seq(SUBSET Sites) /\ Len(lists) \in Nat
    BY DEF PotentialIssues
  <1>5. /\ ls \in Seq(SUBSET Sites) /\ Grows(lists, ls)
        /\ s.pot \in 1..Len(ls) /\ s.found \subseteq ls[s.pot] /\ s.inner = Popped.inner
        /\ DOMAIN s = Fields /\ s.callers = Popped.callers
    <2>1. CASE Popped.pot = 0
      <3>1. /\ ls = Append(lists, {}) /\ s = [Popped EXCEPT !.pot = Len(lists) + 1]
        BY <2>1
      <3>2. DOMAIN s = Fields /\ s.callers = Popped.callers
            /\ s.pot = Len(lists) + 1 /\ s.found = Popped.found /\ s.inner = Popped.inner
        BY <1>2, <3>1 DEF Backed, Fields
      <3>3. Popped.found = {}
        BY <1>2, <2>1 DEF Backed
      <3>4. /\ ls \in Seq(SUBSET Sites) /\ Len(ls) = Len(lists) + 1
            /\ \A i \in 1..Len(lists) : ls[i] = lists[i]
        BY <1>4, <3>1, AppendProperties
      <3>. HIDE DEF s, ls
      <3>. QED
        BY <1>4, <3>2, <3>3, <3>4 DEF Grows
    <2>2. CASE Popped.pot # 0
      BY <1>2, <1>4, <2>2 DEF Grows, Backed
    <2>. QED
      BY <2>1, <2>2
  <1>. HIDE DEF s, ls
  <1>6. Alike(s, c[2])
    BY <1>5, HooksAlike
  <1>. HIDE DEF c
  <1>7. /\ lists' \in Seq(SUBSET Sites) /\ Len(lists') = Len(ls) /\ Grows(ls, lists')
        /\ issue => lists'[s.pot] = ls[s.pot] \cup {site}
    <2>1. CASE issue
      BY <1>3, <1>5, <2>1 DEF Grows
    <2>2. CASE ~issue
      BY <1>3, <1>5, <2>2 DEF Grows
    <2>. QED
      BY <2>1, <2>2
  <1>8. /\ DOMAIN t = Fields /\ t.pot = s.pot /\ t.callers = Popped.callers
        /\ t.found = IF issue THEN s.found \cup {site} ELSE s.found
        /\ t.inner = Popped.inner /\ Popped.inner \subseteq Sites
    BY <1>2, <1>5, <1>6 DEF Alike, Fields, BackedThroughout, Backed
  <1>9. Grows(lists, lists')
    <2>1. Len(ls) \in Nat
      BY <1>5
    <2>. QED
      BY <1>4, <1>5, <1>7, <2>1 DEF Grows
  <1>10. Backed(t, lists')
    <2>1. Len(ls) \in Nat /\ ls[s.pot] \subseteq lists'[s.pot]
      BY <1>5, <1>7 DEF Grows
    <2>. HIDE DEF t
    <2>. QED
      BY <1>5, <1>7, <1>8, <2>1 DEF Backed
  <1>11. BackedThroughout(t, lists')
    <2>1. BackedThroughout(Popped, lists')
      <3>1. Len(lists') \in Nat
        BY <1>7
      <3>. QED
        BY <1>2, <1>4, <1>9, <3>1, BackedLater
    <2>. HIDE DEF t
    <2>. QED
      BY <1>8, <1>10, <2>1 DEF BackedThroughout
  <1>12. IsSequence(<<t>>) /\ Elems(<<t>>) = {t} /\ Push(<<t>>)
        /\ missed' = {} /\ lost' \subseteq Sites
    BY <1>1, <1>3, FewStates DEF PotentialIssues
  <1>. HIDE DEF t
  <1>. QED
    BY <1>1, <1>7, <1>9, <1>11, <1>12, Continued

LEMMA CallKeepsIssues ==
  ASSUME PotentialIssues, Call
  PROVE  PotentialIssues'
  <1>1. work # <<>> /\ lists' = lists /\ missed' = missed /\ lost' = lost
    BY DEF Call, Free, Running, issueVars
  <1>2. BackedThroughout(Popped, lists) /\ DOMAIN Popped = Fields
    BY <1>1, PoppedBacked DEF BackedThroughout, Backed
  <1>. DEFINE d(kind) == IF kind = "DELEGATECALL" THEN <<objs, Popped>>
                         ELSE Dependency(objs, Popped)
              t(kind) == [d(kind)[2] EXCEPT !.fn = Fallback, !.dep = 0, !.pot = 0,
                                            !.found = {}, !.inner = {},
                                            !.own = @ /\ kind = "DELEGATECALL",
                                            !.callers = Append(@, d(kind)[2])]
  <1>3. PICK kind \in CallKinds : Push(<<t(kind)>>)
    BY DEF Call
  <1>. DEFINE e == d(kind)[2]
              u == t(kind)
  <1>4. Alike(Popped, e)
    BY <1>2, HooksAlike DEF Alike
  <1>. HIDE DEF d
  <1>5. BackedThroughout(e, lists) /\ DOMAIN e = Fields
    BY <1>2, <1>4, AlikeBacked DEF Alike
  <1>6. DOMAIN u = Fields /\ u.pot = 0 /\ u.found = {} /\ u.inner = {}
        /\ u.callers = Append(e.callers, e)
    BY <1>5 DEF Fields
  <1>7. Len(lists) \in Nat
    BY DEF PotentialIssues
  <1>. HIDE DEF e, t
  <1>8. BackedThroughout(u, lists)
    BY <1>5, <1>6, <1>7, CalleeBacked
  <1>. QED
    BY <1>1, <1>3, <1>8, OneSuccessor

LEMMA EndCallKeepsIssues ==
  ASSUME PotentialIssues, EndCall \/ RevertCall
  PROVE  PotentialIssues'
  <1>1. work # <<>> /\ lists' = lists /\ missed' = missed /\ lost' = lost
        /\ Popped.callers # <<>>
    BY DEF EndCall, RevertCall, Free, Running, issueVars
  <1>. DEFINE s == Last(Popped.callers)
  <1>2. BackedThroughout(s, lists) /\ DOMAIN s = Fields
    <2>1. BackedThroughout(Popped, lists)
      BY <1>1, PoppedBacked
    <2>2. BackedThroughout(s, lists)
      BY <1>1, <2>1, CallerBacked
    <2>. QED
      BY <2>2 DEF BackedThroughout, Backed
  <1>. HIDE DEF s
  <1>3. \A h : Alike(s, Copied(h, s)[2])
    BY <1>2, HooksAlike
  <1>4. CASE EndCall
    <2>. DEFINE e == TransactionEnd(objs, Popped)
                c == Copied(e[1], s)
                t == [c[2] EXCEPT !.stack = e[2].stack, !.wrote = e[2].wrote,
                                  !.inner = @ \cup Popped.found \cup Popped.inner]
    <2>1. Push(<<t>>)
      BY <1>4 DEF EndCall, s
    <2>2. Alike(s, c[2])
      BY <1>3
    <2>. HIDE DEF c, e
    <2>3. BackedThroughout(c[2], lists)
      BY <1>2, <2>2, AlikeBacked
    <2>4. Popped.found \subseteq Sites /\ Popped.inner \subseteq Sites
      BY <1>1, PoppedBacked DEF PotentialIssues, BackedThroughout, Backed
    <2>5. BackedThroughout(t, lists)
      BY <2>3, <2>4 DEF BackedThroughout, Backed, Fields
    <2>. QED
      BY <1>1, <2>1, <2>5, OneSuccessor
  <1>5. CASE RevertCall
    <2>. DEFINE t == Copied(objs, s)[2]
    <2>1. Push(<<t>>)
      BY <1>5 DEF RevertCall, s
    <2>2. BackedThroughout(t, lists)
      BY <1>2, <1>3, AlikeBacked
    <2>. QED
      BY <1>1, <2>1, <2>2, OneSuccessor
  <1>. QED
    BY <1>4, <1>5

LEMMA EndKeepsIssues ==
  ASSUME PotentialIssues, EndTransaction \/ FailTransaction \/ OffCode
  PROVE  PotentialIssues'
  <1>1. work # <<>> /\ lists' = lists /\ Push(<<>>)
    BY DEF EndTransaction, FailTransaction, OffCode, Free, Running, heaps
  <1>2. missed' = {} /\ lost' \subseteq Sites
    <2>1. missed = {} /\ lost \subseteq Sites
      BY DEF PotentialIssues
    <2>2. CASE EndTransaction
      <3>1. Backed(Popped, lists)
        BY <1>1, PoppedBacked DEF BackedThroughout
      <3>. DEFINE issues == IF Popped.pot = 0 THEN {} ELSE lists[Popped.pot]
      <3>2. /\ missed' = missed \cup (Popped.found \ issues)
            /\ lost' = lost \cup (Popped.inner \ issues)
        BY <2>2, Zenon DEF EndTransaction, Check
      <3>. QED
        BY <2>1, <3>1, <3>2 DEF Backed
    <2>3. CASE FailTransaction \/ OffCode
      BY <2>1, <2>3 DEF FailTransaction, OffCode, issueVars
    <2>. QED
      BY <2>2, <2>3
  <1>3. Grows(lists, lists') /\ lists' \in Seq(SUBSET Sites)
    BY <1>1 DEF Grows, PotentialIssues
  <1>4. IsSequence(<<>>) /\ Elems(<<>>) = {}
    BY FewStates
  <1>. QED
    BY <1>1, <1>2, <1>3, <1>4, Continued

LEMMA IssuesFirst ==
  ASSUME Init
  PROVE  PotentialIssues
  <1>1. work = <<>> /\ lists = <<>> /\ missed = {} /\ lost = {}
    BY DEF Init
  <1>2. lists \in Seq(SUBSET Sites)
    BY <1>1
  <1>3. IsSequence(work) /\ Elems(work) = {}
    BY <1>1, FewStates
  <1>. QED
    BY <1>1, <1>2, <1>3 DEF PotentialIssues

LEMMA IssuesKept ==
  ASSUME PotentialIssues, [Next]_vars
  PROVE  PotentialIssues'
  <1>1. CASE Done \/ UNCHANGED vars
    <2>1. work' = work /\ lists' = lists /\ missed' = missed /\ lost' = lost
      BY <1>1 DEF Done, vars, heaps, issueVars
    <2>. QED
      BY <2>1 DEF PotentialIssues
  <1>. QED
    BY <1>1, RoundKeepsIssues, PlainKeepsIssues, JumpiKeepsIssues, SstoreKeepsIssues,
       DetectKeepsIssues, CallKeepsIssues, EndCallKeepsIssues, EndKeepsIssues DEF Next

\* Every issue a path found in the code of a transaction itself, between the calls it makes,
\* is looked at when the transaction ends by STOP or RETURN (check_potential_issues), for
\* every contract, search strategy, number of rounds and nesting of calls.  The issues
\* found in its callees are not: PotentialIssuesAnnotation does not persist over calls.
THEOREM IssuesChecked == Spec => []OwnIssuesChecked
  <1>1. Init => PotentialIssues
    BY IssuesFirst
  <1>2. PotentialIssues /\ [Next]_vars => PotentialIssues'
    BY IssuesKept
  <1>3. PotentialIssues => OwnIssuesChecked
    BY DEF PotentialIssues, OwnIssuesChecked
  <1>. QED
    BY <1>1, <1>2, <1>3, PTL DEF Spec
-------------------------------------------------------------------------------
(* Positions *)

\* The members of T up to j, and the one that has n of them.
UpTo(T, j) == {m \in T : m <= j}
Nth(T, n) == CHOOSE j \in T : Cardinality(UpTo(T, j)) = n

\* A finite set of positions is counted through from first to last.
LEMMA Counting ==
  ASSUME NEW N \in Nat, NEW T \in SUBSET (1..N)
  PROVE  /\ Cardinality(T) \in Nat
         /\ \A n \in 1..Cardinality(T) : Nth(T, n) \in T
         /\ \A n, m \in 1..Cardinality(T) : n # m => Nth(T, n) # Nth(T, m)
  <1> DEFINE C == Cardinality(T)
             rank == [j \in T |-> Cardinality(UpTo(T, j))]
  <1>1. IsFiniteSet(T) /\ C \in Nat /\ T \subseteq Int
    <2>1. IsFiniteSet(1..N)
      BY FS_Interval
    <2>2. IsFiniteSet(T)
      BY <2>1, FS_Subset
    <2>3. C \in Nat
      BY <2>2, FS_CardinalityType
    <2>4. \A j \in T : j \in Int
      OBVIOUS
    <2>. QED
      BY <2>2, <2>3, <2>4
  <1>2. ASSUME NEW j \in T
        PROVE  /\ IsFiniteSet(UpTo(T, j)) /\ Cardinality(UpTo(T, j)) \in 1..C
    <2>1. UpTo(T, j) \in SUBSET T /\ j \in UpTo(T, j)
      BY <1>1 DEF UpTo
    <2>2. IsFiniteSet(UpTo(T, j)) /\ Cardinality(UpTo(T, j)) <= C
      BY <1>1, <2>1, FS_Subset
    <2>3. Cardinality(UpTo(T, j)) \in Nat /\ Cardinality(UpTo(T, j)) # 0
      BY <2>1, <2>2, FS_CardinalityType, FS_EmptySet
    <2>. QED
      BY <1>1, <2>2, <2>3
  <1>3. ASSUME NEW j \in T, NEW l \in T, j < l
        PROVE  Cardinality(UpTo(T, j)) # Cardinality(UpTo(T, l))
    <2>1. /\ j \in Int /\ l \in Int /\ l <= l /\ ~(l <= j)
          /\ \A m \in T : m \in Int /\ (m <= j => m <= l)
      BY <1>1, <1>3
    <2>2. UpTo(T, j) \in SUBSET UpTo(T, l) /\ l \in UpTo(T, l) /\ l \notin UpTo(T, j)
      BY <2>1 DEF UpTo
    <2>. QED
      BY <1>2, <2>2, FS_Subset
  <1>4. rank \in Injection(T, 1..C)
    <2>1. rank \in [T -> 1..C]
      BY <1>2
    <2>2. ASSUME NEW j \in T, NEW l \in T, j # l
          PROVE  rank[j] # rank[l]
      <3>1. j < l \/ l < j
        BY <1>1, <2>2
      <3>. QED
        BY <1>3, <3>1
    <2>. HIDE DEF rank
    <2>. QED
      BY <2>1, <2>2 DEF Injection, IsInjective
  <1>5. rank \in Surjection(T, 1..C)
    <2>1. IsFiniteSet(1..C) /\ Cardinality(1..C) = C
      BY <1>1, FS_Interval
    <2>. HIDE DEF rank
    <2>. QED
      BY <1>4, <2>1, FS_Injection
  <1>6. \A n \in 1..C : \E j \in T : Cardinality(UpTo(T, j)) = n
    BY <1>5 DEF Surjection
  <1>7. \A n \in 1..C : Nth(T, n) \in T /\ Cardinality(UpTo(T, Nth(T, n))) = n
    BY <1>6 DEF Nth
  <1>. QED
    BY <1>1, <1>7

\* Where the states that stay in the work list come from.
Origin(p, j) == IF j < p THEN j ELSE j + 1

Pushed(q, p, states) == SubSeq(q, 1, p - 1) \o SubSeq(q, p + 1, Len(q)) \o states

\* The others keep their order, the new ones come last.
InPlace(q, p, states, r) ==
  /\ Len(r) = Len(q) - 1 + Len(states)
  /\ \A j \in 1..(Len(q) - 1) :
       r[j] = q[Origin(p, j)] /\ Origin(p, j) \in 1..Len(q) /\ Origin(p, j) # p
  /\ \A j, k \in 1..(Len(q) - 1) : j # k => Origin(p, j) # Origin(p, k)
  /\ \A j \in 1..Len(states) : r[Len(q) - 1 + j] = states[j]

LEMMA PushedPositions ==
  ASSUME NEW T, NEW q \in Seq(T), NEW p \in 1..Len(q), NEW states \in Seq(T), NEW r,
         r = Pushed(q, p, states)
  PROVE  r \in Seq(T) /\ InPlace(q, p, states, r)
  <1> DEFINE n == Len(q)
             a == SubSeq(q, 1, p - 1)
             b == SubSeq(q, p + 1, n)
             d == a \o b
  <1>1. n \in Nat /\ p \in Int /\ 1 <= p /\ p <= n /\ Len(states) \in Nat
    OBVIOUS
  <1>2. /\ a \in Seq(T) /\ Len(a) = p - 1 /\ \A i \in 1..(p - 1) : a[i] = q[i]
    <2>1. \A i \in 1..(p - 1) : q[i] \in T
      BY <1>1
    <2>. QED
      BY <1>1, <2>1, SubSeqProperties
  <1>3. /\ b \in Seq(T) /\ Len(b) = n - p /\ \A i \in 1..(n - p) : b[i] = q[p + i]
    <2>1. \A i \in (p + 1)..n : q[i] \in T
      BY <1>1
    <2>2. /\ b \in Seq(T) /\ Len(b) = (IF p + 1 <= n THEN n - (p + 1) + 1 ELSE 0)
          /\ \A i \in 1..(n - (p + 1) + 1) : b[i] = q[p + 1 + i - 1]
      BY <1>1, <2>1, SubSeqProperties
    <2>. HIDE DEF b, n
    <2>3. \A i \in 1..(n - p) : i \in 1..(n - (p + 1) + 1) /\ p + 1 + i - 1 = p + i
      BY <1>1
    <2>4. Len(b) = n - p
      BY <1>1, <2>2
    <2>. QED
      BY <2>2, <2>3, <2>4
  <1>. HIDE DEF a, b, n
  <1>4. /\ d \in Seq(T) /\ Len(d) = n - 1
        /\ \A i \in 1..(n - 1) : d[i] = IF i <= p - 1 THEN a[i] ELSE b[i - (p - 1)]
    <2>1. p - 1 + (n - p) = n - 1
      BY <1>1
    <2>. QED
      BY <1>2, <1>3, <2>1, ConcatProperties
  <1>5. \A i \in 1..(n - 1) : d[i] = q[Origin(p, i)] /\ Origin(p, i) \in 1..n /\ Origin(p, i) # p
    <2> SUFFICES ASSUME NEW i \in 1..(n - 1)
                 PROVE  d[i] = q[Origin(p, i)] /\ Origin(p, i) \in 1..n /\ Origin(p, i) # p
      OBVIOUS
    <2>. HIDE DEF d
    <2>1. CASE i < p
      <3>1. i <= p - 1 /\ i \in 1..(p - 1) /\ i \in 1..n /\ i # p
        BY <1>1, <2>1
      <3>2. d[i] = a[i] /\ a[i] = q[i]
        BY <1>2, <1>4, <3>1
      <3>3. Origin(p, i) = i
        BY <2>1 DEF Origin
      <3>. QED
        BY <3>1, <3>2, <3>3
    <2>2. CASE ~(i < p)
      <3>1. ~(i <= p - 1) /\ i - (p - 1) \in 1..(n - p) /\ p + (i - (p - 1)) = i + 1 /\ i + 1 \in 1..n /\ i + 1 # p
        BY <1>1, <2>2
      <3>2. d[i] = b[i - (p - 1)]
        BY <1>4, <3>1
      <3>3. b[i - (p - 1)] = q[p + (i - (p - 1))]
        BY <1>3, <3>1
      <3>. QED
        BY <2>2, <3>1, <3>2, <3>3 DEF Origin
    <2>. QED
      BY <2>1, <2>2
  <1>. HIDE DEF d
  <1>6. r = d \o states
    BY DEF Pushed, d, a, b, n
  <1>7. /\ r \in Seq(T) /\ Len(r) = Len(d) + Len(states)
        /\ \A i \in 1..(Len(d) + Len(states)) : r[i] = IF i <= Len(d) THEN d[i] ELSE states[i - Len(d)]
    <2>1. d \in Seq(T)
      BY <1>4
    <2>2. /\ d \o states \in Seq(T) /\ Len(d \o states) = Len(d) + Len(states)
          /\ \A i \in 1..(Len(d) + Len(states)) :
               (d \o states)[i] = IF i <= Len(d) THEN d[i] ELSE states[i - Len(d)]
      BY <2>1, ConcatProperties, Zenon
    <2>. QED
      BY <1>6, <2>2, Zenon
  <1>8. \A j \in 1..(n - 1) : r[j] = d[j]
    <2> SUFFICES ASSUME NEW j \in 1..(n - 1) PROVE r[j] = d[j]
      OBVIOUS
    <2>1. j \in 1..(Len(d) + Len(states)) /\ j <= Len(d)
      BY <1>1, <1>4
    <2>. QED
      BY <1>7, <2>1
  <1>9. \A j \in 1..Len(states) : r[n - 1 + j] = states[j]
    <2> SUFFICES ASSUME NEW j \in 1..Len(states) PROVE r[n - 1 + j] = states[j]
      OBVIOUS
    <2>. DEFINE i == n - 1 + j
    <2>1. i \in 1..(Len(d) + Len(states)) /\ ~(i <= Len(d)) /\ i - Len(d) = j
      BY <1>1, <1>4
    <2>. HIDE DEF i
    <2>2. r[i] = states[j]
      BY <1>7, <2>1
    <2>. QED
      BY <2>2 DEF i
  <1>10. \A j, k \in 1..(n - 1) : j # k => Origin(p, j) # Origin(p, k)
    BY <1>1 DEF Origin
  <1>. QED
    BY <1>4, <1>5, <1>7, <1>8, <1>9, <1>10 DEF n, InPlace
-------------------------------------------------------------------------------
(* Annotation objects *)

Names == Functions \cup {Fallback}

\* The objects that a state can still reach, and those that its callers will come back to.
Owns(s) == Elems(s.stack) \cup ({s.dep} \ {0})
Lent(s) == {c.dep : c \in Elems(s.callers)}

\* What get_dependency_annotation gives a state.
Obj(h, s) ==
  IF s.dep # 0 THEN h[s.dep] ELSE IF s.stack # <<>> THEN h[Last(s.stack)] ELSE NewDependency

Single(s) == Len(s.stack) <= 1 /\ (s.dep # 0 => s.stack = <<>>)

TypedState(s, n) ==
  /\ DOMAIN s = Fields
  /\ s.fn \in Names /\ s.dep \in 0..n /\ s.stack \in Seq(1..n)
  /\ s.ran \in Seq(Names) /\ s.wrote \in Seq(SUBSET Slots)

\* The objects of h are in h2, the new ones are copies or empty.
Extends(h, h2) ==
  /\ h2 \in Seq(Dependencies) /\ Len(h2) \in Nat /\ Len(h) <= Len(h2)
  /\ \A k \in 1..Len(h) : h2[k] = h[k]
  /\ \A k \in 1..Len(h2) : h2[k] = NewDependency \/ \E j \in 1..Len(h) : h2[k] = h[j]

\* t is s after a copy or a hook: it has the same annotation, maybe in a new object.
Follows(h, s, h2, t) ==
  /\ Extends(h, h2)
  /\ TypedState(t, Len(h2))
  /\ Obj(h2, t) = Obj(h, s)
  /\ Owns(t) \subseteq Owns(s) \cup ((Len(h) + 1)..Len(h2))
  /\ Single(s) => Single(t)
  /\ (s.dep # 0 => t.dep # 0) /\ (s.stack = <<>> => t.stack = <<>>)
  /\ t.fn = s.fn /\ t.behind = s.behind /\ t.own = s.own /\ t.callers = s.callers
  /\ t.ran = s.ran /\ t.wrote = s.wrote

LEMMA ExtendsSelf == ASSUME NEW h \in Seq(Dependencies) PROVE Extends(h, h)
  BY DEF Extends

LEMMA ExtendsTwice ==
  ASSUME NEW h, NEW h2, NEW h3, Len(h) \in Nat, Extends(h, h2), Extends(h2, h3)
  PROVE  Extends(h, h3)
  <1>1. Len(h) <= Len(h2) /\ Len(h2) <= Len(h3) /\ Len(h2) \in Nat /\ Len(h3) \in Nat
    BY DEF Extends
  <1>2. ASSUME NEW k \in 1..Len(h3) PROVE h3[k] = NewDependency \/ \E j \in 1..Len(h) : h3[k] = h[j]
    <2>1. CASE h3[k] = NewDependency
      BY <2>1
    <2>2. CASE \E j \in 1..Len(h2) : h3[k] = h2[j]
      BY <2>2 DEF Extends
    <2>. QED
      BY <2>1, <2>2 DEF Extends
  <1>3. \A k \in 1..Len(h) : h3[k] = h[k]
    <2>1. \A k \in 1..Len(h) : k \in 1..Len(h2)
      BY <1>1
    <2>. QED
      BY <2>1 DEF Extends
  <1>. QED
    BY <1>1, <1>2, <1>3 DEF Extends

LEMMA FollowsTwice ==
  ASSUME NEW h, NEW s, NEW h2, NEW t, NEW h3, NEW u, Len(h) \in Nat,
         Follows(h, s, h2, t), Follows(h2, t, h3, u)
  PROVE  Follows(h, s, h3, u)
  <1>1. Extends(h, h2) /\ Extends(h2, h3) /\ Extends(h, h3)
    BY ExtendsTwice DEF Follows
  <1>2. Len(h) <= Len(h2) /\ Len(h2) <= Len(h3) /\ Len(h2) \in Nat /\ Len(h3) \in Nat
    BY <1>1 DEF Extends
  <1>3. Owns(u) \subseteq Owns(s) \cup ((Len(h) + 1)..Len(h3))
    <2>1. (Len(h) + 1)..Len(h2) \subseteq (Len(h) + 1)..Len(h3)
      BY <1>2
    <2>2. (Len(h2) + 1)..Len(h3) \subseteq (Len(h) + 1)..Len(h3)
      BY <1>2
    <2>. QED
      BY <2>1, <2>2 DEF Follows
  <1>. QED
    BY <1>1, <1>3 DEF Follows

\* What a state holds depends on its annotation and its stack only.
LEMMA SameHold ==
  ASSUME NEW s, NEW t, t.dep = s.dep, t.stack = s.stack
  PROVE  /\ Owns(t) = Owns(s) /\ (Single(t) <=> Single(s))
         /\ \A h : Obj(h, t) = Obj(h, s)
  BY DEF Owns, Single, Obj

LEMMA TypedLater ==
  ASSUME NEW s, NEW n \in Nat, NEW m \in Nat, n <= m, TypedState(s, n)
  PROVE  TypedState(s, m)
  <1>1. 1..n \subseteq 1..m /\ 0..n \subseteq 0..m
    OBVIOUS
  <1>2. s.stack \in Seq(1..m)
    BY <1>1, SeqMonotonic DEF TypedState
  <1>. QED
    BY <1>1, <1>2 DEF TypedState

LEMMA OwnsInHeap ==
  ASSUME NEW s, NEW n \in Nat, TypedState(s, n)
  PROVE  Owns(s) \subseteq 1..n
  <1>1. s.stack \in Seq(1..n) /\ s.dep \in 0..n
    BY DEF TypedState
  <1>2. Elems(s.stack) \subseteq 1..n
    BY <1>1 DEF Elems
  <1>. QED
    BY <1>1, <1>2 DEF Owns

LEMMA NewDependencyType == NewDependency \in Dependencies
  <1>1. <<>> \in Seq(Functions \cup {Fallback})
    OBVIOUS
  <1>. QED
    BY <1>1 DEF NewDependency, Dependencies

LEMMA ExtendsByOne ==
  ASSUME NEW h \in Seq(Dependencies), NEW o,
         o = NewDependency \/ \E j \in 1..Len(h) : o = h[j]
  PROVE  /\ Extends(h, Append(h, o)) /\ Len(Append(h, o)) = Len(h) + 1
         /\ Append(h, o)[Len(h) + 1] = o
  <1>1. o \in Dependencies
    BY NewDependencyType
  <1>. DEFINE h2 == Append(h, o)
  <1>2. /\ h2 \in Seq(Dependencies) /\ Len(h2) = Len(h) + 1 /\ h2[Len(h) + 1] = o
        /\ \A k \in 1..Len(h) : h2[k] = h[k]
    BY <1>1, AppendProperties
  <1>3. Len(h) \in Nat
    OBVIOUS
  <1>. HIDE DEF h2
  <1>4. \A k \in 1..Len(h2) : k \in 1..Len(h) \/ k = Len(h) + 1
    BY <1>2, <1>3
  <1>5. Extends(h, h2)
    BY <1>2, <1>3, <1>4 DEF Extends
  <1>. QED
    BY <1>2, <1>5 DEF h2

LEMMA FollowsSelf ==
  ASSUME NEW h \in Seq(Dependencies), NEW s, TypedState(s, Len(h))
  PROVE  Follows(h, s, h, s)
  BY ExtendsSelf DEF Follows

\* __copy__: a state with an annotation gets an object of its own.
LEMMA CopiedFollows ==
  ASSUME NEW h \in Seq(Dependencies), NEW s, TypedState(s, Len(h))
  PROVE  /\ Follows(h, s, Copied(h, s)[1], Copied(h, s)[2])
         /\ s.dep = 0 => Copied(h, s)[1] = h /\ Copied(h, s)[2] = s
         /\ s.dep # 0 => /\ Copied(h, s)[2].dep = Len(h) + 1
                         /\ Copied(h, s)[2].stack = s.stack
  <1>1. CASE s.dep = 0
    <2>1. Copied(h, s)[1] = h /\ Copied(h, s)[2] = s
      BY <1>1 DEF Copied
    <2>. QED
      BY <1>1, <2>1, FollowsSelf
  <1>2. CASE s.dep # 0
    <2>. DEFINE h2 == Append(h, h[s.dep])
                n == Len(h) + 1
                t == [s EXCEPT !.dep = n]
    <2>1. Copied(h, s)[1] = h2 /\ Copied(h, s)[2] = t
      BY <1>2 DEF Copied
    <2>2. s.dep \in 1..Len(h) /\ Len(h) \in Nat
      BY <1>2 DEF TypedState
    <2>3. Extends(h, h2) /\ Len(h2) = n /\ h2[n] = h[s.dep]
      BY <2>2, ExtendsByOne
    <2>4. /\ DOMAIN t = Fields /\ t.dep = n /\ t.stack = s.stack
          /\ t.fn = s.fn /\ t.behind = s.behind /\ t.own = s.own /\ t.callers = s.callers
          /\ t.ran = s.ran /\ t.wrote = s.wrote
      BY DEF TypedState, Fields
    <2>5. n \in Nat /\ n # 0 /\ n = Len(h) + 1 /\ Len(h) <= n
      BY <2>2
    <2>. HIDE DEF h2, t, n
    <2>6. TypedState(t, n)
      <3>1. TypedState(s, n)
        BY <2>2, <2>5, TypedLater
      <3>. QED
        BY <2>4, <2>5, <3>1 DEF TypedState
    <2>7. Obj(h2, t) = Obj(h, s)
      BY <1>2, <2>3, <2>4, <2>5 DEF Obj
    <2>8. Owns(t) \subseteq Owns(s) \cup (n..n)
      BY <2>4, <2>5 DEF Owns
    <2>9. Single(s) => Single(t)
      BY <1>2, <2>4 DEF Single
    <2>10. Follows(h, s, h2, t)
      BY <2>3, <2>4, <2>5, <2>6, <2>7, <2>8, <2>9 DEF Follows
    <2>. QED
      BY <1>2, <2>1, <2>4, <2>5, <2>10
  <1>. QED
    BY <1>1, <1>2

LEMMA LengthFacts ==
  ASSUME NEW T, NEW q \in Seq(T)
  PROVE  Len(q) \in Nat /\ (Len(q) = 0 => q = <<>>)
  OBVIOUS

LEMMA LastAndFront ==
  ASSUME NEW n \in Nat, NEW q \in Seq(1..n), q # <<>>
  PROVE  /\ Last(q) \in Elems(q) /\ Last(q) \in 1..n
         /\ Front(q) \in Seq(1..n) /\ Elems(Front(q)) \subseteq Elems(q)
         /\ Len(Front(q)) = Len(q) - 1
  <1>1. Len(q) \in Nat /\ Len(q) # 0 /\ DOMAIN q = 1..Len(q)
    OBVIOUS
  <1>2. \A i \in 1..(Len(q) - 1) : q[i] \in 1..n /\ q[i] \in Elems(q)
    BY <1>1 DEF Elems
  <1>3. /\ Front(q) \in Seq(1..n) /\ Len(Front(q)) = Len(q) - 1
        /\ \A i \in 1..(Len(q) - 1) : Front(q)[i] = q[i]
    BY <1>1, <1>2, SubSeqProperties DEF Front
  <1>4. Elems(Front(q)) \subseteq Elems(q)
    <2>1. DOMAIN Front(q) = 1..(Len(q) - 1)
      BY <1>3
    <2>. QED
      BY <1>2, <1>3, <2>1 DEF Elems
  <1>5. Last(q) \in Elems(q) /\ Last(q) \in 1..n
    <2>1. Len(q) \in 1..Len(q)
      BY <1>1
    <2>. QED
      BY <1>1, <2>1 DEF Last, Elems
  <1>. QED
    BY <1>3, <1>4, <1>5

\* get_dependency_annotation: afterwards the annotation is the state's own.
LEMMA DependencyFollows ==
  ASSUME NEW h \in Seq(Dependencies), NEW s, TypedState(s, Len(h))
  PROVE  /\ Follows(h, s, Dependency(h, s)[1], Dependency(h, s)[2])
         /\ Dependency(h, s)[2].dep # 0
  <1>0. Len(h) \in Nat /\ s.stack \in Seq(1..Len(h)) /\ s.dep \in 0..Len(h) /\ Len(s.stack) \in Nat
    BY DEF TypedState
  <1>1. CASE s.dep # 0
    <2>1. Dependency(h, s)[1] = h /\ Dependency(h, s)[2] = s
      BY <1>1 DEF Dependency
    <2>. QED
      BY <1>1, <2>1, FollowsSelf
  <1>2. CASE s.dep = 0 /\ s.stack # <<>>
    <2>. DEFINE t == [s EXCEPT !.dep = Last(s.stack), !.stack = Front(s.stack)]
    <2>1. Dependency(h, s)[1] = h /\ Dependency(h, s)[2] = t
      BY <1>2 DEF Dependency
    <2>2. /\ DOMAIN t = Fields /\ t.dep = Last(s.stack) /\ t.stack = Front(s.stack)
          /\ t.fn = s.fn /\ t.behind = s.behind /\ t.own = s.own /\ t.callers = s.callers
          /\ t.ran = s.ran /\ t.wrote = s.wrote
      BY DEF TypedState, Fields
    <2>3. /\ t.dep \in Elems(s.stack) /\ t.dep \in 1..Len(h)
          /\ t.stack \in Seq(1..Len(h)) /\ Elems(t.stack) \subseteq Elems(s.stack)
          /\ Len(t.stack) = Len(s.stack) - 1
      <3>. HIDE DEF t
      <3>1. /\ Last(s.stack) \in Elems(s.stack) /\ Last(s.stack) \in 1..Len(h)
            /\ Front(s.stack) \in Seq(1..Len(h)) /\ Elems(Front(s.stack)) \subseteq Elems(s.stack)
            /\ Len(Front(s.stack)) = Len(s.stack) - 1
        BY <1>0, <1>2, LastAndFront
      <3>. QED
        BY <2>2, <3>1
    <2>. HIDE DEF t
    <2>4. TypedState(t, Len(h))
      BY <1>0, <2>2, <2>3 DEF TypedState
    <2>5. Obj(h, t) = Obj(h, s)
      BY <1>0, <1>2, <2>2, <2>3 DEF Obj
    <2>6. Owns(t) \subseteq Owns(s)
      BY <2>3 DEF Owns
    <2>7. Single(s) => Single(t)
      <3>1. Len(t.stack) \in Nat /\ (Len(t.stack) = 0 => t.stack = <<>>)
        BY <2>3, LengthFacts
      <3>2. Len(t.stack) = Len(s.stack) - 1
        BY <2>3
      <3>3. Len(s.stack) <= 1 => Len(t.stack) = 0
        <4>. DEFINE a == Len(s.stack)
                    b == Len(t.stack)
        <4>1. a \in Nat /\ b \in Nat /\ b = a - 1
          BY <1>0, <3>1, <3>2
        <4>. HIDE DEF a, b
        <4>2. a <= 1 => b = 0
          BY <4>1
        <4>. QED
          BY <4>2 DEF a, b
      <3>. QED
        BY <3>1, <3>3 DEF Single
    <2>8. Follows(h, s, h, t)
      BY <1>2, <2>2, <2>4, <2>5, <2>6, <2>7, ExtendsSelf DEF Follows
    <2>. QED
      BY <1>0, <2>1, <2>3, <2>8
  <1>3. CASE s.dep = 0 /\ s.stack = <<>>
    <2>. DEFINE h2 == Append(h, NewDependency)
                n == Len(h) + 1
                t == [s EXCEPT !.dep = n]
    <2>1. Dependency(h, s)[1] = h2 /\ Dependency(h, s)[2] = t
      BY <1>3 DEF Dependency
    <2>2. /\ DOMAIN t = Fields /\ t.dep = n /\ t.stack = s.stack
          /\ t.fn = s.fn /\ t.behind = s.behind /\ t.own = s.own /\ t.callers = s.callers
          /\ t.ran = s.ran /\ t.wrote = s.wrote
      BY DEF TypedState, Fields
    <2>3. Extends(h, h2) /\ Len(h2) = n /\ h2[n] = NewDependency
      BY ExtendsByOne
    <2>4. n \in Nat /\ n # 0 /\ n = Len(h) + 1 /\ Len(h) <= n
      BY <1>0
    <2>. HIDE DEF h2, t, n
    <2>5. TypedState(t, n)
      <3>1. TypedState(s, n)
        BY <1>0, <2>4, TypedLater
      <3>. QED
        BY <2>2, <2>4, <3>1 DEF TypedState
    <2>6. Obj(h2, t) = Obj(h, s)
      BY <1>3, <2>2, <2>3, <2>4 DEF Obj
    <2>7. Owns(t) \subseteq Owns(s) \cup (n..n)
      BY <2>2, <2>4 DEF Owns
    <2>8. Single(s) => Single(t)
      BY <1>3, <2>2 DEF Single
    <2>9. Follows(h, s, h2, t)
      BY <1>3, <2>2, <2>3, <2>4, <2>5, <2>6, <2>7, <2>8 DEF Follows
    <2>. QED
      BY <2>1, <2>2, <2>4, <2>9
  <1>. QED
    BY <1>1, <1>2, <1>3
-------------------------------------------------------------------------------
(* Written slots *)

\* The sets that the objects refer to exist.
Bounded(h, m) == \A k \in DOMAIN h, n \in Keys : h[k].written[n] <= m

\* An object records more than before, and no other one is touched.
Records(h, st, h2, st2, ref) ==
  /\ h2 \in Seq(Dependencies) /\ Len(h2) = Len(h)
  /\ \A k \in 1..Len(h) : k # ref => h2[k] = h[k]
  /\ h2[ref].ftn_seq = h[ref].ftn_seq
  /\ \A n \in Keys : h[ref].written[n] # 0 => h2[ref].written[n] = h[ref].written[n]
  /\ st2 \in Seq(SUBSET Slots) /\ Grows(st, st2)
  /\ Bounded(h2, Len(st2))

Recorded1(h, st, ref, key, slot) ==
  h[ref].written[key] # 0 /\ slot \in st[h[ref].written[key]]

LEMMA ObjectFacts ==
  ASSUME NEW h \in Seq(Dependencies), NEW ref \in 1..Len(h)
  PROVE  /\ h[ref] \in Dependencies
         /\ h[ref].ftn_seq \in Seq(Names) /\ h[ref].written \in [Keys -> Nat]
  <1>1. h[ref] \in Dependencies
    OBVIOUS
  <1>. QED
    BY <1>1 DEF Dependencies, Names

LEMMA Pairs ==
  ASSUME NEW a, NEW b, NEW c, NEW d, <<a, b>> = <<c, d>>
  PROVE  a = c /\ b = d
  OBVIOUS

LEMMA FunctionIsSequence ==
  ASSUME NEW S, NEW n \in Nat, NEW f \in [1..n -> S]
  PROVE  f \in Seq(S) /\ Len(f) = n
  OBVIOUS

LEMMA ExtendRecords ==
  ASSUME NEW h \in Seq(Dependencies), NEW st \in Seq(SUBSET Slots), Bounded(h, Len(st)),
         NEW ref \in 1..Len(h), NEW key, NEW slot \in Slots,
         NEW h2, NEW st2, <<h2, st2>> = Extend(<<h, st>>, ref, key, slot)
  PROVE  /\ Records(h, st, h2, st2, ref)
         /\ key \in Keys => Recorded1(h2, st2, ref, key, slot)
  <1>. DEFINE id == h[ref].written[key]
              m == Len(st) + 1
  <1>0. Len(st) \in Nat /\ m \in Nat /\ m # 0 /\ m = Len(st) + 1 /\ Len(h) \in Nat
        /\ DOMAIN h = 1..Len(h) /\ DOMAIN st = 1..Len(st)
    OBVIOUS
  <1>01. /\ h[ref] \in Dependencies /\ h[ref].ftn_seq \in Seq(Names) /\ h[ref].written \in [Keys -> Nat]
    BY ObjectFacts
  <1>1. CASE id = 0
    <2>. DEFINE f == h[ref].written
                g == [f EXCEPT ![key] = m]
                o == [h[ref] EXCEPT !.written = g]
    <2>1. h2 = [h EXCEPT ![ref].written[key] = m] /\ st2 = Append(st, {slot})
      <3>1. Extend(<<h, st>>, ref, key, slot) = <<[h EXCEPT ![ref].written[key] = m], Append(st, {slot})>>
        BY <1>1 DEF Extend
      <3>. DEFINE x == [h EXCEPT ![ref].written[key] = m]
                  y == Append(st, {slot})
      <3>2. <<h2, st2>> = <<x, y>>
        BY <3>1
      <3>. HIDE DEF x, y
      <3>3. h2 = x /\ st2 = y
        BY <3>2, Pairs
      <3>. QED
        BY <3>3 DEF x, y
    <2>2. h2 = [h EXCEPT ![ref] = o]
      BY <2>1
    <2>3. g \in [Keys -> Nat] /\ (\A n \in Keys : n # key => g[n] = f[n]) /\ (key \in Keys => g[key] = m)
      BY <1>0, <1>01
    <2>4. o \in Dependencies /\ o.ftn_seq = h[ref].ftn_seq /\ o.written = g
      <3>. HIDE DEF g
      <3>. QED
        BY <1>01, <2>3 DEF Dependencies
    <2>. HIDE DEF o, g, m
    <2>5. /\ h2 \in Seq(Dependencies) /\ Len(h2) = Len(h) /\ h2[ref] = o
          /\ \A k \in 1..Len(h) : k # ref => h2[k] = h[k]
      BY <2>2, <2>4
    <2>6. /\ st2 \in Seq(SUBSET Slots) /\ Len(st2) = m /\ st2[m] = {slot}
          /\ \A i \in 1..Len(st) : st2[i] = st[i]
      <3>1. {slot} \in SUBSET Slots
        OBVIOUS
      <3>. QED
        BY <1>0, <2>1, <3>1, AppendProperties
    <2>7. Grows(st, st2)
      BY <1>0, <2>6 DEF Grows
    <2>8. Bounded(h2, m)
      <3> SUFFICES ASSUME NEW k \in DOMAIN h2, NEW n \in Keys PROVE h2[k].written[n] <= m
        BY DEF Bounded
      <3>1. k \in 1..Len(h)
        BY <1>0, <2>5
      <3>2. h[k].written[n] <= Len(st) /\ h[k].written[n] \in Nat
        BY <1>0, <3>1, ObjectFacts DEF Bounded
      <3>3. CASE k = ref /\ n = key
        BY <1>0, <2>3, <2>4, <2>5, <3>3
      <3>4. CASE k = ref /\ n # key
        <4>1. h2[k].written[n] = h[k].written[n]
          BY <2>3, <2>4, <2>5, <3>4
        <4>. QED
          BY <1>0, <3>2, <4>1
      <3>5. CASE k # ref
        <4>1. h2[k] = h[k]
          BY <2>5, <3>1, <3>5
        <4>. QED
          BY <1>0, <3>2, <4>1
      <3>. QED
        BY <3>3, <3>4, <3>5
    <2>9. \A n \in Keys : h[ref].written[n] # 0 => h2[ref].written[n] = h[ref].written[n]
      BY <1>1, <2>3, <2>4, <2>5
    <2>10. Records(h, st, h2, st2, ref)
      BY <2>4, <2>5, <2>6, <2>7, <2>8, <2>9 DEF Records
    <2>11. key \in Keys => Recorded1(h2, st2, ref, key, slot)
      BY <1>0, <2>3, <2>4, <2>5, <2>6 DEF Recorded1
    <2>. QED
      BY <2>10, <2>11
  <1>2. CASE id # 0
    <2>1. h2 = h /\ st2 = [st EXCEPT ![id] = @ \cup {slot}]
      <3>1. Extend(<<h, st>>, ref, key, slot) = <<h, [st EXCEPT ![id] = @ \cup {slot}]>>
        BY <1>2 DEF Extend
      <3>. QED
        BY <3>1
    <2>2. key \in Keys => id \in 1..Len(st)
      <3> SUFFICES ASSUME key \in Keys PROVE id \in 1..Len(st)
        OBVIOUS
      <3>1. id \in Nat /\ id <= Len(st)
        BY <1>0, <1>01 DEF Bounded
      <3>. QED
        BY <1>0, <1>2, <3>1
    <2>. HIDE DEF id
    <2>3. /\ st2 \in Seq(SUBSET Slots) /\ Len(st2) = Len(st)
          /\ \A i \in 1..Len(st) : st[i] \subseteq st2[i]
          /\ id \in 1..Len(st) => slot \in st2[id]
      <3>1. \A i \in 1..Len(st) : st[i] \in SUBSET Slots
        OBVIOUS
      <3>2. DOMAIN st2 = 1..Len(st) /\ \A i \in 1..Len(st) : st2[i] = IF i = id THEN st[id] \cup {slot} ELSE st[i]
        BY <1>0, <2>1
      <3>3. \A i \in 1..Len(st) : st2[i] \in SUBSET Slots /\ st[i] \subseteq st2[i]
        BY <3>1, <3>2
      <3>4. st2 \in [1..Len(st) -> SUBSET Slots]
        BY <2>1, <3>2, <3>3
      <3>5. st2 \in Seq(SUBSET Slots) /\ Len(st2) = Len(st)
        BY <1>0, <3>4, FunctionIsSequence
      <3>. QED
        BY <3>2, <3>3, <3>5
    <2>4. Records(h, st, h2, st2, ref)
      <3>1. Grows(st, st2)
        BY <1>0, <2>3 DEF Grows
      <3>. QED
        BY <2>1, <2>3, <3>1 DEF Records
    <2>5. key \in Keys => Recorded1(h2, st2, ref, key, slot)
      BY <1>2, <2>1, <2>2, <2>3 DEF Recorded1, id
    <2>. QED
      BY <2>4, <2>5
  <1>. QED
    BY <1>1, <1>2

\* sstore_hook: the slot is recorded under the number of the transaction.
LEMMA StoredRecords ==
  ASSUME NEW h \in Seq(Dependencies), NEW st \in Seq(SUBSET Slots), Bounded(h, Len(st)),
         NEW ref \in 1..Len(h), NEW slot \in Slots,
         NEW h3, NEW st3, <<h3, st3>> = Stored(<<h, st>>, ref, slot)
  PROVE  /\ Records(h, st, h3, st3, ref)
         /\ Len(h[ref].ftn_seq) + 1 \in Keys => Recorded1(h3, st3, ref, Len(h[ref].ftn_seq) + 1, slot)
  <1>. DEFINE a == Extend(<<h, st>>, ref, iteration, slot)
              h2 == a[1]
              st2 == a[2]
              n == Len(a[1][ref].ftn_seq) + 1
  <1>1. a = <<h2, st2>>
    BY DEF Extend
  <1>2. <<h3, st3>> = Extend(<<h2, st2>>, ref, n, slot)
    BY <1>1 DEF Stored
  <1>. HIDE DEF a
  <1>3. <<h2, st2>> = Extend(<<h, st>>, ref, iteration, slot)
    BY <1>1 DEF a
  <1>. DEFINE k2 == h2
              t2 == st2
              m == n
  <1>4. <<k2, t2>> = Extend(<<h, st>>, ref, iteration, slot) /\ <<h3, st3>> = Extend(<<k2, t2>>, ref, m, slot)
        /\ m = Len(k2[ref].ftn_seq) + 1
    BY <1>2, <1>3
  <1>. HIDE DEF k2, t2, m
  <1>5. Records(h, st, k2, t2, ref)
    BY <1>4, ExtendRecords
  <1>6. /\ k2 \in Seq(Dependencies) /\ t2 \in Seq(SUBSET Slots) /\ Bounded(k2, Len(t2))
        /\ Len(k2) = Len(h) /\ ref \in 1..Len(k2) /\ m = Len(h[ref].ftn_seq) + 1
    BY <1>4, <1>5 DEF Records
  <1>7. /\ Records(k2, t2, h3, st3, ref)
        /\ m \in Keys => Recorded1(h3, st3, ref, m, slot)
    BY <1>4, <1>6, ExtendRecords
  <1>8. Grows(st, st3)
    <2>1. Len(st) \in Nat /\ Len(t2) \in Nat /\ Len(st3) \in Nat
      BY <1>6, <1>7 DEF Records
    <2>. QED
      BY <1>5, <1>7, <2>1 DEF Records, Grows
  <1>9. Records(h, st, h3, st3, ref)
    BY <1>5, <1>6, <1>7, <1>8 DEF Records
  <1>. QED
    BY <1>6, <1>7, <1>9
-------------------------------------------------------------------------------
(* The invariant *)

\* The contracts for which the annotations tell the truth (README, section 5): no
\* DELEGATECALL, no STOP right behind a JUMPI.
Private == CallKinds \subseteq {"CALL", "STATICCALL"} /\ EarlyStop = FALSE

TypedThroughout(s, n) == TypedState(s, n) /\ \A c \in Elems(s.callers) : TypedState(c, n)

WorldStates(n) == [stack : Seq(1..n), ran : Seq(Names), wrote : Seq(SUBSET Slots)]

Types ==
  /\ search \in Searches /\ iteration \in 0..Rounds /\ hooked \in 0..MaxHooked
  /\ objs \in Seq(Dependencies) /\ sets \in Seq(SUBSET Slots) /\ Bounded(objs, Len(sets))
  /\ \A s \in Elems(work) : TypedThroughout(s, Len(objs))
  /\ open \in Seq(WorldStates(Len(objs)))
  /\ cache \subseteq Sites

\* An object tells what ran and what was written.
Tells(o, ran, wrote, st) ==
  /\ o.ftn_seq = ran
  /\ \A n \in Keys : n \in DOMAIN wrote /\ wrote[n] # {} =>
       o.written[n] # 0 /\ wrote[n] \subseteq st[o.written[n]]

\* A state of the transaction itself holds an object that tells the truth; a callee
\* starts without annotation and does not write to the contract.
Good(s, h, st) ==
  /\ Single(s)
  /\ s.behind # "no" => s.dep # 0
  /\ s.callers # <<>> => s.stack = <<>> /\ ~s.own
  /\ s.callers = <<>> => Tells(Obj(h, s), s.ran, s.wrote, st) /\ Len(s.wrote) = Len(s.ran) + 1

Sound(s, h, st) ==
  /\ Good(s, h, st)
  /\ \A c \in Elems(s.callers) : Good(c, h, st) /\ c.dep # 0 /\ c.wrote = s.wrote

RecordedIn(h, ws) == IF ws.stack = <<>> THEN NewDependency ELSE h[ws.stack[1]]

SoundOpen(ws, h, st) ==
  /\ Len(ws.stack) <= 1
  /\ Len(ws.wrote) = Len(ws.ran) \/ Len(ws.wrote) = Len(ws.ran) + 1
  /\ Tells(RecordedIn(h, ws), ws.ran, ws.wrote, st)

\* Two states share an object only as the sides of a fork.
Apart(s, t) == Owns(s) \cap Owns(t) = {} \/ (s.behind # "no" /\ t.behind # "no")
AllApart(q) == \A j, k \in DOMAIN q : j # k => Apart(q[j], q[k])

Sharing ==
  /\ AllApart(work)
  /\ \A s, t \in Elems(work) : Lent(s) \cap Owns(t) = {}
  /\ \A k \in DOMAIN open : \A s \in Elems(work) : Elems(open[k].stack) \cap (Owns(s) \cup Lent(s)) = {}
  /\ \A j, k \in DOMAIN open : j # k => Elems(open[j].stack) \cap Elems(open[k].stack) = {}

History ==
  /\ \A s \in Elems(work) : Sound(s, objs, sets)
  /\ \A k \in DOMAIN open : SoundOpen(open[k], objs, sets)
  /\ Sharing

-------------------------------------------------------------------------------
(* A step elsewhere *)

\* h2 differs from h in objects of M and in new ones.
Differs(h, h2, M) ==
  /\ h2 \in Seq(Dependencies) /\ Len(h) <= Len(h2)
  /\ \A k \in 1..Len(h) : k \notin M => h2[k] = h[k]

LEMMA TellsLater ==
  ASSUME NEW o, NEW ran, NEW wrote, NEW st, NEW st2, Tells(o, ran, wrote, st), o.written \in [Keys -> Nat],
         Len(st) \in Nat, \A n \in Keys : o.written[n] <= Len(st), Grows(st, st2)
  PROVE  Tells(o, ran, wrote, st2)
  <1>1. ASSUME NEW n \in Keys, n \in DOMAIN wrote, wrote[n] # {}
        PROVE  o.written[n] # 0 /\ wrote[n] \subseteq st2[o.written[n]]
    <2>. DEFINE id == o.written[n]
    <2>1. id # 0 /\ wrote[n] \subseteq st[id] /\ id \in Nat /\ id <= Len(st)
      BY <1>1 DEF Tells
    <2>. HIDE DEF id
    <2>2. id \in 1..Len(st)
      BY <2>1
    <2>3. st[id] \subseteq st2[id]
      BY <2>2 DEF Grows
    <2>. QED
      BY <2>1, <2>3 DEF id
  <1>. QED
    BY <1>1 DEF Tells

LEMMA NewDependencyFacts ==
  /\ NewDependency.ftn_seq = <<>> /\ NewDependency.written \in [Keys -> Nat]
  /\ \A n \in Keys : NewDependency.written[n] = 0
  BY DEF NewDependency

\* What a state can get as its annotation is known.
LEMMA ObjKnown ==
  ASSUME NEW h \in Seq(Dependencies), NEW m \in Nat, Bounded(h, m), NEW s, TypedState(s, Len(h))
  PROVE  /\ Obj(h, s).written \in [Keys -> Nat] /\ \A n \in Keys : Obj(h, s).written[n] <= m
         /\ Obj(h, s).ftn_seq \in Seq(Names)
  <1>0. Len(h) \in Nat /\ s.dep \in 0..Len(h) /\ s.stack \in Seq(1..Len(h)) /\ DOMAIN h = 1..Len(h)
    BY DEF TypedState
  <1>1. ASSUME NEW r \in 1..Len(h)
        PROVE  /\ h[r].written \in [Keys -> Nat] /\ \A n \in Keys : h[r].written[n] <= m
               /\ h[r].ftn_seq \in Seq(Names)
    BY <1>0, ObjectFacts DEF Bounded
  <1>2. CASE s.dep # 0
    <2>1. s.dep \in 1..Len(h) /\ Obj(h, s) = h[s.dep]
      BY <1>0, <1>2 DEF Obj
    <2>. QED
      BY <1>1, <2>1
  <1>3. CASE s.dep = 0 /\ s.stack # <<>>
    <2>1. Last(s.stack) \in 1..Len(h) /\ Obj(h, s) = h[Last(s.stack)]
      BY <1>0, <1>3, LastAndFront DEF Obj
    <2>. QED
      BY <1>1, <2>1
  <1>4. CASE s.dep = 0 /\ s.stack = <<>>
    <2>1. Obj(h, s) = NewDependency /\ <<>> \in Seq(Names)
      BY <1>4 DEF Obj
    <2>. QED
      BY <2>1, NewDependencyFacts
  <1>. QED
    BY <1>2, <1>3, <1>4

LEMMA GoodLater ==
  ASSUME NEW h \in Seq(Dependencies), NEW st, Len(st) \in Nat, Bounded(h, Len(st)),
         NEW h2, NEW st2, NEW M, Differs(h, h2, M), Grows(st, st2),
         NEW s, TypedState(s, Len(h)), Good(s, h, st), Owns(s) \cap M = {}
  PROVE  Good(s, h2, st2)
  <1>0. Len(h) \in Nat /\ s.dep \in 0..Len(h) /\ s.stack \in Seq(1..Len(h))
    BY DEF TypedState
  <1>1. Obj(h2, s) = Obj(h, s)
    <2>1. CASE s.dep # 0
      <3>1. s.dep \in 1..Len(h) /\ s.dep \in Owns(s)
        BY <1>0, <2>1 DEF Owns
      <3>. QED
        BY <2>1, <3>1 DEF Obj, Differs
    <2>2. CASE s.dep = 0 /\ s.stack # <<>>
      <3>1. Last(s.stack) \in 1..Len(h) /\ Last(s.stack) \in Owns(s)
        BY <1>0, <2>2, LastAndFront DEF Owns
      <3>. QED
        BY <2>2, <3>1 DEF Obj, Differs
    <2>3. CASE s.dep = 0 /\ s.stack = <<>>
      BY <2>3 DEF Obj
    <2>. QED
      BY <2>1, <2>2, <2>3
  <1>2. /\ Obj(h, s).written \in [Keys -> Nat] /\ \A n \in Keys : Obj(h, s).written[n] <= Len(st)
    BY ObjKnown
  <1>3. s.callers = <<>> => Tells(Obj(h, s), s.ran, s.wrote, st2)
    BY <1>2, TellsLater DEF Good
  <1>. QED
    BY <1>1, <1>3 DEF Good

LEMMA SoundLater ==
  ASSUME NEW h \in Seq(Dependencies), NEW st, Len(st) \in Nat, Bounded(h, Len(st)),
         NEW h2, NEW st2, NEW M, Differs(h, h2, M), Grows(st, st2),
         NEW s, TypedThroughout(s, Len(h)), Sound(s, h, st), Owns(s) \cap M = {}, Lent(s) \cap M = {}
  PROVE  Sound(s, h2, st2)
  <1>1. Good(s, h2, st2)
    BY GoodLater DEF Sound, TypedThroughout
  <1>2. ASSUME NEW c \in Elems(s.callers)
        PROVE  Good(c, h2, st2)
    <2>1. Good(c, h, st) /\ c.dep # 0 /\ TypedState(c, Len(h)) /\ c.dep \in Lent(s)
      BY DEF Sound, TypedThroughout, Lent
    <2>2. Owns(c) \cap M = {}
      <3>1. c.stack = <<>> /\ Elems(c.stack) = {}
        BY <2>1, FewStates DEF Good, Single
      <3>. QED
        BY <2>1, <3>1 DEF Owns
    <2>. QED
      BY <2>1, <2>2, GoodLater
  <1>. QED
    BY <1>1, <1>2 DEF Sound

LEMMA SoundOpenLater ==
  ASSUME NEW h \in Seq(Dependencies), NEW st, Len(st) \in Nat, Bounded(h, Len(st)),
         NEW h2, NEW st2, NEW M, Differs(h, h2, M), Grows(st, st2),
         NEW ws, ws.stack \in Seq(1..Len(h)), SoundOpen(ws, h, st), Elems(ws.stack) \cap M = {}
  PROVE  SoundOpen(ws, h2, st2)
  <1>0. Len(h) \in Nat /\ DOMAIN h = 1..Len(h)
    OBVIOUS
  <1>. DEFINE o == RecordedIn(h, ws)
  <1>1. RecordedIn(h2, ws) = o /\ o.written \in [Keys -> Nat] /\ \A n \in Keys : o.written[n] <= Len(st)
    <2>1. CASE ws.stack # <<>>
      <3>1. ws.stack[1] \in 1..Len(h) /\ ws.stack[1] \in Elems(ws.stack)
        BY <2>1 DEF Elems
      <3>2. o = h[ws.stack[1]] /\ RecordedIn(h2, ws) = h2[ws.stack[1]]
        BY <2>1 DEF RecordedIn
      <3>3. h2[ws.stack[1]] = h[ws.stack[1]]
        BY <3>1 DEF Differs
      <3>. QED
        BY <1>0, <3>1, <3>2, <3>3, ObjectFacts DEF Bounded
    <2>2. CASE ws.stack = <<>>
      BY <2>2, NewDependencyFacts DEF RecordedIn
    <2>. QED
      BY <2>1, <2>2
  <1>. HIDE DEF o
  <1>2. Tells(o, ws.ran, ws.wrote, st2)
    BY <1>1, TellsLater DEF SoundOpen, o
  <1>. QED
    BY <1>1, <1>2 DEF SoundOpen
-------------------------------------------------------------------------------
(* A step of one state *)

\* The states of the work list after a push, and who may share with whom.
LEMMA PushedApart ==
  ASSUME NEW q, IsSequence(q), NEW p \in DOMAIN q, NEW states, IsSequence(states), NEW r,
         r = Pushed(q, p, states)
  PROVE  /\ \A s \in Elems(r) : s \in Elems(states) \/ \E i \in DOMAIN q : i # p /\ s = q[i]
         /\ (/\ AllApart(q) /\ AllApart(states)
             /\ \A i \in DOMAIN q : i # p => \A t \in Elems(states) : Apart(q[i], t) /\ Apart(t, q[i]))
              => AllApart(r)
  <1>. DEFINE T == Elems(q) \cup Elems(states)
              n == Len(q) - 1
              m == Len(states)
  <1>1. q \in Seq(T) /\ states \in Seq(T) /\ p \in 1..Len(q)
    <2>1. Elems(q) \subseteq T /\ Elems(states) \subseteq T
      OBVIOUS
    <2>2. q \in Seq(Elems(q)) /\ states \in Seq(Elems(states))
      BY DEF IsSequence
    <2>. HIDE DEF T
    <2>3. q \in Seq(T) /\ states \in Seq(T)
      BY <2>1, <2>2, SeqMonotonic
    <2>. QED
      BY <2>3
  <1>. HIDE DEF T
  <1>2. /\ n \in Nat /\ m \in Nat /\ DOMAIN q = 1..Len(q) /\ DOMAIN states = 1..m
    BY <1>1
  <1>3. /\ r \in Seq(T) /\ Len(r) = n + m
        /\ \A j \in 1..n : r[j] = q[Origin(p, j)] /\ Origin(p, j) \in 1..Len(q) /\ Origin(p, j) # p
        /\ \A j, k \in 1..n : j # k => Origin(p, j) # Origin(p, k)
        /\ \A j \in 1..m : r[n + j] = states[j]
    <2>1. r \in Seq(T) /\ InPlace(q, p, states, r)
      BY <1>1, PushedPositions
    <2>. QED
      BY <2>1 DEF InPlace
  <1>. HIDE DEF n, m
  <1>4. DOMAIN r = 1..(n + m)
    BY <1>3
  <1>5. ASSUME NEW j \in DOMAIN r
        PROVE  \/ j \in 1..n
               \/ \E a \in 1..m : j = n + a
    <2>1. CASE j <= n
      BY <1>2, <1>4, <2>1
    <2>2. CASE ~(j <= n)
      <3>1. j \in Int /\ j <= n + m
        BY <1>2, <1>4
      <3>2. j - n \in 1..m /\ j = n + (j - n)
        BY <1>2, <2>2, <3>1
      <3>. QED
        BY <3>2
    <2>. QED
      BY <2>1, <2>2
  <1>6. ASSUME NEW s \in Elems(r)
        PROVE  s \in Elems(states) \/ \E i \in DOMAIN q : i # p /\ s = q[i]
    <2>1. PICK j \in DOMAIN r : s = r[j]
      BY DEF Elems
    <2>2. CASE j \in 1..n
      BY <1>2, <1>3, <2>1, <2>2
    <2>3. CASE \E a \in 1..m : j = n + a
      BY <1>2, <1>3, <2>1, <2>3 DEF Elems
    <2>. QED
      BY <1>5, <2>2, <2>3
  <1>7. ASSUME AllApart(q), AllApart(states),
               \A i \in DOMAIN q : i # p => \A t \in Elems(states) : Apart(q[i], t) /\ Apart(t, q[i])
        PROVE  AllApart(r)
    <2> SUFFICES ASSUME NEW j \in DOMAIN r, NEW k \in DOMAIN r, j # k PROVE Apart(r[j], r[k])
      BY DEF AllApart
    <2>1. CASE j \in 1..n /\ k \in 1..n
      BY <1>2, <1>3, <1>7, <2>1 DEF AllApart
    <2>2. CASE j \in 1..n /\ \E a \in 1..m : k = n + a
      BY <1>2, <1>3, <1>7, <2>2 DEF Elems
    <2>3. CASE k \in 1..n /\ \E a \in 1..m : j = n + a
      BY <1>2, <1>3, <1>7, <2>3 DEF Elems
    <2>4. CASE (\E a \in 1..m : j = n + a) /\ (\E a \in 1..m : k = n + a)
      <3>1. PICK a \in 1..m, b \in 1..m : j = n + a /\ k = n + b
        BY <2>4
      <3>2. a # b
        BY <3>1
      <3>. QED
        BY <1>2, <1>3, <1>7, <3>1, <3>2 DEF AllApart
    <2>. QED
      BY <1>5, <2>1, <2>2, <2>3, <2>4
  <1>. QED
    BY <1>6, <1>7

LEMMA WorldStatesLater ==
  ASSUME NEW n \in Nat, NEW m \in Nat, n <= m, NEW q \in Seq(WorldStates(n))
  PROVE  q \in Seq(WorldStates(m))
  <1>1. 1..n \subseteq 1..m
    OBVIOUS
  <1>2. Seq(1..n) \subseteq Seq(1..m)
    BY <1>1, SeqMonotonic
  <1>3. WorldStates(n) \subseteq WorldStates(m)
    BY <1>2 DEF WorldStates
  <1>. QED
    BY <1>3, SeqMonotonic

LEMMA PoppedTyped ==
  ASSUME PotentialIssues, Types, work # <<>>
  PROVE  /\ Position \in DOMAIN work /\ Popped \in Elems(work) /\ TypedThroughout(Popped, Len(objs))
         /\ TypedState(Popped, Len(objs)) /\ BackedThroughout(Popped, lists) /\ Len(objs) \in Nat
         /\ Len(sets) \in Nat
  BY PoppedBacked DEF Types, Popped, Elems, TypedThroughout

LEMMA OpenTyped ==
  ASSUME Types, NEW k \in DOMAIN open
  PROVE  /\ open[k] \in WorldStates(Len(objs)) /\ open[k].stack \in Seq(1..Len(objs))
         /\ open[k].ran \in Seq(Names) /\ open[k].wrote \in Seq(SUBSET Slots)
  <1>1. open[k] \in WorldStates(Len(objs))
    <2>1. open \in Seq(WorldStates(Len(objs)))
      BY DEF Types
    <2>. QED
      BY <2>1
  <1>. QED
    BY <1>1 DEF WorldStates

\* Types are kept when typed states and typed world states are added.
LEMMA TypesContinued ==
  ASSUME PotentialIssues, Types, work # <<>>, NEW states, IsSequence(states), Push(states),
         objs' \in Seq(Dependencies), Len(objs) <= Len(objs'),
         sets' \in Seq(SUBSET Slots), Bounded(objs', Len(sets')),
         \A t \in Elems(states) : TypedThroughout(t, Len(objs')),
         open' \in Seq(WorldStates(Len(objs'))), cache' \subseteq Sites,
         search' = search, iteration' = iteration, hooked' \in 0..MaxHooked
  PROVE  Types'
  <1>1. Elems(work') \subseteq Elems(work) \cup Elems(states)
    BY PoppedTyped, PushedStates DEF Push, PotentialIssues
  <1>2. Len(objs) \in Nat /\ Len(objs') \in Nat
    BY DEF Types
  <1>3. \A s \in Elems(work) : TypedThroughout(s, Len(objs'))
    BY <1>2, TypedLater DEF Types, TypedThroughout
  <1>4. \A s \in Elems(work') : TypedThroughout(s, Len(objs'))
    BY <1>1, <1>3
  <1>. QED
    BY <1>4 DEF Types

Mine(M) == M \subseteq Owns(Popped) /\ (Popped.behind = "no" \/ M = {})

\* The objects of the popped state are not those of the others, unless it is behind a fork.
LEMMA MineAlone ==
  ASSUME PotentialIssues, Types, History, work # <<>>,
         NEW M, Mine(M)
  PROVE  /\ \A i \in DOMAIN work : i # Position => Owns(work[i]) \cap M = {}
         /\ \A s \in Elems(work) : Lent(s) \cap M = {}
         /\ \A k \in DOMAIN open : Elems(open[k].stack) \cap M = {}
         /\ M \subseteq 1..Len(objs)
  <1>1. Position \in DOMAIN work /\ Popped \in Elems(work) /\ Popped = work[Position]
    BY PoppedTyped DEF Popped
  <1>2. ASSUME NEW i \in DOMAIN work, i # Position PROVE Owns(work[i]) \cap M = {}
    <2>1. Apart(work[i], Popped)
      BY <1>1, <1>2 DEF History, Sharing, AllApart
    <2>. QED
      BY <2>1 DEF Apart, Mine
  <1>3. \A s \in Elems(work) : Lent(s) \cap M = {}
    BY <1>1 DEF History, Sharing, Mine
  <1>4. \A k \in DOMAIN open : Elems(open[k].stack) \cap M = {}
    BY <1>1 DEF History, Sharing, Mine
  <1>5. M \subseteq 1..Len(objs)
    BY PoppedTyped, OwnsInHeap DEF Mine
  <1>. QED
    BY <1>2, <1>3, <1>4, <1>5

\* Whoever does not step keeps what the step does not touch.
LEMMA OthersKeep ==
  ASSUME PotentialIssues, Types, History, work # <<>>,
         NEW M, Mine(M), Differs(objs, objs', M), Grows(sets, sets')
  PROVE  /\ \A i \in DOMAIN work : i # Position => Sound(work[i], objs', sets')
         /\ \A k \in DOMAIN open : SoundOpen(open[k], objs', sets')
  <1>1. Len(sets) \in Nat /\ Bounded(objs, Len(sets)) /\ objs \in Seq(Dependencies)
    BY DEF Types
  <1>2. ASSUME NEW i \in DOMAIN work, i # Position PROVE Sound(work[i], objs', sets')
    <2>1. work[i] \in Elems(work)
      BY DEF Elems
    <2>2. Owns(work[i]) \cap M = {} /\ Lent(work[i]) \cap M = {}
      BY <1>2, <2>1, MineAlone
    <2>. QED
      BY <1>1, <2>1, <2>2, SoundLater DEF Types, History
  <1>3. ASSUME NEW k \in DOMAIN open PROVE SoundOpen(open[k], objs', sets')
    <2>1. open[k].stack \in Seq(1..Len(objs))
      BY OpenTyped
    <2>. QED
      BY <1>1, <2>1, MineAlone, SoundOpenLater DEF History
  <1>. QED
    BY <1>2, <1>3

Fresh(h, h2) == (Len(h) + 1)..Len(h2)

\* What is pushed for the popped state owns objects of M and new ones.
NewStates(states, M, h2) ==
  /\ IsSequence(states) /\ Push(states) /\ AllApart(states)
  /\ \A t \in Elems(states) : /\ Owns(t) \subseteq M \cup Fresh(objs, h2)
                               /\ Lent(t) \subseteq Lent(Popped) \cup M \cup Fresh(objs, h2)
  /\ \A t, u \in Elems(states) : Lent(t) \cap Owns(u) = {}

\* Of the new states, none holds what another state holds, or what it has lent.
LEMMA WorkShares ==
  ASSUME PotentialIssues, Types, History, work # <<>>,
         NEW M, Mine(M), NEW h2, Len(h2) \in Nat, NEW states, NewStates(states, M, h2)
  PROVE  /\ AllApart(work')
         /\ \A s, t \in Elems(work') : Lent(s) \cap Owns(t) = {}
         /\ \A k \in DOMAIN open : \A s \in Elems(work') : Elems(open[k].stack) \cap (Owns(s) \cup Lent(s)) = {}
         /\ \A s \in Elems(work') : s \in Elems(states) \/ \E i \in DOMAIN work : i # Position /\ s = work[i]
  <1>0. Position \in DOMAIN work /\ IsSequence(work) /\ Popped \in Elems(work) /\ Len(objs) \in Nat
    BY PoppedTyped DEF PotentialIssues
  <1>1. /\ \A i \in DOMAIN work : i # Position => Owns(work[i]) \cap M = {}
        /\ \A s \in Elems(work) : Lent(s) \cap M = {}
        /\ \A k \in DOMAIN open : Elems(open[k].stack) \cap M = {}
        /\ M \subseteq 1..Len(objs)
    BY MineAlone
  <1>2. \A n \in 1..Len(objs) : n \notin Fresh(objs, h2)
    BY <1>0 DEF Fresh
  <1>3. \A s \in Elems(work) : Owns(s) \subseteq 1..Len(objs) /\ Lent(s) \cap Fresh(objs, h2) = {}
    <2> SUFFICES ASSUME NEW s \in Elems(work)
                 PROVE  Owns(s) \subseteq 1..Len(objs) /\ Lent(s) \cap Fresh(objs, h2) = {}
      OBVIOUS
    <2>1. TypedThroughout(s, Len(objs))
      BY DEF Types
    <2>2. \A c \in Elems(s.callers) : c.dep \in 0..Len(objs)
      BY <2>1 DEF TypedThroughout, TypedState
    <2>3. \A n \in 0..Len(objs) : n \notin Fresh(objs, h2)
      BY <1>0 DEF Fresh
    <2>. QED
      BY <1>0, <2>1, <2>2, <2>3, OwnsInHeap DEF Lent, TypedThroughout
  <1>4. \A k \in DOMAIN open : Elems(open[k].stack) \subseteq 1..Len(objs)
    <2> SUFFICES ASSUME NEW k \in DOMAIN open PROVE Elems(open[k].stack) \subseteq 1..Len(objs)
      OBVIOUS
    <2>1. open[k].stack \in Seq(1..Len(objs))
      BY OpenTyped
    <2>. QED
      BY <2>1 DEF Elems
  <1>5. \A i \in DOMAIN work : work[i] \in Elems(work)
    BY DEF Elems
  <1>6. ASSUME NEW i \in DOMAIN work, i # Position, NEW t \in Elems(states)
        PROVE  /\ Owns(work[i]) \cap Owns(t) = {}
               /\ Lent(work[i]) \cap Owns(t) = {} /\ Lent(t) \cap Owns(work[i]) = {}
    <2>1. Owns(work[i]) \cap Owns(t) = {}
      BY <1>1, <1>2, <1>3, <1>5, <1>6 DEF NewStates
    <2>2. Lent(work[i]) \cap Owns(t) = {}
      BY <1>1, <1>3, <1>5, <1>6 DEF NewStates
    <2>3. Lent(Popped) \cap Owns(work[i]) = {}
      BY <1>0, <1>5 DEF History, Sharing
    <2>4. Lent(t) \cap Owns(work[i]) = {}
      BY <1>1, <1>2, <1>3, <1>5, <1>6, <2>3 DEF NewStates
    <2>. QED
      BY <2>1, <2>2, <2>4
  <1>61. work' = Pushed(work, Position, states)
    BY DEF Push, Pushed, NewStates
  <1>7. \A s \in Elems(work') : s \in Elems(states) \/ \E i \in DOMAIN work : i # Position /\ s = work[i]
    BY <1>0, <1>61, PushedApart DEF NewStates
  <1>8. AllApart(work')
    <2>1. \A i \in DOMAIN work : i # Position => \A t \in Elems(states) : Apart(work[i], t) /\ Apart(t, work[i])
      BY <1>6 DEF Apart
    <2>. QED
      <3>1. AllApart(work) /\ AllApart(states) /\ IsSequence(states)
        BY DEF History, Sharing, NewStates
      <3>. QED
        BY <1>0, <1>61, <2>1, <3>1, PushedApart
  <1>9. ASSUME NEW s \in Elems(work'), NEW t \in Elems(work') PROVE Lent(s) \cap Owns(t) = {}
    <2>1. CASE s \in Elems(states) /\ t \in Elems(states)
      BY <2>1 DEF NewStates
    <2>2. CASE s \in Elems(states) /\ t \notin Elems(states)
      BY <1>6, <1>7, <2>2
    <2>3. CASE s \notin Elems(states) /\ t \in Elems(states)
      BY <1>6, <1>7, <2>3
    <2>4. CASE s \notin Elems(states) /\ t \notin Elems(states)
      BY <1>5, <1>7, <2>4 DEF History, Sharing
    <2>. QED
      BY <2>1, <2>2, <2>3, <2>4
  <1>10. ASSUME NEW k \in DOMAIN open, NEW s \in Elems(work')
         PROVE  Elems(open[k].stack) \cap (Owns(s) \cup Lent(s)) = {}
    <2>1. CASE s \in Elems(states)
      <3>1. Elems(open[k].stack) \cap Lent(Popped) = {}
        BY <1>0 DEF History, Sharing
      <3>. QED
        BY <1>1, <1>2, <1>4, <2>1, <3>1 DEF NewStates
    <2>2. CASE s \notin Elems(states)
      BY <1>5, <1>7, <2>2 DEF History, Sharing
    <2>. QED
      BY <2>1, <2>2
  <1>. QED
    BY <1>7, <1>8, <1>9, <1>10

\* A step that replaces the popped state.
LEMMA HistoryContinued ==
  ASSUME PotentialIssues, Types, History, work # <<>>,
         NEW M, Mine(M), Differs(objs, objs', M), Grows(sets, sets'), open' = open,
         NEW states, NewStates(states, M, objs'), \A t \in Elems(states) : Sound(t, objs', sets')
  PROVE  History'
  <1>1. Len(objs') \in Nat
    BY DEF Differs
  <1>2. /\ AllApart(work')
        /\ \A s, t \in Elems(work') : Lent(s) \cap Owns(t) = {}
        /\ \A k \in DOMAIN open : \A s \in Elems(work') : Elems(open[k].stack) \cap (Owns(s) \cup Lent(s)) = {}
        /\ \A s \in Elems(work') : s \in Elems(states) \/ \E i \in DOMAIN work : i # Position /\ s = work[i]
    BY <1>1, WorkShares
  <1>3. /\ \A i \in DOMAIN work : i # Position => Sound(work[i], objs', sets')
        /\ \A k \in DOMAIN open : SoundOpen(open[k], objs', sets')
    BY OthersKeep
  <1>4. \A s \in Elems(work') : Sound(s, objs', sets')
    BY <1>2, <1>3
  <1>5. Sharing'
    BY <1>2 DEF Sharing, History
  <1>. QED
    BY <1>3, <1>4, <1>5 DEF History

\* A step that ends the transaction of the popped state.
LEMMA HistoryEnded ==
  ASSUME PotentialIssues, Types, History, work # <<>>, Popped.behind = "no",
         NEW M, Mine(M), Differs(objs, objs', M), Grows(sets, sets'), Push(<<>>),
         NEW ws \in WorldStates(Len(objs')), open' = Append(open, ws), open \in Seq(WorldStates(Len(objs'))),
         SoundOpen(ws, objs', sets'), Elems(ws.stack) \subseteq M \cup Fresh(objs, objs')
  PROVE  History'
  <1>1. Len(objs') \in Nat /\ Len(objs) \in Nat
    BY DEF Differs, Types
  <1>2. NewStates(<<>>, M, objs') /\ Elems(<<>>) = {}
    BY FewStates DEF AllApart, NewStates
  <1>3. /\ AllApart(work')
        /\ \A s, t \in Elems(work') : Lent(s) \cap Owns(t) = {}
        /\ \A k \in DOMAIN open : \A s \in Elems(work') : Elems(open[k].stack) \cap (Owns(s) \cup Lent(s)) = {}
        /\ \A s \in Elems(work') : \E i \in DOMAIN work : i # Position /\ s = work[i]
    BY <1>1, <1>2, WorkShares
  <1>4. /\ \A i \in DOMAIN work : i # Position => Sound(work[i], objs', sets')
        /\ \A k \in DOMAIN open : SoundOpen(open[k], objs', sets')
    BY OthersKeep
  <1>5. /\ \A i \in DOMAIN work : i # Position => Owns(work[i]) \cap M = {}
        /\ \A s \in Elems(work) : Lent(s) \cap M = {}
        /\ \A k \in DOMAIN open : Elems(open[k].stack) \cap M = {}
    BY MineAlone
  <1>6. \A n \in 0..Len(objs) : n \notin Fresh(objs, objs')
    BY <1>1 DEF Fresh
  <1>7. \A i \in DOMAIN work : work[i] \in Elems(work)
    BY DEF Elems
  <1>8. \A s \in Elems(work) : (Owns(s) \cup Lent(s)) \cap Fresh(objs, objs') = {}
    <2> SUFFICES ASSUME NEW s \in Elems(work) PROVE (Owns(s) \cup Lent(s)) \cap Fresh(objs, objs') = {}
      OBVIOUS
    <2>1. TypedThroughout(s, Len(objs))
      BY DEF Types
    <2>2. \A c \in Elems(s.callers) : c.dep \in 0..Len(objs)
      BY <2>1 DEF TypedThroughout, TypedState
    <2>3. Owns(s) \subseteq 1..Len(objs) /\ 1..Len(objs) \subseteq 0..Len(objs)
      BY <1>1, <2>1, OwnsInHeap DEF TypedThroughout
    <2>. QED
      BY <1>6, <2>2, <2>3 DEF Lent
  <1>9. \A k \in DOMAIN open : Elems(open[k].stack) \cap Elems(ws.stack) = {}
    <2> SUFFICES ASSUME NEW k \in DOMAIN open PROVE Elems(open[k].stack) \cap Elems(ws.stack) = {}
      OBVIOUS
    <2>1. open[k].stack \in Seq(1..Len(objs))
      BY OpenTyped
    <2>2. Elems(open[k].stack) \subseteq 0..Len(objs)
      BY <2>1 DEF Elems
    <2>. QED
      BY <1>5, <1>6, <2>2
  <1>10. \A s \in Elems(work') : Elems(ws.stack) \cap (Owns(s) \cup Lent(s)) = {}
    BY <1>3, <1>5, <1>7, <1>8
  <1>. DEFINE n == Len(open) + 1
  <1>11. /\ DOMAIN open' = 1..n /\ DOMAIN open = 1..Len(open) /\ Len(open) \in Nat
         /\ open'[n] = ws /\ \A k \in 1..Len(open) : open'[k] = open[k]
    BY AppendProperties
  <1>12. \A k \in DOMAIN open' : k \in DOMAIN open \/ k = n
    BY <1>11
  <1>. HIDE DEF n
  <1>13. \A k \in DOMAIN open' : SoundOpen(open'[k], objs', sets')
    BY <1>4, <1>11, <1>12
  <1>14. \A k \in DOMAIN open' : \A s \in Elems(work') : Elems(open'[k].stack) \cap (Owns(s) \cup Lent(s)) = {}
    BY <1>3, <1>10, <1>11, <1>12
  <1>15. \A j, k \in DOMAIN open' : j # k => Elems(open'[j].stack) \cap Elems(open'[k].stack) = {}
    <2> SUFFICES ASSUME NEW j \in DOMAIN open', NEW k \in DOMAIN open', j # k
                 PROVE  Elems(open'[j].stack) \cap Elems(open'[k].stack) = {}
      OBVIOUS
    <2>1. CASE j \in DOMAIN open /\ k \in DOMAIN open
      BY <1>11, <2>1 DEF History, Sharing
    <2>2. CASE j \in DOMAIN open /\ k = n
      BY <1>9, <1>11, <2>2
    <2>3. CASE j = n /\ k \in DOMAIN open
      BY <1>9, <1>11, <2>3
    <2>. QED
      BY <1>12, <2>1, <2>2, <2>3
  <1>16. \A s \in Elems(work') : Sound(s, objs', sets')
    BY <1>3, <1>4
  <1>. QED
    BY <1>3, <1>13, <1>14, <1>15, <1>16 DEF History, Sharing
-------------------------------------------------------------------------------
(* Steps that go on with the same transaction *)

\* t goes on where s stands: on its annotation, with its callers and its history.
GoesOn(h, s, h2, t) ==
  /\ Extends(h, h2)
  /\ TypedState(t, Len(h2))
  /\ Obj(h2, t) = Obj(h, s)
  /\ Owns(t) \subseteq Owns(s) \cup Fresh(h, h2)
  /\ Single(s) => Single(t)
  /\ s.stack = <<>> => t.stack = <<>>
  /\ t.own = s.own /\ t.callers = s.callers /\ t.ran = s.ran /\ t.wrote = s.wrote

\* It does so after copies and hooks, whatever becomes of what the annotation is not about.
LEMMA FollowsGoesOn ==
  ASSUME NEW h, NEW s, NEW h2, NEW t, Follows(h, s, h2, t), NEW u, DOMAIN u = Fields,
         u.dep = t.dep, u.stack = t.stack, u.own = t.own, u.callers = t.callers,
         u.ran = t.ran, u.wrote = t.wrote, u.fn \in Names
  PROVE  GoesOn(h, s, h2, u)
  <1>1. Owns(u) = Owns(t) /\ (Single(u) <=> Single(t)) /\ Obj(h2, u) = Obj(h2, t)
    BY SameHold
  <1>2. TypedState(u, Len(h2))
    BY DEF Follows, TypedState
  <1>. QED
    BY <1>1, <1>2 DEF Follows, GoesOn, Fresh

\* Callers are typed, and sound, in an extended heap.
LEMMA GoesOnTyped ==
  ASSUME NEW h, NEW s, NEW h2, NEW t, Len(h) \in Nat, TypedThroughout(s, Len(h)), GoesOn(h, s, h2, t)
  PROVE  TypedThroughout(t, Len(h2))
  <1>1. Len(h2) \in Nat /\ Len(h) <= Len(h2)
    BY DEF GoesOn, Extends
  <1>2. \A c \in Elems(s.callers) : TypedState(c, Len(h2))
    BY <1>1, TypedLater DEF TypedThroughout
  <1>. QED
    BY <1>2 DEF TypedThroughout, GoesOn

LEMMA ExtendsDiffers ==
  ASSUME NEW h, NEW h2, Extends(h, h2)
  PROVE  \A M : Differs(h, h2, M)
  BY DEF Extends, Differs

LEMMA SetsStay == ASSUME NEW st, Len(st) \in Nat PROVE Grows(st, st)
  BY DEF Grows

LEMMA GoesOnSound ==
  ASSUME NEW h \in Seq(Dependencies), NEW st, Len(st) \in Nat, Bounded(h, Len(st)),
         NEW s, NEW h2, NEW t, TypedThroughout(s, Len(h)), GoesOn(h, s, h2, t), Sound(s, h, st),
         t.behind # "no" => t.dep # 0
  PROVE  Sound(t, h2, st)
  <1>1. Sound(s, h2, st)
    <2>1. Differs(h, h2, {}) /\ Grows(st, st)
      BY ExtendsDiffers, SetsStay DEF GoesOn
    <2>2. Owns(s) \cap {} = {} /\ Lent(s) \cap {} = {}
      OBVIOUS
    <2>. QED
      BY <2>1, <2>2, SoundLater
  <1>2. Good(t, h2, st)
    BY DEF GoesOn, Sound, Good
  <1>. QED
    BY <1>1, <1>2 DEF GoesOn, Sound

LEMMA BoundedLater ==
  ASSUME NEW h \in Seq(Dependencies), NEW m \in Nat, Bounded(h, m), NEW h2, Extends(h, h2)
  PROVE  Bounded(h2, m)
  <1> SUFFICES ASSUME NEW k \in DOMAIN h2, NEW n \in Keys PROVE h2[k].written[n] <= m
    BY DEF Bounded
  <1>1. DOMAIN h2 = 1..Len(h2) /\ DOMAIN h = 1..Len(h)
    BY DEF Extends
  <1>2. h2[k] = NewDependency \/ \E j \in 1..Len(h) : h2[k] = h[j]
    BY <1>1 DEF Extends
  <1>. QED
    BY <1>1, <1>2, NewDependencyFacts DEF Bounded

\* The popped state gives way to states that go on where it stands.
LEMMA Stepped ==
  ASSUME PotentialIssues, Types, work # <<>>, NEW states, IsSequence(states), Push(states),
         Extends(objs, objs'), \A t \in Elems(states) : GoesOn(objs, Popped, objs', t),
         sets' = sets, open' = open, cache' = cache, search' = search, iteration' = iteration,
         hooked' \in 0..MaxHooked
  PROVE  /\ Types'
         /\ (/\ History /\ AllApart(states)
             /\ \A t \in Elems(states) : t.behind # "no" => t.dep # 0
             /\ Popped.behind = "no" \/ \A t \in Elems(states) : Owns(t) \subseteq Fresh(objs, objs'))
              => History'
  <1>1. /\ TypedThroughout(Popped, Len(objs)) /\ Len(objs) \in Nat /\ Len(sets) \in Nat
        /\ Popped \in Elems(work) /\ objs \in Seq(Dependencies) /\ Bounded(objs, Len(sets))
    BY PoppedTyped DEF Types
  <1>2. \A t \in Elems(states) : TypedThroughout(t, Len(objs'))
    BY <1>1, GoesOnTyped
  <1>3. objs' \in Seq(Dependencies) /\ Len(objs) <= Len(objs') /\ Len(objs') \in Nat
    BY DEF Extends
  <1>4. Bounded(objs', Len(sets'))
    BY <1>1, BoundedLater
  <1>5. open' \in Seq(WorldStates(Len(objs')))
    BY <1>1, <1>3, WorldStatesLater DEF Types
  <1>6. Types'
    BY <1>2, <1>3, <1>4, <1>5, TypesContinued DEF Types
  <1>7. ASSUME History, AllApart(states), \A t \in Elems(states) : t.behind # "no" => t.dep # 0,
               NEW M, Mine(M), \A t \in Elems(states) : Owns(t) \subseteq M \cup Fresh(objs, objs')
        PROVE  History'
    <2>1. Sound(Popped, objs, sets)
      BY <1>1, <1>7 DEF History
    <2>2. \A t \in Elems(states) : Sound(t, objs', sets')
      BY <1>1, <1>7, <2>1, GoesOnSound
    <2>3. \A t \in Elems(states) : Lent(t) = Lent(Popped)
      BY DEF GoesOn, Lent
    <2>4. Lent(Popped) \cap Owns(Popped) = {}
      BY <1>1, <1>7 DEF History, Sharing
    <2>5. Lent(Popped) \cap Fresh(objs, objs') = {}
      <3>1. \A c \in Elems(Popped.callers) : c.dep \in 0..Len(objs)
        BY <1>1 DEF TypedThroughout, TypedState
      <3>2. \A n \in 0..Len(objs) : n \notin Fresh(objs, objs')
        BY <1>1, <1>3 DEF Fresh
      <3>. QED
        BY <3>1, <3>2 DEF Lent
    <2>6. \A t, u \in Elems(states) : Lent(t) \cap Owns(u) = {}
      BY <2>3, <2>4, <2>5 DEF GoesOn
    <2>7. NewStates(states, M, objs')
      BY <1>7, <2>3, <2>6 DEF NewStates
    <2>8. Differs(objs, objs', M) /\ Grows(sets, sets')
      BY <1>1, ExtendsDiffers, SetsStay
    <2>. QED
      BY <1>7, <2>2, <2>7, <2>8, HistoryContinued
  <1>8. ASSUME History, AllApart(states), \A t \in Elems(states) : t.behind # "no" => t.dep # 0,
               Popped.behind = "no"
        PROVE  History'
    <2>1. Mine(Owns(Popped))
      BY <1>8 DEF Mine
    <2>2. \A t \in Elems(states) : Owns(t) \subseteq Owns(Popped) \cup Fresh(objs, objs')
      BY DEF GoesOn
    <2>. QED
      BY <1>7, <1>8, <2>1, <2>2
  <1>9. ASSUME History, AllApart(states), \A t \in Elems(states) : t.behind # "no" => t.dep # 0,
               \A t \in Elems(states) : Owns(t) \subseteq Fresh(objs, objs')
        PROVE  History'
    <2>1. Mine({})
      BY DEF Mine
    <2>2. \A t \in Elems(states) : Owns(t) \subseteq {} \cup Fresh(objs, objs')
      BY <1>9
    <2>. QED
      BY <1>7, <1>9, <2>1, <2>2
  <1>. QED
    BY <1>6, <1>8, <1>9

LEMMA FewApart ==
  /\ AllApart(<<>>)
  /\ \A s : AllApart(<<s>>)
  /\ \A s, t : s.behind # "no" /\ t.behind # "no" => AllApart(<<s, t>>)
  <1>1. AllApart(<<>>) /\ \A s : AllApart(<<s>>)
    BY DEF AllApart
  <1>2. ASSUME NEW s, NEW t, s.behind # "no", t.behind # "no"
        PROVE  AllApart(<<s, t>>)
    <2>1. DOMAIN <<s, t>> = {1, 2} /\ <<s, t>>[1] = s /\ <<s, t>>[2] = t
      OBVIOUS
    <2>2. Apart(s, t) /\ Apart(t, s)
      BY <1>2 DEF Apart
    <2>. QED
      BY <2>1, <2>2 DEF AllApart
  <1>. QED
    BY <1>1, <1>2

LEMMA Counted ==
  ASSUME Types, Count \/ hooked' = hooked
  PROVE  hooked' \in 0..MaxHooked
  BY AnnotationAssumption DEF Types, Count, AnnotationAssumption

\* One state goes on, on a heap that was extended.
LEMMA SteppedOne ==
  ASSUME PotentialIssues, Types, work # <<>>, NEW t, Push(<<t>>), GoesOn(objs, Popped, objs', t),
         sets' = sets, open' = open, cache' = cache, search' = search, iteration' = iteration,
         hooked' \in 0..MaxHooked
  PROVE  /\ Types'
         /\ (/\ History /\ (t.behind # "no" => t.dep # 0)
             /\ Popped.behind = "no" \/ Owns(t) \subseteq Fresh(objs, objs'))
              => History'
  <1>1. IsSequence(<<t>>) /\ Elems(<<t>>) = {t} /\ AllApart(<<t>>)
    BY FewStates, FewApart
  <1>2. Extends(objs, objs')
    BY DEF GoesOn
  <1>3. \A u \in Elems(<<t>>) : GoesOn(objs, Popped, objs', u)
    BY <1>1
  <1>. DEFINE states == <<t>>
  <1>4. IsSequence(states) /\ Push(states) /\ Elems(states) = {t} /\ AllApart(states)
    BY <1>1
  <1>. HIDE DEF states
  <1>. QED
    BY <1>2, <1>3, <1>4, Stepped

\* What others do to the heap leaves a state where it is.
LEMMA FollowsLater ==
  ASSUME NEW h, NEW s, NEW h2, NEW t, NEW h3, Len(h) \in Nat,
         Follows(h, s, h2, t), Extends(h2, h3)
  PROVE  Follows(h, s, h3, t)
  <1>1. Extends(h, h2) /\ Extends(h, h3)
    BY ExtendsTwice DEF Follows
  <1>2. Len(h) <= Len(h2) /\ Len(h2) <= Len(h3) /\ Len(h2) \in Nat /\ Len(h3) \in Nat
    BY <1>1 DEF Extends
  <1>3. TypedState(t, Len(h2)) /\ TypedState(t, Len(h3))
    BY <1>2, TypedLater DEF Follows
  <1>4. Obj(h3, t) = Obj(h2, t)
    <2>1. t.dep \in 0..Len(h2) /\ t.stack \in Seq(1..Len(h2))
      BY <1>3 DEF TypedState
    <2>2. t.stack # <<>> => Last(t.stack) \in 1..Len(h2)
      BY <1>2, <2>1, LastAndFront
    <2>. QED
      BY <2>1, <2>2 DEF Obj, Extends
  <1>5. (Len(h) + 1)..Len(h2) \subseteq (Len(h) + 1)..Len(h3)
    BY <1>2
  <1>. QED
    BY <1>1, <1>3, <1>4, <1>5 DEF Follows

LEMMA PlainKeeps ==
  ASSUME PotentialIssues, Types, Plain
  PROVE  Types' /\ (History => History')
  <1>1. /\ work # <<>> /\ Popped.behind # "no" /\ hooked' = hooked
        /\ sets' = sets /\ open' = open /\ cache' = cache /\ search' = search /\ iteration' = iteration
    BY DEF Plain, Running, issueVars
  <1>2. hooked' \in 0..MaxHooked /\ objs \in Seq(Dependencies)
    BY <1>1, Counted DEF Types
  <1>3. TypedState(Popped, Len(objs)) /\ Popped \in Elems(work)
    BY <1>1, PoppedTyped
  <1>. DEFINE c == Copied(objs, Popped)
              t == [c[2] EXCEPT !.behind = "no"]
  <1>4. objs' = c[1] /\ Push(<<t>>)
    BY DEF Plain
  <1>5. /\ Follows(objs, Popped, c[1], c[2])
        /\ Popped.dep # 0 => c[2].dep = Len(objs) + 1 /\ c[2].stack = Popped.stack
    BY <1>2, <1>3, CopiedFollows
  <1>. HIDE DEF c
  <1>6. /\ DOMAIN t = Fields /\ t.dep = c[2].dep /\ t.stack = c[2].stack /\ t.own = c[2].own
        /\ t.callers = c[2].callers /\ t.ran = c[2].ran /\ t.wrote = c[2].wrote /\ t.fn = c[2].fn
        /\ t.behind = "no" /\ c[2].fn \in Names /\ Extends(objs, c[1])
    BY <1>5 DEF Follows, TypedState, Fields
  <1>. HIDE DEF t
  <1>7. GoesOn(objs, Popped, objs', t)
    BY <1>4, <1>5, <1>6, FollowsGoesOn
  <1>8. ASSUME History PROVE Owns(t) \subseteq Fresh(objs, objs')
    <2>1. Popped.dep # 0 /\ Popped.stack = <<>>
      BY <1>1, <1>3, <1>8 DEF History, Sound, Good, Single
    <2>2. t.dep = Len(objs) + 1 /\ t.stack = <<>> /\ Elems(t.stack) = {}
      BY <1>5, <1>6, <2>1, FewStates
    <2>3. t.dep \in Nat /\ t.dep <= Len(objs') /\ Len(objs) \in Nat /\ Len(objs') \in Nat
      BY <1>2, <1>7 DEF GoesOn, TypedState, Extends
    <2>. QED
      BY <2>2, <2>3 DEF Owns, Fresh
  <1>. QED
    BY <1>1, <1>2, <1>4, <1>6, <1>7, <1>8, SteppedOne

LEMMA JumpKeeps ==
  ASSUME PotentialIssues, Types, Jump
  PROVE  Types' /\ (History => History')
  <1>1. /\ work # <<>> /\ Popped.behind = "no" /\ hooked' = hooked
        /\ sets' = sets /\ open' = open /\ cache' = cache /\ search' = search /\ iteration' = iteration
    BY DEF Jump, Free, Running, issueVars
  <1>2. hooked' \in 0..MaxHooked /\ objs \in Seq(Dependencies)
    BY <1>1, Counted DEF Types
  <1>3. TypedState(Popped, Len(objs)) /\ Len(objs) \in Nat
    BY <1>1, PoppedTyped
  <1>. DEFINE c == Copied(objs, Popped)
              d == Dependency(c[1], c[2])
              t == d[2]
  <1>4. objs' = d[1] /\ Push(<<t>>)
    BY DEF Jump
  <1>5. Follows(objs, Popped, c[1], c[2])
    BY <1>2, <1>3, CopiedFollows
  <1>. HIDE DEF c
  <1>6. Follows(c[1], c[2], d[1], d[2]) /\ d[2].dep # 0
    BY <1>5, DependencyFollows DEF Follows, Extends
  <1>. HIDE DEF d
  <1>7. Follows(objs, Popped, d[1], d[2])
    BY <1>3, <1>5, <1>6, FollowsTwice
  <1>8. GoesOn(objs, Popped, objs', t)
    <2>1. DOMAIN t = Fields /\ t.fn \in Names
      BY <1>7 DEF Follows, TypedState
    <2>. QED
      BY <1>4, <1>7, <2>1, FollowsGoesOn
  <1>. QED
    BY <1>1, <1>2, <1>4, <1>6, <1>8, SteppedOne

LEMMA JumpiKeeps ==
  ASSUME PotentialIssues, Types, Jumpi
  PROVE  Types' /\ (History => History')
  <1>1. /\ work # <<>> /\ Popped.behind = "no" /\ Count
        /\ sets' = sets /\ open' = open /\ cache' = cache /\ search' = search /\ iteration' = iteration
    BY DEF Jumpi, Free, Running, issueVars
  <1>2. hooked' \in 0..MaxHooked /\ objs \in Seq(Dependencies)
    BY <1>1, Counted DEF Types
  <1>3. TypedState(Popped, Len(objs)) /\ Len(objs) \in Nat /\ Popped.fn \in Names
    BY <1>1, PoppedTyped DEF TypedState
  <1>. DEFINE c1 == Copied(objs, Popped)
              c2 == Copied(c1[1], Popped)
              d1 == Dependency(c2[1], c1[2])
              d2 == Dependency(d1[1], c2[2])
  <1>4. PICK f \in IF Popped.fn = Fallback THEN Functions \cup {Fallback} ELSE {Popped.fn} :
          /\ objs' = d2[1]
          /\ Push(<<[d1[2] EXCEPT !.behind = "fork"],
                    [d2[2] EXCEPT !.behind = "dest", !.fn = f]>>)
    BY Zenon DEF Jumpi
  <1>5. f \in Names
    BY <1>3, <1>4 DEF Names
  <1>6. Follows(objs, Popped, c1[1], c1[2]) /\ Extends(objs, c1[1])
    BY <1>2, <1>3, CopiedFollows DEF Follows
  <1>. HIDE DEF c1
  <1>7. Follows(objs, Popped, c1[1], Popped) /\ TypedState(Popped, Len(c1[1]))
    <2>1. Follows(objs, Popped, objs, Popped)
      BY <1>2, <1>3, FollowsSelf
    <2>2. Follows(objs, Popped, c1[1], Popped)
      BY <1>2, <1>3, <1>6, <2>1, FollowsLater
    <2>. QED
      BY <2>2 DEF Follows
  <1>8. Follows(c1[1], Popped, c2[1], c2[2]) /\ Extends(c1[1], c2[1])
    BY <1>6, <1>7, CopiedFollows DEF Follows, Extends
  <1>. HIDE DEF c2
  <1>9. Follows(objs, Popped, c2[1], c2[2]) /\ Follows(objs, Popped, c2[1], c1[2])
    BY <1>2, <1>3, <1>6, <1>7, <1>8, FollowsTwice, FollowsLater
  <1>10. Follows(c2[1], c1[2], d1[1], d1[2]) /\ d1[2].dep # 0 /\ Extends(c2[1], d1[1])
    BY <1>9, DependencyFollows DEF Follows, Extends
  <1>. HIDE DEF d1
  <1>11. Follows(objs, Popped, d1[1], d1[2]) /\ Follows(objs, Popped, d1[1], c2[2])
    BY <1>2, <1>3, <1>9, <1>10, FollowsTwice, FollowsLater
  <1>12. Follows(d1[1], c2[2], d2[1], d2[2]) /\ d2[2].dep # 0 /\ Extends(d1[1], d2[1])
    BY <1>11, DependencyFollows DEF Follows, Extends
  <1>. HIDE DEF d2
  <1>13. Follows(objs, Popped, d2[1], d2[2]) /\ Follows(objs, Popped, d2[1], d1[2])
    BY <1>2, <1>3, <1>11, <1>12, FollowsTwice, FollowsLater
  <1>. DEFINE s == [d1[2] EXCEPT !.behind = "fork"]
              t == [d2[2] EXCEPT !.behind = "dest", !.fn = f]
  <1>14. /\ DOMAIN s = Fields /\ s.dep = d1[2].dep /\ s.stack = d1[2].stack /\ s.own = d1[2].own
         /\ s.callers = d1[2].callers /\ s.ran = d1[2].ran /\ s.wrote = d1[2].wrote
         /\ s.fn \in Names /\ s.behind = "fork"
    BY <1>13 DEF Follows, TypedState, Fields
  <1>15. /\ DOMAIN t = Fields /\ t.dep = d2[2].dep /\ t.stack = d2[2].stack /\ t.own = d2[2].own
         /\ t.callers = d2[2].callers /\ t.ran = d2[2].ran /\ t.wrote = d2[2].wrote
         /\ t.fn \in Names /\ t.behind = "dest"
    BY <1>5, <1>13 DEF Follows, TypedState, Fields
  <1>16. Push(<<s, t>>)
    BY <1>4
  <1>. HIDE DEF s, t
  <1>17. GoesOn(objs, Popped, objs', s) /\ GoesOn(objs, Popped, objs', t)
    BY <1>4, <1>13, <1>14, <1>15, FollowsGoesOn
  <1>18. /\ IsSequence(<<s, t>>) /\ Elems(<<s, t>>) = {s, t}
         /\ AllApart(<<s, t>>) /\ Extends(objs, objs')
    BY <1>14, <1>15, <1>17, FewStates, FewApart DEF GoesOn
  <1>. DEFINE states == <<s, t>>
  <1>19. /\ IsSequence(states) /\ Elems(states) = {s, t} /\ AllApart(states) /\ Push(states)
    BY <1>16, <1>18
  <1>. HIDE DEF states
  <1>20. \A u \in Elems(states) : GoesOn(objs, Popped, objs', u) /\ u.dep # 0
    BY <1>10, <1>12, <1>14, <1>15, <1>17, <1>19
  <1>. QED
    BY <1>1, <1>2, <1>18, <1>19, <1>20, Stepped

LEMMA DetectKeeps ==
  ASSUME PotentialIssues, Types, Detect
  PROVE  Types' /\ (History => History')
  <1>1. /\ work # <<>> /\ Popped.behind = "no" /\ Count
        /\ sets' = sets /\ open' = open /\ cache' = cache /\ search' = search /\ iteration' = iteration
    BY DEF Detect, Free, Running, issueVars
  <1>2. hooked' \in 0..MaxHooked /\ objs \in Seq(Dependencies)
    BY <1>1, Counted DEF Types
  <1>3. TypedState(Popped, Len(objs)) /\ Len(objs) \in Nat
    BY <1>1, PoppedTyped
  <1>. DEFINE s == IF Popped.pot = 0 THEN [Popped EXCEPT !.pot = Len(lists) + 1] ELSE Popped
              c == Copied(objs, s)
  <1>4. PICK site \in Sites, issue \in BOOLEAN :
          /\ objs' = c[1]
          /\ Push(<<IF issue THEN [c[2] EXCEPT !.found = @ \cup {site}] ELSE c[2]>>)
    BY DEF Detect
  <1>. DEFINE t == IF issue THEN [c[2] EXCEPT !.found = @ \cup {site}] ELSE c[2]
  <1>5. /\ DOMAIN s = Fields /\ s.dep = Popped.dep /\ s.stack = Popped.stack /\ s.own = Popped.own
        /\ s.callers = Popped.callers /\ s.ran = Popped.ran /\ s.wrote = Popped.wrote
        /\ s.fn = Popped.fn /\ s.behind = Popped.behind
    BY <1>3 DEF TypedState, Fields
  <1>. HIDE DEF s
  <1>6. TypedState(s, Len(objs)) /\ Follows(objs, Popped, objs, s)
    <2>1. TypedState(s, Len(objs))
      BY <1>3, <1>5 DEF TypedState
    <2>2. Owns(s) = Owns(Popped) /\ (Single(s) <=> Single(Popped)) /\ Obj(objs, s) = Obj(objs, Popped)
      BY <1>5, SameHold
    <2>. QED
      BY <1>2, <1>5, <2>1, <2>2, ExtendsSelf DEF Follows
  <1>7. Follows(objs, s, c[1], c[2])
    BY <1>2, <1>6, CopiedFollows
  <1>. HIDE DEF c
  <1>8. Follows(objs, Popped, c[1], c[2])
    BY <1>3, <1>6, <1>7, FollowsTwice
  <1>9. /\ DOMAIN t = Fields /\ t.dep = c[2].dep /\ t.stack = c[2].stack /\ t.own = c[2].own
        /\ t.callers = c[2].callers /\ t.ran = c[2].ran /\ t.wrote = c[2].wrote
        /\ t.fn \in Names /\ t.behind = "no"
    BY <1>1, <1>8 DEF Follows, TypedState, Fields
  <1>10. Push(<<t>>)
    BY <1>4
  <1>. HIDE DEF t
  <1>11. GoesOn(objs, Popped, objs', t)
    BY <1>4, <1>8, <1>9, FollowsGoesOn
  <1>. QED
    BY <1>1, <1>2, <1>9, <1>10, <1>11, SteppedOne

LEMMA FailKeeps ==
  ASSUME PotentialIssues, Types, FailTransaction
  PROVE  Types' /\ (History => History')
  <1>1. /\ work # <<>> /\ Popped.behind = "no" /\ hooked' = hooked /\ Push(<<>>) /\ objs' = objs
        /\ sets' = sets /\ open' = open /\ cache' = cache /\ search' = search /\ iteration' = iteration
    BY DEF FailTransaction, Free, Running, issueVars, heaps
  <1>2. hooked' \in 0..MaxHooked /\ Extends(objs, objs')
    BY <1>1, Counted, ExtendsSelf DEF Types
  <1>3. IsSequence(<<>>) /\ Elems(<<>>) = {} /\ AllApart(<<>>)
    BY FewStates, FewApart
  <1>. QED
    BY <1>1, <1>2, <1>3, Stepped
-------------------------------------------------------------------------------
(* Stores and calls *)

\* The callers of a state are good as long as what they hold stays as it is.
LEMMA CallersKeep ==
  ASSUME NEW h \in Seq(Dependencies), NEW st, Len(st) \in Nat, Bounded(h, Len(st)),
         NEW h2, NEW st2, NEW M, Differs(h, h2, M), Grows(st, st2),
         NEW s, TypedThroughout(s, Len(h)), Sound(s, h, st), Lent(s) \cap M = {}
  PROVE  \A c \in Elems(s.callers) : Good(c, h2, st2)
  <1> SUFFICES ASSUME NEW c \in Elems(s.callers) PROVE Good(c, h2, st2)
    OBVIOUS
  <1>1. Good(c, h, st) /\ c.dep # 0 /\ TypedState(c, Len(h)) /\ c.dep \in Lent(s)
    BY DEF Sound, TypedThroughout, Lent
  <1>2. Owns(c) \cap M = {}
    <2>1. c.stack = <<>> /\ Elems(c.stack) = {}
      BY <1>1, FewStates DEF Good, Single
    <2>. QED
      BY <1>1, <2>1 DEF Owns
  <1>. QED
    BY <1>1, <1>2, GoodLater

\* What a state has lent is old, and not its own.
LEMMA LentOld ==
  ASSUME PotentialIssues, Types, work # <<>>
  PROVE  /\ Lent(Popped) \subseteq 0..Len(objs)
         /\ \A h2 : Lent(Popped) \cap Fresh(objs, h2) = {}
         /\ History => Lent(Popped) \cap Owns(Popped) = {}
  <1>1. /\ TypedThroughout(Popped, Len(objs)) /\ Len(objs) \in Nat /\ Popped \in Elems(work)
    BY PoppedTyped
  <1>2. Lent(Popped) \subseteq 0..Len(objs)
    BY <1>1 DEF TypedThroughout, TypedState, Lent
  <1>3. \A h2 : \A n \in 0..Len(objs) : n \notin Fresh(objs, h2)
    BY <1>1 DEF Fresh
  <1>4. \A h2 : Lent(Popped) \cap Fresh(objs, h2) = {}
    BY <1>2, <1>3
  <1>. QED
    BY <1>1, <1>2, <1>4 DEF History, Sharing

\* The popped state gives way to one state, whose objects are those of M or new.
LEMMA ContinuedByOne ==
  ASSUME PotentialIssues, Types, History, work # <<>>,
         NEW M, Mine(M), Differs(objs, objs', M), Grows(sets, sets'), open' = open,
         NEW t, Push(<<t>>), Sound(t, objs', sets'),
         Owns(t) \subseteq M \cup Fresh(objs, objs'),
         Lent(t) \subseteq Lent(Popped) \cup M \cup Fresh(objs, objs'),
         Lent(t) \cap Owns(t) = {}
  PROVE  History'
  <1>. DEFINE states == <<t>>
  <1>1. IsSequence(states) /\ Push(states) /\ Elems(states) = {t} /\ AllApart(states)
    BY FewStates, FewApart
  <1>. HIDE DEF states
  <1>2. NewStates(states, M, objs')
    BY <1>1 DEF NewStates
  <1>3. \A u \in Elems(states) : Sound(u, objs', sets')
    BY <1>1
  <1>. QED
    BY <1>2, <1>3, HistoryContinued

LEMMA TypedByOne ==
  ASSUME PotentialIssues, Types, work # <<>>, NEW t, Push(<<t>>), TypedThroughout(t, Len(objs')),
         objs' \in Seq(Dependencies), Len(objs) <= Len(objs'),
         sets' \in Seq(SUBSET Slots), Bounded(objs', Len(sets')),
         open' = open, cache' = cache, search' = search, iteration' = iteration,
         hooked' \in 0..MaxHooked
  PROVE  Types'
  <1>. DEFINE states == <<t>>
  <1>1. IsSequence(states) /\ Push(states) /\ Elems(states) = {t}
    BY FewStates
  <1>. HIDE DEF states
  <1>2. open' \in Seq(WorldStates(Len(objs')))
    <2>1. Len(objs) \in Nat /\ Len(objs') \in Nat
      BY DEF Types
    <2>. QED
      BY <2>1, WorldStatesLater DEF Types
  <1>3. cache' \subseteq Sites /\ \A u \in Elems(states) : TypedThroughout(u, Len(objs'))
    BY <1>1 DEF Types
  <1>. QED
    BY <1>1, <1>2, <1>3, TypesContinued

\* The caller a callee returns to is one of its callers, and so are those below it.
LEMMA CallersOf ==
  ASSUME NEW s, NEW ls, BackedThroughout(s, ls), s.callers # <<>>
  PROVE  /\ Last(s.callers) \in Elems(s.callers)
         /\ Elems(Last(s.callers).callers) \subseteq Elems(s.callers)
  <1>. DEFINE q == s.callers
              n == Len(q)
              c == q[n]
  <1>1. q \in Seq(Elems(q)) /\ n \in DOMAIN q /\ n \in Nat
    BY DEF BackedThroughout, IsSequence
  <1>2. c.callers = SubSeq(q, 1, n - 1)
    BY <1>1 DEF BackedThroughout
  <1>3. \A i \in 1..(n - 1) : q[i] \in Elems(q)
    BY <1>1
  <1>4. c.callers \in Seq(Elems(q))
    BY <1>1, <1>2, <1>3, SubSeqProperties
  <1>5. Elems(c.callers) \subseteq Elems(q)
    BY <1>4 DEF Elems
  <1>6. c \in Elems(q)
    BY <1>1 DEF Elems
  <1>. QED
    BY <1>5, <1>6 DEF Last

\* It is typed and sound, as the callee has not touched what it holds.
LEMMA CallerSound ==
  ASSUME NEW s, NEW ls, BackedThroughout(s, ls), s.callers # <<>>, NEW h, NEW st,
         TypedThroughout(s, Len(h))
  PROVE  /\ TypedThroughout(Last(s.callers), Len(h))
         /\ Lent(Last(s.callers)) \subseteq Lent(s)
         /\ Sound(s, h, st) =>
              /\ Sound(Last(s.callers), h, st) /\ Last(s.callers).dep # 0
              /\ Last(s.callers).dep \in Lent(s)
              /\ Last(s.callers).stack = <<>> /\ Last(s.callers).wrote = s.wrote
              /\ Owns(Last(s.callers)) = {Last(s.callers).dep}
  <1>. DEFINE c == Last(s.callers)
  <1>1. c \in Elems(s.callers) /\ Elems(c.callers) \subseteq Elems(s.callers)
    BY CallersOf
  <1>. HIDE DEF c
  <1>2. TypedThroughout(c, Len(h))
    BY <1>1 DEF TypedThroughout
  <1>3. Lent(c) \subseteq Lent(s) /\ c.dep \in Lent(s)
    BY <1>1 DEF Lent
  <1>4. ASSUME Sound(s, h, st)
        PROVE  Sound(c, h, st) /\ c.dep # 0 /\ c.stack = <<>> /\ c.wrote = s.wrote /\ Owns(c) = {c.dep}
    <2>1. Good(c, h, st) /\ c.dep # 0 /\ c.wrote = s.wrote
      BY <1>1, <1>4 DEF Sound
    <2>2. c.stack = <<>> /\ Elems(c.stack) = {}
      BY <2>1, FewStates DEF Good, Single
    <2>3. Sound(c, h, st)
      BY <1>1, <1>4, <2>1 DEF Sound
    <2>. QED
      BY <2>1, <2>2, <2>3 DEF Owns
  <1>. QED
    BY <1>2, <1>3, <1>4 DEF c

LEMMA RevertCallKeeps ==
  ASSUME PotentialIssues, Types, RevertCall
  PROVE  Types' /\ (History => History')
  <1>1. /\ work # <<>> /\ Popped.behind = "no" /\ hooked' = hooked /\ Popped.callers # <<>>
        /\ sets' = sets /\ open' = open /\ cache' = cache /\ search' = search /\ iteration' = iteration
    BY DEF RevertCall, Free, Running, issueVars
  <1>2. /\ hooked' \in 0..MaxHooked /\ objs \in Seq(Dependencies) /\ sets \in Seq(SUBSET Slots)
        /\ Bounded(objs, Len(sets)) /\ Len(sets) \in Nat
    BY <1>1, Counted DEF Types
  <1>3. /\ TypedThroughout(Popped, Len(objs)) /\ Len(objs) \in Nat /\ BackedThroughout(Popped, lists)
        /\ Popped \in Elems(work)
    BY <1>1, PoppedTyped
  <1>. DEFINE s == Last(Popped.callers)
              c == Copied(objs, s)
              t == c[2]
  <1>4. objs' = c[1] /\ Push(<<t>>)
    BY DEF RevertCall
  <1>5. TypedThroughout(s, Len(objs)) /\ TypedState(s, Len(objs)) /\ Lent(s) \subseteq Lent(Popped)
    BY <1>1, <1>3, CallerSound DEF TypedThroughout
  <1>6. History => Sound(s, objs, sets) /\ s.dep # 0 /\ s.stack = <<>>
    BY <1>1, <1>3, CallerSound DEF History
  <1>. HIDE DEF s
  <1>7. /\ Follows(objs, s, c[1], c[2])
        /\ s.dep # 0 => c[2].dep = Len(objs) + 1 /\ c[2].stack = s.stack
    BY <1>2, <1>5, CopiedFollows
  <1>. HIDE DEF c
  <1>8. GoesOn(objs, s, objs', t)
    <2>1. DOMAIN t = Fields /\ t.fn \in Names
      BY <1>7 DEF Follows, TypedState
    <2>. QED
      BY <1>4, <1>7, <2>1, FollowsGoesOn
  <1>9. TypedThroughout(t, Len(objs'))
    BY <1>3, <1>5, <1>8, GoesOnTyped
  <1>10. Extends(objs, objs') /\ objs' \in Seq(Dependencies) /\ Len(objs) <= Len(objs') /\ Len(objs') \in Nat
    BY <1>8 DEF GoesOn, Extends
  <1>11. Bounded(objs', Len(sets'))
    BY <1>1, <1>2, <1>10, BoundedLater
  <1>12. Types'
    BY <1>1, <1>2, <1>4, <1>9, <1>10, <1>11, TypedByOne
  <1>13. ASSUME History PROVE History'
    <2>1. t.dep = Len(objs) + 1 /\ t.stack = <<>> /\ t.dep # 0 /\ Elems(t.stack) = {}
      BY <1>3, <1>6, <1>7, <1>13, FewStates
    <2>2. Sound(t, objs', sets')
      BY <1>1, <1>2, <1>5, <1>6, <1>8, <1>13, <2>1, GoesOnSound
    <2>3. Owns(t) \subseteq Fresh(objs, objs')
      <3>1. t.dep \in 0..Len(objs')
        BY <1>8 DEF GoesOn, TypedState
      <3>. QED
        BY <1>3, <1>10, <2>1, <3>1 DEF Owns, Fresh
    <2>4. Lent(t) = Lent(s)
      BY <1>8 DEF GoesOn, Lent
    <2>5. Mine({}) /\ Differs(objs, objs', {}) /\ Grows(sets, sets')
      BY <1>1, <1>2, <1>10, ExtendsDiffers, SetsStay DEF Mine
    <2>6. Lent(t) \cap Owns(t) = {}
      BY <1>1, <1>5, <2>3, <2>4, LentOld
    <2>7. /\ Owns(t) \subseteq {} \cup Fresh(objs, objs')
          /\ Lent(t) \subseteq Lent(Popped) \cup {} \cup Fresh(objs, objs')
      BY <1>5, <2>3, <2>4
    <2>. QED
      BY <1>1, <1>4, <1>13, <2>2, <2>5, <2>6, <2>7, ContinuedByOne
  <1>. QED
    BY <1>12, <1>13

\* Only old objects of M change, also after copies.
LEMMA DiffersLater ==
  ASSUME NEW h, NEW h2, NEW h3, NEW M, Len(h) \in Nat, Differs(h, h2, M), Extends(h2, h3)
  PROVE  Differs(h, h3, M)
  <1>1. Len(h2) \in Nat /\ Len(h2) <= Len(h3) /\ Len(h3) \in Nat /\ Len(h) <= Len(h2)
    BY DEF Extends, Differs
  <1>2. \A k \in 1..Len(h) : k \in 1..Len(h2)
    BY <1>1
  <1>. QED
    BY <1>1, <1>2 DEF Extends, Differs

\* _transaction_end: the name is appended to the annotation the state holds, an old one of
\* its own or a new one.
LEMMA EndAppends ==
  ASSUME NEW h \in Seq(Dependencies), NEW m \in Nat, Bounded(h, m), NEW s, TypedState(s, Len(h)),
         NEW h2, NEW t, <<h2, t>> = TransactionEnd(h, s)
  PROVE  /\ h2 \in Seq(Dependencies) /\ Len(h) <= Len(h2) /\ Bounded(h2, m)
         /\ Differs(h, h2, Owns(s))
         /\ TypedState(t, Len(h2)) /\ t.dep # 0 /\ Owns(t) \subseteq Owns(s) \cup Fresh(h, h2)
         /\ h2[t.dep].ftn_seq = Append(Obj(h, s).ftn_seq, s.fn) /\ h2[t.dep].written = Obj(h, s).written
         /\ Single(s) => Single(t)
         /\ s.stack = <<>> => t.stack = <<>>
         /\ t.fn = s.fn /\ t.ran = s.ran /\ t.wrote = s.wrote
  <1>. DEFINE d == Dependency(h, s)
              g == d[1]
              u == d[2]
              r == u.dep
  <1>1. Follows(h, s, g, u) /\ r # 0
    BY DependencyFollows
  <1>2. h2 = [g EXCEPT ![r].ftn_seq = Append(@, s.fn)] /\ t = u
    <2>. DEFINE x == [g EXCEPT ![r].ftn_seq = Append(@, s.fn)]
    <2>1. <<h2, t>> = <<x, u>>
      BY DEF TransactionEnd
    <2>. HIDE DEF x, u
    <2>2. h2 = x /\ t = u
      BY <2>1, Pairs
    <2>. QED
      BY <2>2 DEF x
  <1>. HIDE DEF d
  <1>3. /\ Extends(h, g) /\ TypedState(u, Len(g)) /\ g \in Seq(Dependencies)
        /\ Len(g) \in Nat /\ Len(h) <= Len(g) /\ r \in 1..Len(g) /\ Len(h) \in Nat
    BY <1>1 DEF Follows, Extends, TypedState
  <1>. HIDE DEF g, u
  <1>4. g[r] \in Dependencies /\ g[r].ftn_seq \in Seq(Names) /\ g[r].written \in [Keys -> Nat]
    BY <1>3, ObjectFacts
  <1>. DEFINE q == Append(g[r].ftn_seq, s.fn)
              o == [g[r] EXCEPT !.ftn_seq = q]
  <1>5. q \in Seq(Names)
    BY <1>4 DEF TypedState
  <1>6. h2 = [g EXCEPT ![r] = o]
    BY <1>2
  <1>. HIDE DEF q
  <1>7. o \in Dependencies /\ o.ftn_seq = q /\ o.written = g[r].written
    BY <1>4, <1>5 DEF Dependencies, Names
  <1>. HIDE DEF o, r
  <1>8. /\ h2 \in Seq(Dependencies) /\ Len(h2) = Len(g) /\ h2[r] = o
        /\ \A k \in 1..Len(g) : k # r => h2[k] = g[k]
    BY <1>3, <1>6, <1>7
  <1>9. Bounded(h2, m)
    <2>1. Bounded(g, m)
      BY <1>3, BoundedLater
    <2>. SUFFICES ASSUME NEW k \in DOMAIN h2, NEW n \in Keys PROVE h2[k].written[n] <= m
      BY DEF Bounded
    <2>2. k \in 1..Len(g) /\ DOMAIN g = 1..Len(g)
      BY <1>3, <1>8
    <2>3. h2[k].written = g[k].written
      BY <1>7, <1>8, <2>2
    <2>. QED
      BY <2>1, <2>2, <2>3 DEF Bounded
  <1>10. r \in Owns(s) \cup Fresh(h, g)
    <2>1. r \in Owns(u)
      BY <1>1 DEF Owns, r
    <2>. QED
      BY <1>1, <2>1 DEF Follows, Fresh
  <1>11. Differs(h, h2, Owns(s))
    <2>. SUFFICES ASSUME NEW k \in 1..Len(h), k \notin Owns(s) PROVE h2[k] = h[k]
      BY <1>3, <1>8 DEF Differs
    <2>1. k # r /\ k \in 1..Len(g)
      BY <1>3, <1>10 DEF Fresh
    <2>. QED
      BY <1>3, <1>8, <2>1 DEF Extends
  <1>12. Obj(h, s) = g[r]
    BY <1>1 DEF Follows, Obj, r
  <1>13. Owns(t) \subseteq Owns(s) \cup Fresh(h, h2)
    BY <1>1, <1>2, <1>8 DEF Follows, Fresh
  <1>14. TypedState(t, Len(h2)) /\ t.dep = r
    BY <1>2, <1>3, <1>8 DEF r
  <1>15. h2[t.dep].ftn_seq = Append(Obj(h, s).ftn_seq, s.fn) /\ h2[t.dep].written = Obj(h, s).written
    BY <1>7, <1>8, <1>12, <1>14 DEF q
  <1>. QED
    BY <1>1, <1>2, <1>3, <1>8, <1>9, <1>11, <1>13, <1>14, <1>15 DEF Follows, r

LEMMA EndCallKeeps ==
  ASSUME PotentialIssues, Types, EndCall
  PROVE  Types' /\ (History => History')
  <1>1. /\ work # <<>> /\ Popped.behind = "no" /\ hooked' = hooked /\ Popped.callers # <<>>
        /\ sets' = sets /\ open' = open /\ cache' = cache /\ search' = search /\ iteration' = iteration
    BY DEF EndCall, Free, Running, issueVars
  <1>2. /\ hooked' \in 0..MaxHooked /\ objs \in Seq(Dependencies) /\ sets \in Seq(SUBSET Slots)
        /\ Bounded(objs, Len(sets)) /\ Len(sets) \in Nat
    BY <1>1, Counted DEF Types
  <1>3. /\ TypedThroughout(Popped, Len(objs)) /\ Len(objs) \in Nat /\ BackedThroughout(Popped, lists)
        /\ Popped \in Elems(work) /\ TypedState(Popped, Len(objs))
    BY <1>1, PoppedTyped
  <1>. DEFINE s == Last(Popped.callers)
              e == TransactionEnd(objs, Popped)
              c == Copied(e[1], s)
              t == [c[2] EXCEPT !.stack = e[2].stack, !.wrote = e[2].wrote,
                                !.inner = @ \cup Popped.found \cup Popped.inner]
              h == e[1]
              u == e[2]
  <1>4. objs' = c[1] /\ Push(<<t>>)
    BY DEF EndCall
  <1>5. TypedThroughout(s, Len(objs)) /\ Lent(s) \subseteq Lent(Popped)
    BY <1>1, <1>3, CallerSound DEF TypedThroughout
  <1>6. History => /\ Sound(Popped, objs, sets) /\ Sound(s, objs, sets) /\ s.dep # 0 /\ s.stack = <<>>
                   /\ s.wrote = Popped.wrote /\ s.dep \in Lent(Popped) /\ Owns(s) = {s.dep}
    BY <1>1, <1>3, CallerSound DEF History
  <1>. HIDE DEF s
  <1>7. <<h, u>> = TransactionEnd(objs, Popped)
    BY DEF TransactionEnd
  <1>. HIDE DEF e
  <1>8. /\ h \in Seq(Dependencies) /\ Len(objs) <= Len(h) /\ Bounded(h, Len(sets))
        /\ Differs(objs, h, Owns(Popped)) /\ TypedState(u, Len(h))
        /\ Popped.stack = <<>> => u.stack = <<>>
        /\ u.wrote = Popped.wrote
    <2>. DEFINE h0 == h
                u0 == u
    <2>. HIDE DEF h0, u0
    <2>1. <<h0, u0>> = TransactionEnd(objs, Popped)
      BY <1>7 DEF h0, u0
    <2>2. /\ h0 \in Seq(Dependencies) /\ Len(objs) <= Len(h0) /\ Bounded(h0, Len(sets))
          /\ Differs(objs, h0, Owns(Popped)) /\ TypedState(u0, Len(h0))
          /\ Popped.stack = <<>> => u0.stack = <<>>
          /\ u0.wrote = Popped.wrote
      BY <1>2, <1>3, <2>1, EndAppends
    <2>. QED
      BY <2>2 DEF h0, u0
  <1>. HIDE DEF h, u
  <1>9. Len(h) \in Nat /\ TypedThroughout(s, Len(h))
    BY <1>3, <1>5, <1>8, TypedLater DEF TypedThroughout
  <1>10. /\ c = Copied(h, s)
         /\ t = [c[2] EXCEPT !.stack = u.stack, !.wrote = u.wrote,
                             !.inner = @ \cup Popped.found \cup Popped.inner]
    BY DEF h, u
  <1>11. /\ Follows(h, s, c[1], c[2])
         /\ s.dep # 0 => c[2].dep = Len(h) + 1 /\ c[2].stack = s.stack
    BY <1>8, <1>9, <1>10, CopiedFollows DEF TypedThroughout
  <1>. HIDE DEF c
  <1>12. /\ DOMAIN t = Fields /\ t.dep = c[2].dep /\ t.stack = u.stack /\ t.own = c[2].own
         /\ t.callers = c[2].callers /\ t.ran = c[2].ran /\ t.wrote = u.wrote
         /\ t.fn = c[2].fn /\ t.behind = c[2].behind /\ c[2].fn \in Names
    BY <1>10, <1>11 DEF Follows, TypedState, Fields
  <1>. HIDE DEF t
  <1>13. /\ Extends(h, objs') /\ objs' \in Seq(Dependencies) /\ Len(objs) <= Len(objs') /\ Len(objs') \in Nat
         /\ Len(h) <= Len(objs')
    <2>1. /\ objs' = c[1] /\ Extends(h, c[1]) /\ h \in Seq(Dependencies)
          /\ Len(objs) <= Len(h) /\ Len(h) \in Nat /\ Len(objs) \in Nat
      BY <1>3, <1>4, <1>8, <1>9, <1>11, Zenon DEF Follows
    <2>2. c[1] \in Seq(Dependencies) /\ Len(h) <= Len(c[1]) /\ Len(c[1]) \in Nat
      BY <2>1 DEF Extends
    <2>. QED
      BY <2>1, <2>2
  <1>14. TypedThroughout(t, Len(objs'))
    <2>1. TypedState(u, Len(objs')) /\ TypedState(c[2], Len(objs'))
      BY <1>4, <1>8, <1>9, <1>11, <1>13, TypedLater DEF Follows
    <2>2. \A b \in Elems(s.callers) : TypedState(b, Len(objs'))
      BY <1>9, <1>13, TypedLater DEF TypedThroughout
    <2>3. t.callers = s.callers
      BY <1>11, <1>12 DEF Follows
    <2>. QED
      BY <1>12, <2>1, <2>2, <2>3 DEF TypedThroughout, TypedState
  <1>15. Bounded(objs', Len(sets'))
    BY <1>1, <1>2, <1>8, <1>13, BoundedLater
  <1>16. Types'
    BY <1>1, <1>2, <1>4, <1>13, <1>14, <1>15, TypedByOne
  <1>17. ASSUME History PROVE History'
    <2>1. Popped.stack = <<>> /\ u.stack = <<>> /\ u.wrote = s.wrote
      BY <1>1, <1>6, <1>8, <1>17 DEF Sound, Good
    <2>2. t.stack = c[2].stack /\ t.wrote = c[2].wrote
      BY <1>6, <1>11, <1>12, <1>17, <2>1 DEF Follows
    <2>3. GoesOn(h, s, objs', t)
      BY <1>4, <1>11, <1>12, <2>2, FollowsGoesOn
    <2>4. Lent(Popped) \cap Owns(Popped) = {}
      BY <1>1, <1>17, LentOld
    <2>5. Sound(s, h, sets)
      <3>1. Owns(s) \cap Owns(Popped) = {} /\ Lent(s) \cap Owns(Popped) = {}
        BY <1>5, <1>6, <1>17, <2>4
      <3>. QED
        BY <1>2, <1>5, <1>6, <1>8, <1>17, <3>1, SetsStay, SoundLater
    <2>6. t.dep = Len(h) + 1 /\ t.stack = <<>> /\ t.dep # 0 /\ Elems(t.stack) = {}
      BY <1>6, <1>9, <1>11, <1>12, <1>17, <2>1, FewStates
    <2>7. Sound(t, objs', sets')
      BY <1>1, <1>2, <1>8, <1>9, <2>3, <2>5, <2>6, GoesOnSound
    <2>8. Owns(t) \subseteq Fresh(objs, objs')
      <3>1. t.dep \in 0..Len(objs')
        BY <2>3 DEF GoesOn, TypedState
      <3>. QED
        BY <1>3, <1>8, <1>9, <1>13, <2>6, <3>1 DEF Owns, Fresh
    <2>9. Lent(t) = Lent(s)
      BY <2>3 DEF GoesOn, Lent
    <2>10. Mine(Owns(Popped)) /\ Differs(objs, objs', Owns(Popped)) /\ Grows(sets, sets')
      BY <1>1, <1>2, <1>3, <1>8, <1>13, DiffersLater, SetsStay DEF Mine
    <2>11. Lent(t) \cap Owns(t) = {}
      BY <1>1, <1>5, <2>8, <2>9, LentOld
    <2>12. /\ Owns(t) \subseteq Owns(Popped) \cup Fresh(objs, objs')
           /\ Lent(t) \subseteq Lent(Popped) \cup Owns(Popped) \cup Fresh(objs, objs')
      BY <1>5, <2>8, <2>9
    <2>. QED
      BY <1>1, <1>4, <1>17, <2>7, <2>10, <2>11, <2>12, ContinuedByOne
  <1>. QED
    BY <1>16, <1>17

LEMMA AppendedElems ==
  ASSUME NEW q, IsSequence(q), NEW s
  PROVE  Elems(Append(q, s)) = Elems(q) \cup {s} /\ Append(q, s) # <<>>
  <1>. DEFINE T == Elems(q) \cup {s}
  <1>1. q \in Seq(T)
    <2>1. Elems(q) \subseteq T
      OBVIOUS
    <2>2. q \in Seq(Elems(q))
      BY DEF IsSequence
    <2>. HIDE DEF T
    <2>. QED
      BY <2>1, <2>2, SeqMonotonic
  <1>2. s \in T /\ DOMAIN q = 1..Len(q) /\ Len(q) \in Nat
    BY <1>1
  <1>. HIDE DEF T
  <1>. DEFINE r == Append(q, s)
              n == Len(q) + 1
  <1>3. /\ r \in Seq(T) /\ Len(r) = n /\ r[n] = s
        /\ \A i \in 1..Len(q) : r[i] = q[i]
    BY <1>1, <1>2, AppendProperties
  <1>4. DOMAIN r = 1..n /\ n \in DOMAIN r /\ r # <<>>
    BY <1>2, <1>3
  <1>5. \A i \in DOMAIN r : i \in DOMAIN q \/ i = n
    BY <1>2, <1>4
  <1>6. \A i \in DOMAIN q : i \in DOMAIN r
    BY <1>2, <1>4
  <1>. HIDE DEF r, n
  <1>7. Elems(r) = Elems(q) \cup {s}
    BY <1>2, <1>3, <1>4, <1>5, <1>6 DEF Elems
  <1>. QED
    BY <1>4, <1>7 DEF r

LEMMA CallKeeps ==
  ASSUME PotentialIssues, Types, Call
  PROVE  Types' /\ (Private /\ History => History')
  <1>1. /\ work # <<>> /\ Popped.behind = "no" /\ Count
        /\ sets' = sets /\ open' = open /\ cache' = cache /\ search' = search /\ iteration' = iteration
    BY DEF Call, Free, Running, issueVars
  <1>2. /\ hooked' \in 0..MaxHooked /\ objs \in Seq(Dependencies) /\ sets \in Seq(SUBSET Slots)
        /\ Bounded(objs, Len(sets)) /\ Len(sets) \in Nat
    BY <1>1, Counted DEF Types
  <1>3. /\ TypedThroughout(Popped, Len(objs)) /\ Len(objs) \in Nat /\ BackedThroughout(Popped, lists)
        /\ Popped \in Elems(work) /\ TypedState(Popped, Len(objs))
    BY <1>1, PoppedTyped
  <1>. DEFINE d(kind) == IF kind = "DELEGATECALL" THEN <<objs, Popped>> ELSE Dependency(objs, Popped)
  <1>4. PICK kind \in CallKinds :
          /\ objs' = d(kind)[1]
          /\ Push(<<[d(kind)[2] EXCEPT !.fn = Fallback, !.dep = 0, !.pot = 0,
                                       !.found = {}, !.inner = {},
                                       !.own = @ /\ kind = "DELEGATECALL",
                                       !.callers = Append(@, d(kind)[2])]>>)
    BY DEF Call
  <1>. DEFINE h == d(kind)[1]
              u == d(kind)[2]
              t == [u EXCEPT !.fn = Fallback, !.dep = 0, !.pot = 0,
                             !.found = {}, !.inner = {},
                             !.own = @ /\ kind = "DELEGATECALL",
                             !.callers = Append(@, u)]
  <1>5. /\ Follows(objs, Popped, h, u)
        /\ Private => u.dep # 0 /\ kind # "DELEGATECALL"
    <2>1. CASE kind = "DELEGATECALL"
      <3>1. h = objs /\ u = Popped /\ ~Private
        BY <2>1 DEF Private
      <3>. QED
        BY <1>2, <1>3, <3>1, FollowsSelf
    <2>2. CASE kind # "DELEGATECALL"
      <3>1. h = Dependency(objs, Popped)[1] /\ u = Dependency(objs, Popped)[2]
        BY <2>2
      <3>. HIDE DEF h, u
      <3>. QED
        BY <1>2, <1>3, <2>2, <3>1, DependencyFollows
    <2>. QED
      BY <2>1, <2>2
  <1>6. objs' = h /\ Push(<<t>>)
    BY <1>4
  <1>. HIDE DEF d
  <1>. HIDE DEF h, u
  <1>7. /\ DOMAIN t = Fields /\ t.dep = 0 /\ t.stack = u.stack /\ t.fn = Fallback
        /\ t.own = (u.own /\ kind = "DELEGATECALL") /\ t.callers = Append(u.callers, u)
        /\ t.ran = u.ran /\ t.wrote = u.wrote /\ t.behind = u.behind
    BY <1>5 DEF Follows, TypedState, Fields
  <1>. HIDE DEF t
  <1>8. /\ Extends(objs, objs') /\ objs' \in Seq(Dependencies) /\ Len(objs) <= Len(objs')
        /\ Len(objs') \in Nat
    BY <1>5, <1>6 DEF Follows, Extends
  <1>9. Elems(t.callers) = Elems(Popped.callers) \cup {u} /\ t.callers # <<>>
    <2>1. u.callers = Popped.callers /\ IsSequence(Popped.callers)
      BY <1>3, <1>5 DEF Follows, BackedThroughout
    <2>. QED
      BY <1>7, <2>1, AppendedElems
  <1>10. TypedThroughout(t, Len(objs'))
    <2>1. TypedState(u, Len(objs'))
      BY <1>5, <1>6 DEF Follows
    <2>2. \A b \in Elems(Popped.callers) : TypedState(b, Len(objs'))
      BY <1>3, <1>8, TypedLater DEF TypedThroughout
    <2>3. TypedState(t, Len(objs'))
      BY <1>7, <1>8, <2>1 DEF TypedState, Names
    <2>. QED
      BY <1>9, <2>1, <2>2, <2>3 DEF TypedThroughout
  <1>11. Bounded(objs', Len(sets'))
    BY <1>1, <1>2, <1>8, BoundedLater
  <1>12. Types'
    BY <1>1, <1>2, <1>6, <1>8, <1>10, <1>11, TypedByOne
  <1>13. ASSUME Private, History PROVE History'
    <2>1. Sound(Popped, objs, sets) /\ u.dep # 0 /\ u.behind = "no" /\ u.callers = Popped.callers
      BY <1>1, <1>3, <1>5, <1>13 DEF History, Follows
    <2>2. GoesOn(objs, Popped, objs', u)
      <3>1. DOMAIN u = Fields /\ u.fn \in Names
        BY <1>5 DEF Follows, TypedState
      <3>. QED
        BY <1>5, <1>6, <3>1, FollowsGoesOn
    <2>3. Sound(u, objs', sets')
      BY <1>1, <1>2, <1>3, <2>1, <2>2, GoesOnSound
    <2>4. u.stack = <<>> /\ t.stack = <<>> /\ Elems(<<>>) = {}
      BY <1>7, <2>1, <2>3, FewStates DEF Sound, Good, Single
    <2>5. Owns(t) = {}
      BY <1>7, <2>4 DEF Owns
    <2>6. Good(t, objs', sets')
      <3>1. Single(t)
        <4>1. t.stack = <<>> /\ Len(<<>>) <= 1
          BY <2>4
        <4>. QED
          BY <4>1 DEF Single
      <3>2. t.behind = "no" /\ t.callers # <<>>
        BY <1>7, <1>9, <2>1
      <3>3. ~t.own
        BY <1>5, <1>7, <1>13
      <3>. QED
        BY <2>4, <3>1, <3>2, <3>3 DEF Good
    <2>7. \A b \in Elems(t.callers) : Good(b, objs', sets') /\ b.dep # 0 /\ b.wrote = t.wrote
      BY <1>7, <1>9, <2>1, <2>3 DEF Sound
    <2>8. Sound(t, objs', sets')
      BY <2>6, <2>7 DEF Sound
    <2>9. u.dep \in Owns(Popped) \cup Fresh(objs, objs')
      <3>1. u.dep \in Owns(u)
        BY <2>1 DEF Owns
      <3>. QED
        BY <2>2, <3>1 DEF GoesOn
    <2>10. Lent(t) \subseteq Lent(Popped) \cup Owns(Popped) \cup Fresh(objs, objs')
      BY <1>9, <2>9 DEF Lent
    <2>11. Mine(Owns(Popped)) /\ Differs(objs, objs', Owns(Popped)) /\ Grows(sets, sets')
      BY <1>1, <1>2, <1>8, ExtendsDiffers, SetsStay DEF Mine
    <2>12. Owns(t) \subseteq Owns(Popped) \cup Fresh(objs, objs') /\ Lent(t) \cap Owns(t) = {}
      BY <2>5
    <2>. QED
      BY <1>1, <1>6, <1>13, <2>8, <2>10, <2>11, <2>12, ContinuedByOne
  <1>. QED
    BY <1>12, <1>13

\* One more slot in the last set of a sequence of sets.
OneMore(q, slot, r) ==
  /\ DOMAIN r = DOMAIN q
  /\ \A n \in DOMAIN q : r[n] = IF n = Len(q) THEN q[n] \cup {slot} ELSE q[n]

LEMMA OneMoreSlot ==
  ASSUME NEW q \in Seq(SUBSET Slots), NEW slot \in Slots, NEW r,
         r = [q EXCEPT ![Len(q)] = @ \cup {slot}]
  PROVE  r \in Seq(SUBSET Slots) /\ Len(r) = Len(q) /\ OneMore(q, slot, r)
  <1>1. Len(q) \in Nat /\ DOMAIN q = 1..Len(q) /\ DOMAIN r = 1..Len(q)
    OBVIOUS
  <1>2. \A n \in 1..Len(q) : q[n] \in SUBSET Slots
    OBVIOUS
  <1>3. \A n \in 1..Len(q) : r[n] = IF n = Len(q) THEN q[n] \cup {slot} ELSE q[n]
    BY <1>1
  <1>4. \A n \in 1..Len(q) : r[n] \in SUBSET Slots
    BY <1>2, <1>3
  <1>5. r \in [1..Len(q) -> SUBSET Slots]
    BY <1>1, <1>4
  <1>6. r \in Seq(SUBSET Slots) /\ Len(r) = Len(q)
    <2>. DEFINE n == Len(q)
    <2>. HIDE DEF n
    <2>1. n \in Nat /\ r \in [1..n -> SUBSET Slots]
      BY <1>1, <1>5 DEF n
    <2>2. r \in Seq(SUBSET Slots) /\ Len(r) = n
      BY <2>1, FunctionIsSequence
    <2>. QED
      BY <2>2 DEF n
  <1>. QED
    BY <1>1, <1>3, <1>6 DEF OneMore

\* What the object tells stays true when its records grow, and the slot just written is
\* told too.
LEMMA TellsMore ==
  ASSUME NEW h \in Seq(Dependencies), NEW st \in Seq(SUBSET Slots), Bounded(h, Len(st)),
         NEW ref \in 1..Len(h), NEW h3, NEW st3, Records(h, st, h3, st3, ref),
         NEW ran, NEW wrote \in Seq(SUBSET Slots), Tells(h[ref], ran, wrote, st),
         NEW r, NEW slot, OneMore(wrote, slot, r),
         Len(wrote) \in Keys => Recorded1(h3, st3, ref, Len(wrote), slot)
  PROVE  Tells(h3[ref], ran, wrote, st3) /\ Tells(h3[ref], ran, r, st3)
  <1>1. Len(st) \in Nat /\ DOMAIN h = 1..Len(h) /\ h[ref].written \in [Keys -> Nat]
    BY ObjectFacts
  <1>2. \A n \in Keys : h[ref].written[n] <= Len(st)
    BY <1>1 DEF Bounded
  <1>3. Tells(h[ref], ran, wrote, st3)
    BY <1>1, <1>2, TellsLater DEF Records
  <1>4. ASSUME NEW n \in Keys, n \in DOMAIN wrote, wrote[n] # {}
        PROVE  h3[ref].written[n] # 0 /\ wrote[n] \subseteq st3[h3[ref].written[n]]
    BY <1>3, <1>4 DEF Tells, Records
  <1>5. h3[ref].ftn_seq = ran
    BY DEF Tells, Records
  <1>6. Tells(h3[ref], ran, wrote, st3)
    BY <1>4, <1>5 DEF Tells
  <1>7. Tells(h3[ref], ran, r, st3)
    <2>1. ASSUME NEW n \in Keys, n \in DOMAIN r, r[n] # {}
          PROVE  h3[ref].written[n] # 0 /\ r[n] \subseteq st3[h3[ref].written[n]]
      <3>1. CASE n = Len(wrote)
        <4>1. h3[ref].written[n] # 0 /\ slot \in st3[h3[ref].written[n]] /\ r[n] = wrote[n] \cup {slot}
          BY <2>1, <3>1 DEF Recorded1, OneMore
        <4>2. wrote[n] \subseteq st3[h3[ref].written[n]]
          BY <1>4, <2>1 DEF OneMore
        <4>. QED
          BY <4>1, <4>2
      <3>2. CASE n # Len(wrote)
        BY <1>4, <2>1, <3>2 DEF OneMore
      <3>. QED
        BY <3>1, <3>2
    <2>. QED
      BY <1>5, <2>1 DEF Tells
  <1>. QED
    BY <1>6, <1>7

LEMMA StoredPair ==
  ASSUME NEW hs, NEW ref, NEW slot
  PROVE  <<Stored(hs, ref, slot)[1], Stored(hs, ref, slot)[2]>> = Stored(hs, ref, slot)
  <1>1. ASSUME NEW a, NEW key
        PROVE  <<Extend(a, ref, key, slot)[1], Extend(a, ref, key, slot)[2]>> = Extend(a, ref, key, slot)
    <2>1. CASE a[1][ref].written[key] = 0
      BY <2>1 DEF Extend
    <2>2. CASE a[1][ref].written[key] # 0
      BY <2>2 DEF Extend
    <2>. QED
      BY <2>1, <2>2
  <1>. QED
    BY <1>1 DEF Stored

LEMMA SstoreKeeps ==
  ASSUME PotentialIssues, Types, Sstore
  PROVE  Types' /\ (Private /\ History => History')
  <1>1. /\ work # <<>> /\ Popped.behind = "no" /\ Count
        /\ open' = open /\ cache' = cache /\ search' = search /\ iteration' = iteration
    BY DEF Sstore, Free, Running, issueVars
  <1>2. /\ hooked' \in 0..MaxHooked /\ objs \in Seq(Dependencies) /\ sets \in Seq(SUBSET Slots)
        /\ Bounded(objs, Len(sets)) /\ Len(sets) \in Nat
    BY <1>1, Counted DEF Types
  <1>3. /\ TypedThroughout(Popped, Len(objs)) /\ Len(objs) \in Nat
        /\ Popped \in Elems(work) /\ TypedState(Popped, Len(objs))
    BY <1>1, PoppedTyped
  <1>. DEFINE d == Dependency(objs, Popped)
              w(slot) == Stored(<<d[1], sets>>, d[2].dep, slot)
              c(slot) == Copied(w(slot)[1], d[2])
              n(slot) == Len(c(slot)[2].wrote)
  <1>4. PICK slot \in Slots :
          /\ objs' = c(slot)[1] /\ sets' = w(slot)[2]
          /\ Push(<<IF c(slot)[2].own THEN [c(slot)[2] EXCEPT !.wrote[n(slot)] = @ \cup {slot}]
                    ELSE c(slot)[2]>>)
    BY DEF Sstore
  <1>. DEFINE g == d[1]
              u == d[2]
              ref == u.dep
              h == w(slot)[1]
              st == w(slot)[2]
              h2 == c(slot)[1]
              v == c(slot)[2]
              t == IF v.own THEN [v EXCEPT !.wrote[Len(v.wrote)] = @ \cup {slot}] ELSE v
  <1>5. objs' = h2 /\ sets' = st /\ Push(<<t>>)
    BY <1>4
  <1>6. Follows(objs, Popped, g, u) /\ ref # 0
    BY <1>2, <1>3, DependencyFollows
  <1>7. <<h, st>> = Stored(<<g, sets>>, ref, slot)
    BY StoredPair
  <1>8. <<h2, v>> = Copied(h, u)
    BY DEF Copied
  <1>. HIDE DEF c, w, d
  <1>. HIDE DEF h, st, h2, v, g, u
  <1>9. /\ Extends(objs, g) /\ g \in Seq(Dependencies) /\ Len(g) \in Nat /\ Len(objs) <= Len(g)
        /\ ref \in 1..Len(g) /\ TypedState(u, Len(g)) /\ Bounded(g, Len(sets))
    <2>1. Extends(objs, g) /\ TypedState(u, Len(g))
      BY <1>6 DEF Follows
    <2>2. Bounded(g, Len(sets))
      BY <1>2, <2>1, BoundedLater
    <2>. QED
      BY <1>6, <2>1, <2>2 DEF Extends, TypedState
  <1>10. /\ Records(g, sets, h, st, ref)
         /\ Len(g[ref].ftn_seq) + 1 \in Keys => Recorded1(h, st, ref, Len(g[ref].ftn_seq) + 1, slot)
    <2>. DEFINE k == ref
    <2>1. k \in 1..Len(g) /\ <<h, st>> = Stored(<<g, sets>>, k, slot)
      BY <1>7, <1>9
    <2>. HIDE DEF k
    <2>2. /\ Records(g, sets, h, st, k)
          /\ Len(g[k].ftn_seq) + 1 \in Keys => Recorded1(h, st, k, Len(g[k].ftn_seq) + 1, slot)
      BY <1>2, <1>9, <2>1, StoredRecords
    <2>. QED
      BY <2>2 DEF k
  <1>11. /\ h \in Seq(Dependencies) /\ Len(h) = Len(g) /\ Bounded(h, Len(st))
         /\ st \in Seq(SUBSET Slots) /\ Grows(sets, st) /\ Len(st) \in Nat /\ Len(sets) <= Len(st)
    BY <1>10 DEF Records, Grows
  <1>12. /\ Follows(h, u, h2, v) /\ v.dep = Len(h) + 1 /\ v.stack = u.stack
    <2>1. TypedState(u, Len(h))
      BY <1>9, <1>11
    <2>2. h2 = Copied(h, u)[1] /\ v = Copied(h, u)[2]
      BY <1>8
    <2>. QED
      BY <1>6, <1>11, <2>1, <2>2, CopiedFollows
  <1>13. v.wrote = Popped.wrote /\ v.ran = Popped.ran /\ v.own = Popped.own /\ v.callers = Popped.callers
         /\ v.behind = "no" /\ v.wrote \in Seq(SUBSET Slots)
    BY <1>1, <1>3, <1>6, <1>12 DEF Follows, TypedState
  <1>14. /\ Extends(h, h2) /\ h2 \in Seq(Dependencies) /\ Len(h2) \in Nat /\ Len(h) <= Len(h2)
         /\ Len(h) \in Nat /\ TypedState(v, Len(h2))
    BY <1>9, <1>11, <1>12 DEF Follows, Extends
  <1>15. Bounded(h2, Len(st))
    BY <1>11, <1>14, BoundedLater
  <1>. DEFINE r == [v.wrote EXCEPT ![Len(v.wrote)] = @ \cup {slot}]
  <1>16. /\ DOMAIN t = Fields /\ t.dep = v.dep /\ t.stack = v.stack /\ t.own = v.own
         /\ t.callers = v.callers /\ t.ran = v.ran /\ t.fn = v.fn /\ t.behind = v.behind
         /\ t.wrote = (IF v.own THEN r ELSE v.wrote)
    BY <1>14 DEF TypedState, Fields
  <1>. HIDE DEF t
  <1>17. r \in Seq(SUBSET Slots) /\ Len(r) = Len(v.wrote) /\ OneMore(v.wrote, slot, r)
    <2>. DEFINE q == v.wrote
                x == r
    <2>1. q \in Seq(SUBSET Slots) /\ x = [q EXCEPT ![Len(q)] = @ \cup {slot}]
      BY <1>13
    <2>. HIDE DEF q, x
    <2>2. x \in Seq(SUBSET Slots) /\ Len(x) = Len(q) /\ OneMore(q, slot, x)
      BY <2>1, OneMoreSlot
    <2>. QED
      BY <2>2 DEF q, x
  <1>. HIDE DEF r
  <1>18. TypedThroughout(t, Len(h2))
    <2>1. Len(objs) <= Len(h2)
      BY <1>3, <1>9, <1>11, <1>14
    <2>2. \A b \in Elems(Popped.callers) : TypedState(b, Len(h2))
      BY <1>3, <1>14, <2>1, TypedLater DEF TypedThroughout
    <2>3. TypedState(t, Len(h2))
      BY <1>14, <1>16, <1>17 DEF TypedState
    <2>. QED
      BY <1>13, <1>16, <2>2, <2>3 DEF TypedThroughout
  <1>19. Types'
    <2>1. Len(objs) <= Len(h2)
      BY <1>3, <1>9, <1>11, <1>14
    <2>. QED
      BY <1>1, <1>2, <1>5, <1>11, <1>14, <1>15, <1>18, <2>1, TypedByOne
  <1>20. ASSUME Private, History PROVE History'
    <2>1. Sound(Popped, objs, sets) /\ Single(Popped)
      BY <1>3, <1>20 DEF History, Sound, Good
    <2>2. u.stack = <<>> /\ t.stack = <<>> /\ Elems(<<>>) = {} /\ Len(<<>>) <= 1
      BY <1>6, <1>12, <1>16, <2>1, FewStates DEF Follows, Single
    <2>3. ref \in Owns(Popped) \cup Fresh(objs, g)
      <3>1. ref \in Owns(u)
        BY <1>6 DEF Owns
      <3>. QED
        BY <1>6, <3>1 DEF Follows, Fresh
    <2>4. Differs(objs, h, Owns(Popped))
      <3>. SUFFICES ASSUME NEW k \in 1..Len(objs), k \notin Owns(Popped) PROVE h[k] = objs[k]
        BY <1>9, <1>11 DEF Differs
      <3>1. k # ref /\ k \in 1..Len(g)
        BY <1>3, <1>9, <2>3 DEF Fresh
      <3>. QED
        BY <1>9, <1>10, <3>1 DEF Extends, Records
    <2>5. Differs(objs, h2, Owns(Popped))
      BY <1>3, <1>14, <2>4, DiffersLater
    <2>6. \A b \in Elems(Popped.callers) : Good(b, h2, st)
      BY <1>1, <1>2, <1>3, <1>11, <1>20, <2>1, <2>5, LentOld, CallersKeep
    <2>7. Obj(h2, t) = h[ref] /\ Obj(g, u) = g[ref] /\ Obj(g, u) = Obj(objs, Popped)
      <3>1. Obj(h2, t) = Obj(h2, v) /\ Obj(h2, v) = Obj(h, u)
        BY <1>12, <1>16, SameHold DEF Follows
      <3>. QED
        BY <1>6, <3>1 DEF Obj, Follows
    <2>8. Good(t, h2, st)
      <3>1. Single(t) /\ t.behind = "no"
        BY <1>13, <1>16, <2>2 DEF Single
      <3>2. t.callers # <<>> => t.stack = <<>> /\ ~t.own
        BY <1>13, <1>16, <2>1, <2>2 DEF Sound, Good
      <3>3. ASSUME t.callers = <<>>
            PROVE  Tells(Obj(h2, t), t.ran, t.wrote, st) /\ Len(t.wrote) = Len(t.ran) + 1
        <4>1. Tells(g[ref], v.ran, v.wrote, sets) /\ Len(v.wrote) = Len(v.ran) + 1
          BY <1>13, <1>16, <2>1, <2>7, <3>3 DEF Sound, Good
        <4>2. Len(v.wrote) = Len(g[ref].ftn_seq) + 1
          BY <4>1 DEF Tells
        <4>3. Len(v.wrote) \in Keys => Recorded1(h, st, ref, Len(v.wrote), slot)
          BY <1>10, <4>2
        <4>4. Tells(h[ref], v.ran, v.wrote, st) /\ Tells(h[ref], v.ran, r, st)
          <5>. DEFINE k == ref
                      q == v.wrote
                      f == v.ran
          <5>1. /\ k \in 1..Len(g) /\ Records(g, sets, h, st, k) /\ q \in Seq(SUBSET Slots)
                /\ Tells(g[k], f, q, sets) /\ OneMore(q, slot, r)
                /\ Len(q) \in Keys => Recorded1(h, st, k, Len(q), slot)
            BY <1>9, <1>10, <1>13, <1>17, <4>1, <4>3
          <5>. HIDE DEF k, q, f
          <5>2. Tells(h[k], f, q, st) /\ Tells(h[k], f, r, st)
            BY <1>2, <1>9, <5>1, TellsMore
          <5>. QED
            BY <5>2 DEF k, q, f
        <4>. QED
          BY <1>16, <1>17, <2>7, <4>1, <4>4
      <3>. QED
        BY <3>1, <3>2, <3>3 DEF Good
    <2>9. \A b \in Elems(t.callers) : b.dep # 0 /\ b.wrote = t.wrote
      <3>1. CASE v.callers = <<>>
        BY <1>16, <3>1, <2>2
      <3>2. CASE v.callers # <<>>
        <4>1. ~v.own
          BY <1>13, <2>1, <3>2 DEF Sound, Good
        <4>. QED
          BY <1>13, <1>16, <2>1, <4>1 DEF Sound
      <3>. QED
        BY <3>1, <3>2
    <2>10. Sound(t, h2, st)
      BY <1>13, <1>16, <2>6, <2>8, <2>9 DEF Sound
    <2>11. Owns(t) \subseteq Fresh(objs, h2)
      <3>1. t.dep \in 0..Len(h2) /\ t.dep = Len(h) + 1
        BY <1>12, <1>14, <1>16 DEF TypedState
      <3>. QED
        BY <1>3, <1>9, <1>11, <1>14, <2>2, <3>1 DEF Owns, Fresh
    <2>12. Lent(t) = Lent(Popped)
      BY <1>13, <1>16 DEF Lent
    <2>13. Lent(t) \cap Owns(t) = {}
      BY <1>1, <2>11, <2>12, LentOld
    <2>14. /\ Mine(Owns(Popped)) /\ Owns(t) \subseteq Owns(Popped) \cup Fresh(objs, h2)
           /\ Lent(t) \subseteq Lent(Popped) \cup Owns(Popped) \cup Fresh(objs, h2)
      BY <1>1, <2>11, <2>12 DEF Mine
    <2>. QED
      BY <1>1, <1>5, <1>11, <1>20, <2>5, <2>10, <2>13, <2>14, ContinuedByOne
  <1>. QED
    BY <1>19, <1>20
-------------------------------------------------------------------------------
(* The end of a transaction, and the next round *)

LEMMA EndedTyped ==
  ASSUME PotentialIssues, Types, work # <<>>, Push(<<>>),
         objs' \in Seq(Dependencies), Len(objs) <= Len(objs'), sets' = sets, Bounded(objs', Len(sets)),
         NEW ws \in WorldStates(Len(objs')), open' = Append(open, ws), cache' \subseteq Sites,
         search' = search, iteration' = iteration, hooked' = hooked
  PROVE  Types' /\ open \in Seq(WorldStates(Len(objs')))
  <1>1. IsSequence(<<>>) /\ Elems(<<>>) = {}
    BY FewStates
  <1>2. open \in Seq(WorldStates(Len(objs')))
    <2>1. Len(objs) \in Nat /\ Len(objs') \in Nat
      BY DEF Types
    <2>. QED
      BY <2>1, WorldStatesLater DEF Types
  <1>3. open' \in Seq(WorldStates(Len(objs')))
    BY <1>2, AppendProperties
  <1>4. sets' \in Seq(SUBSET Slots) /\ Bounded(objs', Len(sets')) /\ hooked' \in 0..MaxHooked
    BY DEF Types
  <1>5. \A t \in Elems(<<>>) : TypedThroughout(t, Len(objs'))
    BY <1>1
  <1>. QED
    BY <1>1, <1>2, <1>3, <1>4, <1>5, TypesContinued

\* A stack and an object on top.
LEMMA OnTop ==
  ASSUME NEW n \in Nat, NEW q \in Seq(1..n), NEW r \in 1..n
  PROVE  Append(q, r) \in Seq(1..n)
  BY AppendProperties

LEMMA OnTopOfNone ==
  ASSUME NEW r, NEW q, q = Append(<<>>, r)
  PROVE  q # <<>> /\ q[1] = r /\ Len(q) = 1 /\ Elems(q) = {r}
  <1>1. q = <<r>> /\ Elems(<<r>>) = {r}
    BY FewStates
  <1>2. <<r>> # <<>> /\ <<r>>[1] = r /\ Len(<<r>>) = 1
    OBVIOUS
  <1>. QED
    BY <1>1, <1>2

LEMMA EndTransactionKeeps ==
  ASSUME PotentialIssues, Types, EndTransaction
  PROVE  Types' /\ (Private /\ History => History')
  <1>1. /\ work # <<>> /\ Popped.callers = <<>> /\ hooked' = hooked /\ Push(<<>>)
        /\ Private => Popped.behind = "no"
        /\ sets' = sets /\ search' = search /\ iteration' = iteration
    BY DEF EndTransaction, Running, Private
  <1>2. /\ objs \in Seq(Dependencies) /\ sets \in Seq(SUBSET Slots)
        /\ Bounded(objs, Len(sets)) /\ Len(sets) \in Nat
    BY DEF Types
  <1>3. /\ Len(objs) \in Nat /\ Popped \in Elems(work) /\ TypedState(Popped, Len(objs))
        /\ Backed(Popped, lists)
    BY <1>1, PoppedTyped DEF BackedThroughout
  <1>4. cache' \subseteq Sites
    <2>. DEFINE issues == IF Popped.pot = 0 THEN {} ELSE lists[Popped.pot]
    <2>1. PICK sat \in SUBSET issues : cache' = cache \cup sat
      BY Zenon DEF EndTransaction, Check
    <2>2. issues \subseteq Sites
      <3>1. CASE Popped.pot = 0
        BY <3>1
      <3>2. CASE Popped.pot # 0
        <4>1. Popped.pot \in 1..Len(lists) /\ lists \in Seq(SUBSET Sites)
          BY <1>3, <3>2 DEF Backed, PotentialIssues
        <4>2. lists[Popped.pot] \in SUBSET Sites
          BY <4>1
        <4>. QED
          BY <3>2, <4>2
      <3>. QED
        BY <3>1, <3>2
    <2>. QED
      BY <2>1, <2>2 DEF Types
  <1>. DEFINE e == TransactionEnd(objs, Popped)
              c == Copied(e[1], e[2])
              d == Dependency(c[1], c[2])
              h == e[1]
              u == e[2]
              h2 == c[1]
              v == c[2]
              ran == Append(Popped.ran, Popped.fn)
              ws == [stack |-> Append(v.stack, v.dep), ran |-> ran, wrote |-> v.wrote]
  <1>5. /\ objs' = d[1]
        /\ open' = Append(open, [stack |-> Append(d[2].stack, d[2].dep), ran |-> ran, wrote |-> v.wrote])
    BY DEF EndTransaction, AddWorldState
  <1>6. <<h, u>> = TransactionEnd(objs, Popped)
    BY DEF TransactionEnd
  <1>7. <<h2, v>> = Copied(h, u)
    BY DEF Copied
  <1>8. d = Dependency(h2, v)
    OBVIOUS
  <1>. HIDE DEF c, e, d
  <1>. HIDE DEF h2, v, h, u
  <1>9. /\ h \in Seq(Dependencies) /\ Len(objs) <= Len(h) /\ Bounded(h, Len(sets))
        /\ Differs(objs, h, Owns(Popped))
        /\ TypedState(u, Len(h)) /\ u.dep # 0 /\ Owns(u) \subseteq Owns(Popped) \cup Fresh(objs, h)
        /\ h[u.dep].ftn_seq = Append(Obj(objs, Popped).ftn_seq, Popped.fn)
        /\ h[u.dep].written = Obj(objs, Popped).written
        /\ Single(Popped) => Single(u)
        /\ u.wrote = Popped.wrote
    BY <1>2, <1>3, <1>6, EndAppends
  <1>10. /\ Follows(h, u, h2, v) /\ v.dep = Len(h) + 1 /\ v.stack = u.stack
    <2>1. h2 = Copied(h, u)[1] /\ v = Copied(h, u)[2]
      BY <1>7
    <2>. QED
      BY <1>9, <2>1, CopiedFollows
  <1>11. /\ Extends(h, h2) /\ h2 \in Seq(Dependencies) /\ Len(h2) \in Nat /\ Len(h) <= Len(h2)
         /\ Len(h) \in Nat /\ TypedState(v, Len(h2)) /\ v.dep # 0 /\ v.dep \in 1..Len(h2)
         /\ Len(objs) <= Len(h2)
    <2>1. Extends(h, h2) /\ TypedState(v, Len(h2)) /\ Len(h) \in Nat
      BY <1>9, <1>10 DEF Follows
    <2>2. h2 \in Seq(Dependencies) /\ Len(h2) \in Nat /\ Len(h) <= Len(h2)
      BY <2>1 DEF Extends
    <2>. QED
      BY <1>3, <1>9, <1>10, <2>1, <2>2 DEF TypedState
  <1>12. objs' = h2 /\ open' = Append(open, ws)
    <2>1. d[1] = h2 /\ d[2] = v
      BY <1>8, <1>11 DEF Dependency
    <2>. QED
      BY <1>5, <2>1
  <1>13. ran \in Seq(Names) /\ Len(ran) = Len(Popped.ran) + 1
    BY <1>3, AppendProperties DEF TypedState
  <1>14. ws \in WorldStates(Len(h2))
    <2>1. v.stack \in Seq(1..Len(h2)) /\ v.wrote \in Seq(SUBSET Slots)
      BY <1>11 DEF TypedState
    <2>2. Append(v.stack, v.dep) \in Seq(1..Len(h2))
      BY <1>11, <2>1, OnTop
    <2>. HIDE DEF ran
    <2>. QED
      BY <1>13, <2>1, <2>2 DEF WorldStates
  <1>. HIDE DEF ran
  <1>15. ws.stack = Append(v.stack, v.dep) /\ ws.ran = ran /\ ws.wrote = v.wrote
    OBVIOUS
  <1>. HIDE DEF ws
  <1>16. Bounded(h2, Len(sets))
    BY <1>2, <1>9, <1>11, BoundedLater
  <1>17. Types' /\ open \in Seq(WorldStates(Len(objs')))
    BY <1>1, <1>4, <1>11, <1>12, <1>14, <1>16, EndedTyped
  <1>18. ASSUME Private, History PROVE History'
    <2>1. /\ Single(Popped) /\ Tells(Obj(objs, Popped), Popped.ran, Popped.wrote, sets)
          /\ Len(Popped.wrote) = Len(Popped.ran) + 1
      BY <1>1, <1>3, <1>18 DEF History, Sound, Good
    <2>2. v.stack = <<>>
      BY <1>9, <1>10, <2>1 DEF Single
    <2>3. ws.stack # <<>> /\ ws.stack[1] = v.dep /\ Len(ws.stack) = 1 /\ Elems(ws.stack) = {v.dep}
      BY <1>15, <2>2, OnTopOfNone
    <2>4. h2[v.dep] = h[u.dep]
      BY <1>9, <1>10, <1>11 DEF Follows, Obj
    <2>5. v.wrote = Popped.wrote
      BY <1>9, <1>10 DEF Follows
    <2>6. Tells(h2[v.dep], ran, v.wrote, sets)
      BY <1>9, <2>1, <2>4, <2>5 DEF Tells, ran
    <2>7. SoundOpen(ws, h2, sets)
      <3>1. RecordedIn(h2, ws) = h2[v.dep]
        BY <2>3 DEF RecordedIn
      <3>. QED
        BY <1>13, <1>15, <2>1, <2>3, <2>5, <2>6, <3>1 DEF SoundOpen
    <2>8. Elems(ws.stack) \subseteq Owns(Popped) \cup Fresh(objs, objs')
      <3>1. v.dep \in Fresh(objs, h2)
        BY <1>3, <1>9, <1>10, <1>11 DEF Fresh
      <3>. QED
        BY <1>12, <2>3, <3>1
    <2>9. Differs(objs, objs', Owns(Popped)) /\ Grows(sets, sets') /\ Mine(Owns(Popped))
      BY <1>1, <1>2, <1>3, <1>9, <1>11, <1>12, <1>18, DiffersLater, SetsStay DEF Mine
    <2>10. SoundOpen(ws, objs', sets') /\ ws \in WorldStates(Len(objs'))
      BY <1>1, <1>12, <1>14, <2>7
    <2>. QED
      BY <1>1, <1>12, <1>17, <1>18, <2>8, <2>9, <2>10, HistoryEnded
  <1>. QED
    BY <1>17, <1>18

LEMMA OffCodeKeeps ==
  ASSUME PotentialIssues, Types, OffCode
  PROVE  Types' /\ (History => History')
  <1>1. /\ work # <<>> /\ Popped.callers = <<>> /\ hooked' = hooked /\ Push(<<>>) /\ Popped.behind = "no"
        /\ sets' = sets /\ cache' = cache /\ search' = search /\ iteration' = iteration
    BY DEF OffCode, Free, Running, issueVars
  <1>2. /\ objs \in Seq(Dependencies) /\ sets \in Seq(SUBSET Slots) /\ cache \subseteq Sites
        /\ Bounded(objs, Len(sets)) /\ Len(sets) \in Nat
    BY DEF Types
  <1>3. /\ Len(objs) \in Nat /\ Popped \in Elems(work) /\ TypedState(Popped, Len(objs))
    BY <1>1, PoppedTyped
  <1>. DEFINE d == Dependency(objs, Popped)
              h == d[1]
              u == d[2]
              ws == [stack |-> Append(u.stack, u.dep), ran |-> Popped.ran, wrote |-> Popped.wrote]
  <1>4. objs' = h /\ open' = Append(open, ws)
    BY DEF OffCode, AddWorldState
  <1>5. Follows(objs, Popped, h, u) /\ u.dep # 0
    BY <1>2, <1>3, DependencyFollows
  <1>. HIDE DEF d
  <1>. HIDE DEF h, u
  <1>6. /\ Extends(objs, h) /\ h \in Seq(Dependencies) /\ Len(h) \in Nat /\ Len(objs) <= Len(h)
        /\ TypedState(u, Len(h)) /\ u.dep \in 1..Len(h)
    <2>1. Extends(objs, h) /\ TypedState(u, Len(h))
      BY <1>5 DEF Follows
    <2>. QED
      BY <1>5, <2>1 DEF Extends, TypedState
  <1>7. ws \in WorldStates(Len(h))
    <2>1. u.stack \in Seq(1..Len(h)) /\ Popped.wrote \in Seq(SUBSET Slots) /\ Popped.ran \in Seq(Names)
      BY <1>3, <1>6 DEF TypedState
    <2>2. Append(u.stack, u.dep) \in Seq(1..Len(h))
      BY <1>6, <2>1, OnTop
    <2>. QED
      BY <2>1, <2>2 DEF WorldStates
  <1>8. ws.stack = Append(u.stack, u.dep) /\ ws.ran = Popped.ran /\ ws.wrote = Popped.wrote
    OBVIOUS
  <1>. HIDE DEF ws
  <1>9. Bounded(h, Len(sets))
    BY <1>2, <1>6, BoundedLater
  <1>10. Types' /\ open \in Seq(WorldStates(Len(objs')))
    BY <1>1, <1>2, <1>4, <1>6, <1>7, <1>9, EndedTyped
  <1>11. ASSUME History PROVE History'
    <2>1. /\ Single(Popped) /\ Tells(Obj(objs, Popped), Popped.ran, Popped.wrote, sets)
          /\ Len(Popped.wrote) = Len(Popped.ran) + 1
      BY <1>1, <1>3, <1>11 DEF History, Sound, Good
    <2>2. u.stack = <<>> /\ h[u.dep] = Obj(objs, Popped) /\ u.dep \in Owns(Popped) \cup Fresh(objs, h)
      <3>1. u.stack = <<>>
        BY <1>5, <2>1 DEF Follows, Single
      <3>2. u.dep \in Owns(u)
        BY <1>5 DEF Owns
      <3>. QED
        BY <1>5, <3>1, <3>2 DEF Follows, Obj, Fresh
    <2>3. ws.stack # <<>> /\ ws.stack[1] = u.dep /\ Len(ws.stack) = 1 /\ Elems(ws.stack) = {u.dep}
      BY <1>8, <2>2, OnTopOfNone
    <2>4. SoundOpen(ws, h, sets)
      <3>1. RecordedIn(h, ws) = h[u.dep]
        BY <2>3 DEF RecordedIn
      <3>. QED
        BY <1>8, <2>1, <2>2, <2>3, <3>1 DEF SoundOpen
    <2>5. Elems(ws.stack) \subseteq Owns(Popped) \cup Fresh(objs, objs')
      BY <1>4, <2>2, <2>3
    <2>6. Differs(objs, objs', Owns(Popped)) /\ Grows(sets, sets') /\ Mine(Owns(Popped))
      BY <1>1, <1>2, <1>4, <1>6, ExtendsDiffers, SetsStay DEF Mine
    <2>7. SoundOpen(ws, objs', sets') /\ ws \in WorldStates(Len(objs'))
      BY <1>1, <1>4, <1>7, <2>4
    <2>. QED
      BY <1>1, <1>4, <1>10, <1>11, <2>5, <2>6, <2>7, HistoryEnded
  <1>. QED
    BY <1>10, <1>11

\* The members of q at the positions T, in their order.
Chosen(q, T) == [n \in 1..Cardinality(T) |-> q[Nth(T, n)]]

LEMMA ChosenOnes ==
  ASSUME NEW W, NEW q \in Seq(W), NEW T \in SUBSET DOMAIN q
  PROVE  /\ Chosen(q, T) \in Seq(W) /\ DOMAIN Chosen(q, T) = 1..Cardinality(T)
         /\ Cardinality(T) \in Nat
         /\ \A n \in 1..Cardinality(T) : Chosen(q, T)[n] = q[Nth(T, n)] /\ Nth(T, n) \in T
         /\ \A n, m \in 1..Cardinality(T) : n # m => Nth(T, n) # Nth(T, m)
  <1>1. Len(q) \in Nat /\ T \in SUBSET (1..Len(q)) /\ \A i \in 1..Len(q) : q[i] \in W
    OBVIOUS
  <1>. DEFINE k == Len(q)
              c == Cardinality(T)
  <1>2. k \in Nat /\ T \in SUBSET (1..k)
    BY <1>1
  <1>. HIDE DEF k, c
  <1>3. /\ c \in Nat
        /\ \A n \in 1..c : Nth(T, n) \in T
        /\ \A n, m \in 1..c : n # m => Nth(T, n) # Nth(T, m)
    BY <1>2, Counting DEF c
  <1>4. Chosen(q, T) = [n \in 1..c |-> q[Nth(T, n)]]
    BY DEF Chosen, c
  <1>5. \A n \in 1..c : q[Nth(T, n)] \in W
    BY <1>1, <1>3
  <1>. DEFINE p == Chosen(q, T)
  <1>6. p \in [1..c -> W] /\ DOMAIN p = 1..c /\ \A n \in 1..c : p[n] = q[Nth(T, n)]
    BY <1>4, <1>5
  <1>. HIDE DEF p
  <1>7. p \in Seq(W)
    BY <1>3, <1>6, FunctionIsSequence
  <1>. QED
    BY <1>3, <1>6, <1>7 DEF p, c

\* A transaction starts on a world state.
LEMMA StartedFacts ==
  ASSUME NEW h \in Seq(Dependencies), NEW ws \in WorldStates(Len(h))
  PROVE  /\ TypedThroughout(Started(ws), Len(h))
         /\ Owns(Started(ws)) = Elems(ws.stack) /\ Lent(Started(ws)) = {}
         /\ \A st : SoundOpen(ws, h, st) => Sound(Started(ws), h, st)
  <1>. DEFINE s == Started(ws)
              w == IF Len(ws.wrote) = Len(ws.ran) THEN Append(ws.wrote, {}) ELSE ws.wrote
  <1>1. /\ ws.stack \in Seq(1..Len(h)) /\ ws.ran \in Seq(Names) /\ ws.wrote \in Seq(SUBSET Slots)
        /\ Len(h) \in Nat
    BY DEF WorldStates
  <1>2. /\ DOMAIN s = Fields /\ s.fn = Fallback /\ s.dep = 0 /\ s.stack = ws.stack
        /\ s.behind = "no" /\ s.callers = <<>> /\ s.ran = ws.ran /\ s.wrote = w
    BY DEF Started, Fields
  <1>. HIDE DEF s
  <1>3. /\ w \in Seq(SUBSET Slots)
        /\ \A n \in Keys : n \in DOMAIN w /\ w[n] # {} => n \in DOMAIN ws.wrote /\ ws.wrote[n] = w[n]
        /\ Len(w) = (IF Len(ws.wrote) = Len(ws.ran) THEN Len(ws.ran) + 1 ELSE Len(ws.wrote))
    <2>1. CASE Len(ws.wrote) = Len(ws.ran)
      <3>. DEFINE q == ws.wrote
                  r == Append(q, {})
      <3>1. w = r /\ q \in Seq(SUBSET Slots) /\ {} \in SUBSET Slots
        BY <1>1, <2>1
      <3>. HIDE DEF q, w
      <3>2. /\ r \in Seq(SUBSET Slots) /\ Len(r) = Len(q) + 1 /\ r[Len(q) + 1] = {}
            /\ \A i \in 1..Len(q) : r[i] = q[i]
        BY <3>1, AppendProperties
      <3>3. Len(q) \in Nat /\ DOMAIN q = 1..Len(q) /\ DOMAIN r = 1..(Len(q) + 1)
        BY <3>1, <3>2
      <3>. HIDE DEF r
      <3>4. \A n \in DOMAIN r : n \in DOMAIN q \/ n = Len(q) + 1
        BY <3>3
      <3>5. \A n \in Keys : n \in DOMAIN r /\ r[n] # {} => n \in DOMAIN q /\ q[n] = r[n]
        BY <3>2, <3>3, <3>4
      <3>. QED
        BY <2>1, <3>1, <3>2, <3>5 DEF q
    <2>2. CASE Len(ws.wrote) # Len(ws.ran)
      <3>1. w = ws.wrote
        BY <2>2
      <3>. HIDE DEF w
      <3>. QED
        BY <1>1, <2>2, <3>1
    <2>. QED
      BY <2>1, <2>2
  <1>. HIDE DEF w
  <1>4. Elems(s.callers) = {}
    BY <1>2, FewStates
  <1>5. TypedThroughout(s, Len(h))
    BY <1>1, <1>2, <1>3, <1>4 DEF TypedThroughout, TypedState, Names
  <1>6. Owns(s) = Elems(ws.stack) /\ Lent(s) = {}
    BY <1>2, <1>4 DEF Owns, Lent
  <1>7. ASSUME NEW st, SoundOpen(ws, h, st)
        PROVE  Sound(s, h, st)
    <2>1. Obj(h, s) = RecordedIn(h, ws)
      <3>1. CASE ws.stack = <<>>
        BY <1>2, <3>1 DEF Obj, RecordedIn
      <3>2. CASE ws.stack # <<>>
        <4>1. Len(ws.stack) = 1
          <5>1. Len(ws.stack) \in Nat /\ (Len(ws.stack) = 0 => ws.stack = <<>>)
            BY <1>1, LengthFacts
          <5>. DEFINE a == Len(ws.stack)
          <5>2. a \in Nat /\ a # 0 /\ a <= 1
            BY <1>7, <3>2, <5>1 DEF SoundOpen
          <5>. HIDE DEF a
          <5>3. a = 1
            BY <5>2
          <5>. QED
            BY <5>3 DEF a
        <4>. QED
          BY <1>2, <3>2, <4>1 DEF Obj, RecordedIn, Last
      <3>. QED
        BY <3>1, <3>2
    <2>2. Tells(Obj(h, s), s.ran, s.wrote, st)
      BY <1>2, <1>3, <1>7, <2>1 DEF SoundOpen, Tells
    <2>3. Len(s.wrote) = Len(s.ran) + 1
      BY <1>2, <1>3, <1>7 DEF SoundOpen
    <2>4. Single(s)
      BY <1>2, <1>7 DEF SoundOpen, Single
    <2>. QED
      BY <1>2, <1>4, <2>2, <2>3, <2>4 DEF Sound, Good
  <1>. QED
    BY <1>5, <1>6, <1>7 DEF s

LEMMA NextRoundKeeps ==
  ASSUME PotentialIssues, Types, NextRound
  PROVE  Types' /\ (History => History')
  <1>1. /\ work = <<>> /\ iteration < Rounds /\ iteration' = iteration + 1
        /\ objs' = objs /\ sets' = sets /\ cache' = cache /\ search' = search /\ hooked' = hooked
    BY DEF NextRound, heaps, issueVars
  <1>2. PICK S \in SUBSET DOMAIN open :
          LET Pick(T) == [n \in 1..Cardinality(T) |->
                            open[CHOOSE j \in T : Cardinality({m \in T : m <= j}) = n]]
              picked == Pick(S)
          IN  /\ work' = [n \in DOMAIN picked |-> Started(picked[n])]
              /\ open' = Pick(DOMAIN open \ S)
    BY DEF NextRound
  <1>. DEFINE R == DOMAIN open \ S
              picked == Chosen(open, S)
  <1>3. work' = [n \in DOMAIN picked |-> Started(picked[n])] /\ open' = Chosen(open, R)
    BY <1>2 DEF Chosen, Nth, UpTo
  <1>4. /\ open \in Seq(WorldStates(Len(objs))) /\ objs \in Seq(Dependencies)
        /\ S \in SUBSET DOMAIN open /\ R \in SUBSET DOMAIN open /\ \A j \in R : j \notin S
    BY DEF Types
  <1>. HIDE DEF R, picked
  <1>5. /\ picked \in Seq(WorldStates(Len(objs))) /\ DOMAIN picked = 1..Cardinality(S)
        /\ \A n \in 1..Cardinality(S) : picked[n] = open[Nth(S, n)] /\ Nth(S, n) \in S
        /\ \A n, m \in 1..Cardinality(S) : n # m => Nth(S, n) # Nth(S, m)
    BY <1>4, ChosenOnes DEF picked
  <1>6. /\ open' \in Seq(WorldStates(Len(objs))) /\ DOMAIN open' = 1..Cardinality(R)
        /\ \A n \in 1..Cardinality(R) : open'[n] = open[Nth(R, n)] /\ Nth(R, n) \in R
        /\ \A n, m \in 1..Cardinality(R) : n # m => Nth(R, n) # Nth(R, m)
    BY <1>3, <1>4, ChosenOnes
  <1>7. /\ DOMAIN work' = 1..Cardinality(S)
        /\ \A n \in 1..Cardinality(S) : /\ work'[n] = Started(open[Nth(S, n)]) /\ Nth(S, n) \in DOMAIN open
                                        /\ open[Nth(S, n)] \in WorldStates(Len(objs))
    BY <1>3, <1>4, <1>5
  <1>8. \A s \in Elems(work') : \E i \in S : i \in DOMAIN open /\ s = Started(open[i])
    BY <1>4, <1>5, <1>7 DEF Elems
  <1>9. \A i \in DOMAIN open : open[i] \in WorldStates(Len(objs))
    BY <1>4
  <1>10. \A s \in Elems(work') : TypedThroughout(s, Len(objs))
    BY <1>4, <1>8, <1>9, StartedFacts
  <1>11. iteration' \in 0..Rounds
    BY <1>1, AnnotationAssumption DEF Types, AnnotationAssumption
  <1>12. Types'
    BY <1>1, <1>6, <1>10, <1>11 DEF Types
  <1>13. ASSUME History PROVE History'
    <2>1. \A i \in DOMAIN open : SoundOpen(open[i], objs, sets)
      BY <1>13 DEF History
    <2>2. \A j, k \in DOMAIN open : j # k => Elems(open[j].stack) \cap Elems(open[k].stack) = {}
      BY <1>13 DEF History, Sharing
    <2>3. \A i \in DOMAIN open : /\ Owns(Started(open[i])) = Elems(open[i].stack)
                                 /\ Lent(Started(open[i])) = {}
                                 /\ Sound(Started(open[i]), objs, sets)
      BY <1>4, <1>9, <2>1, StartedFacts
    <2>4. \A s \in Elems(work') : Sound(s, objs', sets')
      BY <1>1, <1>8, <2>3
    <2>5. \A k \in DOMAIN open' : SoundOpen(open'[k], objs', sets')
      BY <1>1, <1>4, <1>6, <2>1
    <2>6. AllApart(work')
      <3>. SUFFICES ASSUME NEW j \in DOMAIN work', NEW k \in DOMAIN work', j # k
                    PROVE  Owns(work'[j]) \cap Owns(work'[k]) = {}
        BY DEF AllApart, Apart
      <3>1. /\ Nth(S, j) \in DOMAIN open /\ Nth(S, k) \in DOMAIN open /\ Nth(S, j) # Nth(S, k)
            /\ work'[j] = Started(open[Nth(S, j)]) /\ work'[k] = Started(open[Nth(S, k)])
        BY <1>5, <1>7
      <3>. QED
        BY <2>2, <2>3, <3>1
    <2>7. \A s, t \in Elems(work') : Lent(s) \cap Owns(t) = {}
      BY <1>8, <2>3
    <2>8. \A k \in DOMAIN open' : \A s \in Elems(work') : Elems(open'[k].stack) \cap (Owns(s) \cup Lent(s)) = {}
      <3>. SUFFICES ASSUME NEW k \in DOMAIN open', NEW s \in Elems(work')
                    PROVE  Elems(open'[k].stack) \cap (Owns(s) \cup Lent(s)) = {}
        OBVIOUS
      <3>1. PICK i \in S : i \in DOMAIN open /\ s = Started(open[i])
        BY <1>8
      <3>2. open'[k] = open[Nth(R, k)] /\ Nth(R, k) \in DOMAIN open /\ Nth(R, k) # i
        BY <1>4, <1>6
      <3>3. Elems(open[Nth(R, k)].stack) \cap Elems(open[i].stack) = {}
        BY <2>2, <3>1, <3>2
      <3>. QED
        BY <2>3, <3>1, <3>2, <3>3
    <2>9. \A j, k \in DOMAIN open' : j # k => Elems(open'[j].stack) \cap Elems(open'[k].stack) = {}
      <3>. SUFFICES ASSUME NEW j \in DOMAIN open', NEW k \in DOMAIN open', j # k
                    PROVE  Elems(open'[j].stack) \cap Elems(open'[k].stack) = {}
        OBVIOUS
      <3>1. /\ Nth(R, j) \in DOMAIN open /\ Nth(R, k) \in DOMAIN open /\ Nth(R, j) # Nth(R, k)
            /\ open'[j] = open[Nth(R, j)] /\ open'[k] = open[Nth(R, k)]
        BY <1>4, <1>6
      <3>. QED
        BY <2>2, <3>1
    <2>. QED
      BY <2>4, <2>5, <2>6, <2>7, <2>8, <2>9 DEF History, Sharing
  <1>. QED
    BY <1>12, <1>13
-------------------------------------------------------------------------------
(* Theorems about the annotations *)

LEMMA TypesFirst ==
  ASSUME Init
  PROVE  Types
  <1>1. /\ search \in Searches /\ iteration = 0 /\ work = <<>>
        /\ open = <<[stack |-> <<>>, ran |-> <<>>, wrote |-> <<>>]>>
        /\ objs = <<>> /\ sets = <<>> /\ cache = {} /\ hooked = 0
    BY DEF Init
  <1>2. objs \in Seq(Dependencies) /\ sets \in Seq(SUBSET Slots) /\ Len(objs) = 0 /\ DOMAIN objs = {}
    BY <1>1
  <1>3. iteration \in 0..Rounds /\ hooked \in 0..MaxHooked
    BY <1>1, AnnotationAssumption DEF AnnotationAssumption
  <1>4. open \in Seq(WorldStates(Len(objs)))
    <2>. DEFINE ws == [stack |-> <<>>, ran |-> <<>>, wrote |-> <<>>]
    <2>1. /\ <<>> \in Seq(1..Len(objs)) /\ <<>> \in Seq(Names) /\ <<>> \in Seq(SUBSET Slots)
      OBVIOUS
    <2>2. ws \in WorldStates(Len(objs))
      BY <2>1 DEF WorldStates
    <2>3. open = <<ws>>
      BY <1>1
    <2>. HIDE DEF ws
    <2>. QED
      BY <2>2, <2>3
  <1>5. \A s \in Elems(work) : TypedThroughout(s, Len(objs))
    BY <1>1, FewStates
  <1>. QED
    BY <1>1, <1>2, <1>3, <1>4, <1>5 DEF Types, Bounded

LEMMA HistoryFirst ==
  ASSUME Init
  PROVE  History
  <1>. DEFINE ws == [stack |-> <<>>, ran |-> <<>>, wrote |-> <<>>]
  <1>1. work = <<>> /\ open = <<ws>> /\ Elems(work) = {} /\ DOMAIN work = {} /\ Elems(<<>>) = {}
    BY FewStates DEF Init
  <1>2. ws.stack = <<>> /\ ws.ran = <<>> /\ ws.wrote = <<>> /\ DOMAIN ws.wrote = {} /\ Len(<<>>) = 0
    OBVIOUS
  <1>. HIDE DEF ws
  <1>3. DOMAIN open = {1} /\ open[1] = ws
    BY <1>1
  <1>4. SoundOpen(ws, objs, sets)
    BY <1>2, NewDependencyFacts DEF SoundOpen, Tells, RecordedIn
  <1>5. Sharing
    BY <1>1, <1>3 DEF Sharing, AllApart
  <1>. QED
    BY <1>1, <1>3, <1>4, <1>5 DEF History

LEMMA StepKeeps ==
  ASSUME PotentialIssues, Types, [Next]_vars
  PROVE  Types' /\ (Private /\ History => History')
  <1>1. CASE Done \/ UNCHANGED vars
    <2>1. UNCHANGED <<search, iteration, work, open, objs, sets, cache, hooked>>
      BY <1>1 DEF Done, vars, heaps, issueVars
    <2>. QED
      BY <2>1 DEF Types, Bounded, History, Sharing, AllApart
  <1>. QED
    BY <1>1, NextRoundKeeps, PlainKeeps, JumpKeeps, JumpiKeeps, SstoreKeeps, DetectKeeps, CallKeeps,
       EndCallKeeps, RevertCallKeeps, EndTransactionKeeps, FailKeeps, OffCodeKeeps DEF Next

LEMMA TypesAlways == Spec => [](PotentialIssues /\ Types)
  <1>1. Init => PotentialIssues /\ Types
    BY IssuesFirst, TypesFirst
  <1>2. (PotentialIssues /\ Types) /\ [Next]_vars => (PotentialIssues /\ Types)'
    BY IssuesKept, StepKeeps
  <1>. QED
    BY <1>1, <1>2, PTL DEF Spec

\* The heaps, the states and the history keep their types, for every contract, also with
\* DELEGATECALL and a STOP behind a JUMPI.
THEOREM Typed == Spec => []TypeOK
  <1>1. PotentialIssues /\ Types => TypeOK
    <2>. SUFFICES ASSUME PotentialIssues, Types
                  PROVE  TypeOK
      OBVIOUS
    <2>1. Len(objs) \in Nat /\ DOMAIN objs = 1..Len(objs)
      BY DEF Types
    <2>2. \A k \in DOMAIN objs, n \in Keys : objs[k].written[n] <= Len(sets)
      BY DEF Types, Bounded
    <2>3. ASSUME NEW k \in DOMAIN work
          PROVE  /\ work[k].dep \in 0..Len(objs) /\ work[k].pot \in 0..Len(lists)
                 /\ work[k].stack \in Seq(DOMAIN objs)
      <3>1. work[k] \in Elems(work)
        BY DEF Elems
      <3>2. TypedState(work[k], Len(objs)) /\ Backed(work[k], lists)
        BY <3>1 DEF Types, TypedThroughout, PotentialIssues, BackedThroughout
      <3>. QED
        BY <2>1, <3>2 DEF TypedState, Backed
    <2>4. \A k \in DOMAIN open : open[k].stack \in Seq(DOMAIN objs)
      BY <2>1, OpenTyped
    <2>. QED
      BY <2>2, <2>3, <2>4 DEF TypeOK, Types, PotentialIssues
  <1>. QED
    BY <1>1, TypesAlways, PTL

LEMMA HistoryAlways == ASSUME Private PROVE Spec => [](Types /\ History)
  <1>1. Init => Types /\ History
    BY TypesFirst, HistoryFirst
  <1>2. (Types /\ History) /\ PotentialIssues /\ [Next]_vars => (Types /\ History)'
    BY StepKeeps
  <1>. QED
    BY <1>1, <1>2, TypesAlways, PTL DEF Spec

\* The sequence the guided search reads from a world state is the sequence of the
\* transactions that led to it and ended by STOP or RETURN (get_dependency_annotation),
\* for every contract without DELEGATECALL and without a STOP right behind a JUMPI.
THEOREM SequenceTells == ASSUME Private PROVE Spec => []SeqIsPath
  <1>1. Types /\ History => SeqIsPath
    BY DEF History, SoundOpen, Tells, SeqIsPath, Recorded, RecordedIn
  <1>. QED
    BY <1>1, HistoryAlways, PTL

\* What a transaction wrote is known under its number (DependencyAnnotation), for the
\* same contracts.
THEOREM WritesTold == ASSUME Private PROVE Spec => []WritesKnown
  <1>1. Types /\ History => WritesKnown
    BY DEF History, SoundOpen, Tells, WritesKnown, Recorded, RecordedIn
  <1>. QED
    BY <1>1, HistoryAlways, PTL

\* Two states never hold one annotation object, the two sides of a fork excepted until
\* each has executed an instruction (GlobalState.__copy__), for the same contracts.
THEOREM ObjectsPrivate == ASSUME Private PROVE Spec => []AnnotationsPrivate
  <1>1. Types /\ History => AnnotationsPrivate
    <2>. SUFFICES ASSUME Types, History
                  PROVE  AnnotationsPrivate
      OBVIOUS
    <2>1. ASSUME NEW j \in DOMAIN work, NEW k \in DOMAIN work, j # k, work[j].dep # 0, work[j].dep = work[k].dep
          PROVE  work[j].behind # "no" /\ work[k].behind # "no"
      <3>1. work[j].dep \in Owns(work[j]) /\ work[j].dep \in Owns(work[k])
        BY <2>1 DEF Owns
      <3>2. Apart(work[j], work[k])
        BY <2>1 DEF History, Sharing, AllApart
      <3>. QED
        BY <3>1, <3>2 DEF Apart
    <2>2. ASSUME NEW j \in DOMAIN open, NEW k \in DOMAIN open, j # k,
                 NEW a \in DOMAIN open[j].stack, NEW b \in DOMAIN open[k].stack
          PROVE  open[j].stack[a] # open[k].stack[b]
      <3>1. open[j].stack[a] \in Elems(open[j].stack) /\ open[k].stack[b] \in Elems(open[k].stack)
        BY DEF Elems
      <3>. QED
        BY <2>2, <3>1 DEF History, Sharing
    <2>3. ASSUME NEW j \in DOMAIN work, NEW k \in DOMAIN open, NEW a \in DOMAIN open[k].stack
          PROVE  open[k].stack[a] # work[j].dep
      <3>1. open[k].stack[a] \in Elems(open[k].stack) /\ work[j] \in Elems(work)
        BY DEF Elems
      <3>2. open[k].stack[a] \notin Owns(work[j])
        BY <3>1 DEF History, Sharing
      <3>3. open[k].stack[a] # 0
        <4>. DEFINE q == open[k].stack
        <4>1. q \in Seq(1..Len(objs))
          BY OpenTyped
        <4>. HIDE DEF q
        <4>2. Len(objs) \in Nat /\ \A i \in DOMAIN q : q[i] # 0
          BY <4>1 DEF Types
        <4>. QED
          BY <4>2 DEF q
      <3>. QED
        BY <3>2, <3>3 DEF Owns
    <2>. QED
      BY <2>1, <2>2, <2>3 DEF AnnotationsPrivate
  <1>. QED
    BY <1>1, HistoryAlways, PTL
===============================================================================
