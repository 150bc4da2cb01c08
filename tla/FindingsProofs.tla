----------------------------- MODULE FindingsProofs -----------------------------
(* Theorems about Findings, for sessions of any number of contracts, of any code.     *)
EXTENDS Findings, FiniteSetTheorems, SequenceTheorems, TLAPS

-------------------------------------------------------------------------------
(* What a path owes *)

Rep(R, c, module, at) == \E r \in R : r.module = module /\ r.at = at /\ r.code = c
Ran(s, c, ops) == {d \in DOMAIN s.done : c[s.done[d]].op \in ops}
Box(s, bx) == IF s.box \in DOMAIN bx THEN bx[s.box] ELSE {}

\* Some valuation of W stands for what is at the place: it is reported or on the list.
Held(s, R, c, bx, module, at, W) ==
  \/ W = {}
  \/ Rep(R, c, module, at)
  \/ \E f \in Box(s, bx) : f.module = module /\ f.at = at /\ W \subseteq f.when

\* The valuations of a path under which a module has to report an instruction.
AttackModules == {"delegatecall", "write", "calls", "thief"}
Attacks(module, i, models) ==
  CASE module = "delegatecall" -> {m \in models : /\ i.op = "DELEGATECALL" /\ i.to = "user" /\ Forwards(i)
                                                  /\ m.attacker /\ m.ok[i.n] = 1}
    [] module = "write" -> {m \in models : i.op = "SSTORE" /\ i.to = "user"}
    [] module = "calls" -> {m \in models : i.op = "CALL" /\ i.to = "user" /\ Forwards(i)}
    [] OTHER            -> {m \in models \cap Attacked : i.op = "CALL" /\ i.to = "user" /\ i.third > 0}

\* A path that goes on: a report is made, or will be at its end.
RetvalsKept(s, c) ==
  \A d \in Ran(s, c, Calls) :
    c[s.done[d]].to # "loaded" => [at |-> s.done[d], n |-> c[s.done[d]].n] \in s.retvals
SendsKept(s, R, c) ==
  \/ \E d \in Ran(s, c, Calls) : Rep(R, c, "sends", s.done[d])
  \/ /\ Len(s.call_offsets) = Cardinality(Ran(s, c, Calls))
     /\ \A j \in DOMAIN s.call_offsets : \E d \in Ran(s, c, Calls) : s.call_offsets[j] = s.done[d]
CallsKept(s, R, c) ==
  \A d \in Ran(s, c, CALL_LIST) :
    Forwards(c[s.done[d]]) => s.models = {} \/ Rep(R, c, "change", s.done[d]) \/ s.calls # <<>>
ChangesKept(s, R, c, bx) ==
  \A d \in Ran(s, c, STATE_READ_WRITE_LIST), e \in Ran(s, c, CALL_LIST) :
    e < d /\ Forwards(c[s.done[e]]) =>
      Rep(R, c, "change", s.done[e]) \/ Held(s, R, c, bx, "change", s.done[d], s.models)
AttacksKept(s, R, c, bx) ==
  \A d \in DOMAIN s.done, module \in AttackModules :
    Held(s, R, c, bx, module, s.done[d], Attacks(module, c[s.done[d]], s.models))

Pending(s, R, c, bx) ==
  /\ \A d \in DOMAIN s.done : s.done[d] \in DOMAIN c /\ c[s.done[d]].op # "SELFDESTRUCT"
  /\ RetvalsKept(s, c)
  /\ SendsKept(s, R, c)
  /\ CallsKept(s, R, c)
  /\ ChangesKept(s, R, c, bx)
  /\ AttacksKept(s, R, c, bx)

\* A path that was committed.
CallsSettled(s, R, c) ==
  c[Last(s.done)].op # "SELFDESTRUCT" =>
    /\ \A d \in Ran(s, c, Calls) :
         \/ c[s.done[d]].to = "loaded"
         \/ \E v \in 0..1 : \A m \in s.models : m.ok[c[s.done[d]].n] = v
         \/ Rep(R, c, "retval", s.done[d])
    /\ Cardinality(Ran(s, c, Calls)) > 1 => \E d \in Ran(s, c, Calls) : Rep(R, c, "sends", s.done[d])
ChangesSettled(s, R, c) ==
  \A d \in Ran(s, c, STATE_READ_WRITE_LIST), e \in Ran(s, c, CALL_LIST) :
    e < d /\ Forwards(c[s.done[e]]) => Rep(R, c, "change", s.done[d]) \/ Rep(R, c, "change", s.done[e])
AttacksSettled(s, R, c) ==
  \A d \in DOMAIN s.done :
    /\ \A module \in AttackModules :
         Attacks(module, c[s.done[d]], s.models) # {} => Rep(R, c, module, s.done[d])
    /\ c[s.done[d]].op = "SELFDESTRUCT" /\ s.models \cap Attacked # {} => Rep(R, c, "suicide", s.done[d])

Settled(s, R, c) ==
  s.models # {} => CallsSettled(s, R, c) /\ ChangesSettled(s, R, c) /\ AttacksSettled(s, R, c)

PathInv(s, R, c, bx) ==
  /\ s.status = "run" => Pending(s, R, c, bx)
  /\ s.status = "stopped" => Settled(s, R, c)

-------------------------------------------------------------------------------
(* The invariant *)

Potentials == [module : AttackModules \cup {"change"}, at : Nat, when : SUBSET Models]
Annotations == [user : BOOLEAN, touched : BOOLEAN]
Paths == [pc : Nat, models : SUBSET Models, call_offsets : Seq(Nat), retvals : SUBSET [at : Nat, n : Nat],
          calls : Seq(Annotations), last_jump : Nat, box : Nat, done : Seq(Nat),
          status : {"run", "stopped", "failed"}]

\* A module does not look any more where it has reported something.
CacheInv ==
  \A p \in cache : p.module # "exceptions" => Rep(issues \cup report, p.code, p.module, p.at)

Types ==
  /\ codes \in Seq(Seq(Instructions)) /\ contract \in Nat \ {0}
  /\ \A n \in DOMAIN codes : \A p \in DOMAIN codes[n] : codes[n][p].op \in Calls => codes[n][p].n \in 1..3
  /\ paths \in Seq(Paths)
  /\ boxes \in Seq(SUBSET Potentials)
  /\ \A k \in DOMAIN paths : paths[k].box <= Len(boxes)

Inv ==
  /\ Types
  /\ CacheInv
  /\ contract <= Len(codes) =>
       \A k \in DOMAIN paths : PathInv(paths[k], issues \cup report, code, boxes)

-------------------------------------------------------------------------------
(* Lemmas *)

LEMMA RepMore ==
  ASSUME NEW R, NEW Q, R \subseteq Q, NEW c, NEW module, NEW at, Rep(R, c, module, at)
  PROVE  Rep(Q, c, module, at)
  BY DEF Rep

\* Fewer valuations owe less.
LEMMA AttacksShrink ==
  ASSUME NEW models, NEW fewer, fewer \subseteq models, NEW module, NEW i
  PROVE  Attacks(module, i, fewer) \subseteq Attacks(module, i, models)
  BY DEF Attacks

LEMMA HeldKept ==
  ASSUME NEW s, NEW t, NEW R, NEW Q, R \subseteq Q, NEW c, NEW bx, NEW by,
         \A f \in Box(s, bx) : f \in Box(t, by) \/ Rep(Q, c, f.module, f.at),
         NEW module, NEW at, NEW W, NEW V, V \subseteq W, Held(s, R, c, bx, module, at, W)
  PROVE  Held(t, Q, c, by, module, at, V)
  BY RepMore DEF Held

\* A path that does not move.
LEMMA PendingIdle ==
  ASSUME NEW s, NEW R, NEW Q, R \subseteq Q, NEW c, NEW bx, NEW by, Pending(s, R, c, bx),
         \A f \in Box(s, bx) : f \in Box(s, by) \/ Rep(Q, c, f.module, f.at)
  PROVE  Pending(s, Q, c, by)
  <1>1. SendsKept(s, Q, c)
    BY RepMore DEF Pending, SendsKept
  <1>2. CallsKept(s, Q, c)
    BY RepMore DEF Pending, CallsKept
  <1>3. ChangesKept(s, Q, c, by)
    BY RepMore, HeldKept DEF Pending, ChangesKept
  <1>4. AttacksKept(s, Q, c, by)
    BY HeldKept DEF Pending, AttacksKept
  <1>. QED
    BY <1>1, <1>2, <1>3, <1>4 DEF Pending

LEMMA SettledIdle ==
  ASSUME NEW s, NEW R, NEW Q, R \subseteq Q, NEW c, Settled(s, R, c)
  PROVE  Settled(s, Q, c)
  <1>1. CallsSettled(s, R, c) => CallsSettled(s, Q, c)
    BY RepMore DEF CallsSettled
  <1>2. ChangesSettled(s, R, c) => ChangesSettled(s, Q, c)
    BY RepMore DEF ChangesSettled
  <1>3. AttacksSettled(s, R, c) => AttacksSettled(s, Q, c)
    BY RepMore DEF AttacksSettled
  <1>. QED
    BY <1>1, <1>2, <1>3 DEF Settled

LEMMA PathIdle ==
  ASSUME NEW s, NEW R, NEW Q, R \subseteq Q, NEW c, NEW bx, NEW by, PathInv(s, R, c, bx),
         \A f \in Box(s, bx) : f \in Box(s, by) \/ Rep(Q, c, f.module, f.at)
  PROVE  PathInv(s, Q, c, by)
  BY PendingIdle, SettledIdle DEF PathInv

-------------------------------------------------------------------------------
(* A path that goes on *)

\* What the instructions of a path are after one more.
LEMMA RanMore ==
  ASSUME NEW s \in Paths, NEW t \in Paths, t.done = Append(s.done, s.pc), NEW c, NEW ops,
         NEW n, n = Len(s.done) + 1
  PROVE  /\ n \in Nat /\ n \in DOMAIN t.done /\ n \notin DOMAIN s.done /\ t.done[n] = s.pc
         /\ Len(t.done) = n
         /\ DOMAIN t.done = DOMAIN s.done \cup {n}
         /\ \A d \in DOMAIN s.done : t.done[d] = s.done[d] /\ d \in Nat /\ d < n
         /\ Ran(s, c, ops) \subseteq DOMAIN s.done
         /\ Ran(t, c, ops) = IF c[s.pc].op \in ops THEN Ran(s, c, ops) \cup {n} ELSE Ran(s, c, ops)
  <1>1. s.done \in Seq(Nat) /\ s.pc \in Nat
    BY DEF Paths
  <1>2. /\ n \in Nat /\ n \in DOMAIN t.done /\ n \notin DOMAIN s.done /\ t.done[n] = s.pc
        /\ Len(t.done) = n
        /\ DOMAIN t.done = DOMAIN s.done \cup {n}
        /\ \A d \in DOMAIN s.done : t.done[d] = s.done[d] /\ d \in Nat /\ d < n
    BY <1>1, AppendProperties
  <1>. QED
    BY <1>2 DEF Ran

LEMMA RanFinite ==
  ASSUME NEW s \in Paths, NEW c, NEW ops
  PROVE  IsFiniteSet(Ran(s, c, ops))
  <1>1. DOMAIN s.done = 1..Len(s.done) /\ Len(s.done) \in Nat
    BY DEF Paths
  <1>2. IsFiniteSet(DOMAIN s.done)
    BY <1>1, FS_Interval
  <1>. QED
    BY <1>2, FS_Subset DEF Ran

\* The instruction at pc is executed; what it adds is there or held.
LEMMA PendingAdvance ==
  ASSUME NEW s \in Paths, NEW t \in Paths, t.done = Append(s.done, s.pc),
         NEW c, s.pc \in DOMAIN c, c[s.pc].op # "SELFDESTRUCT",
         NEW R, NEW Q, R \subseteq Q, NEW bx, NEW by, Pending(s, R, c, bx),
         \A f \in Box(s, bx) : f \in Box(t, by) \/ Rep(Q, c, f.module, f.at),
         t.models \subseteq s.models, s.retvals \subseteq t.retvals,
         c[s.pc].op \in Calls /\ c[s.pc].to # "loaded" => [at |-> s.pc, n |-> c[s.pc].n] \in t.retvals,
         c[s.pc].op \notin Calls => t.call_offsets = s.call_offsets,
         c[s.pc].op \in Calls => \/ Rep(Q, c, "sends", s.pc)
                                 \/ t.call_offsets = Append(s.call_offsets, s.pc),
         s.calls # <<>> => t.calls # <<>>,
         c[s.pc].op \in CALL_LIST /\ Forwards(c[s.pc]) =>
           t.models = {} \/ Rep(Q, c, "change", s.pc) \/ t.calls # <<>>,
         c[s.pc].op \in STATE_READ_WRITE_LIST /\ s.calls # <<>> => Held(t, Q, c, by, "change", s.pc, t.models),
         \A module \in AttackModules : Held(t, Q, c, by, module, s.pc, Attacks(module, c[s.pc], t.models))
  PROVE  Pending(t, Q, c, by)
  <1> DEFINE n == Len(s.done) + 1
             op == c[s.pc].op
  <1>1. /\ n \in Nat /\ n \in DOMAIN t.done /\ n \notin DOMAIN s.done /\ t.done[n] = s.pc
        /\ DOMAIN t.done = DOMAIN s.done \cup {n}
        /\ \A d \in DOMAIN s.done : t.done[d] = s.done[d] /\ d \in Nat /\ d < n
    BY RanMore
  <1>2. ASSUME NEW ops
        PROVE  /\ Ran(s, c, ops) \subseteq DOMAIN s.done
               /\ Ran(t, c, ops) = IF op \in ops THEN Ran(s, c, ops) \cup {n} ELSE Ran(s, c, ops)
    BY RanMore
  <1>. HIDE DEF n
  <1>3. \A d \in DOMAIN t.done : t.done[d] \in DOMAIN c /\ c[t.done[d]].op # "SELFDESTRUCT"
    BY <1>1 DEF Pending
  <1>4. RetvalsKept(t, c)
    <2> SUFFICES ASSUME NEW d \in Ran(t, c, Calls), c[t.done[d]].to # "loaded"
                 PROVE  [at |-> t.done[d], n |-> c[t.done[d]].n] \in t.retvals
      BY DEF RetvalsKept
    <2>1. CASE d = n
      <3>1. op \in Calls
        BY <1>1, <1>2, <2>1
      <3>. QED
        BY <1>1, <2>1, <3>1
    <2>2. CASE d # n
      <3>1. d \in Ran(s, c, Calls) /\ t.done[d] = s.done[d]
        BY <1>1, <1>2, <2>2
      <3>2. [at |-> s.done[d], n |-> c[s.done[d]].n] \in s.retvals
        BY <3>1 DEF Pending, RetvalsKept
      <3>. QED
        BY <3>1, <3>2
    <2>. QED
      BY <2>1, <2>2
  <1>5. SendsKept(t, Q, c)
    <2>1. CASE \E d \in Ran(s, c, Calls) : Rep(R, c, "sends", s.done[d])
      <3>1. PICK d \in Ran(s, c, Calls) : Rep(R, c, "sends", s.done[d])
        BY <2>1
      <3>2. d \in Ran(t, c, Calls) /\ t.done[d] = s.done[d]
        BY <1>1, <1>2
      <3>. QED
        BY <3>1, <3>2, RepMore DEF SendsKept
    <2>2. CASE ~ \E d \in Ran(s, c, Calls) : Rep(R, c, "sends", s.done[d])
      <3>1. /\ Len(s.call_offsets) = Cardinality(Ran(s, c, Calls))
            /\ \A j \in DOMAIN s.call_offsets : \E d \in Ran(s, c, Calls) : s.call_offsets[j] = s.done[d]
        BY <2>2 DEF Pending, SendsKept
      <3>2. \A d \in Ran(s, c, Calls) : d \in Ran(t, c, Calls) /\ t.done[d] = s.done[d]
        BY <1>1, <1>2
      <3>3. CASE op \notin Calls
        <4>1. Ran(t, c, Calls) = Ran(s, c, Calls) /\ t.call_offsets = s.call_offsets
          BY <1>2, <3>3
        <4>. QED
          BY <3>1, <3>2, <4>1 DEF SendsKept
      <3>4. CASE op \in Calls
        <4>1. Ran(t, c, Calls) = Ran(s, c, Calls) \cup {n} /\ n \notin Ran(s, c, Calls)
          BY <1>1, <1>2, <3>4
        <4>2. CASE Rep(Q, c, "sends", s.pc)
          BY <1>1, <4>1, <4>2 DEF SendsKept
        <4>3. CASE t.call_offsets = Append(s.call_offsets, s.pc)
          <5>1. Cardinality(Ran(t, c, Calls)) = Cardinality(Ran(s, c, Calls)) + 1
            BY <4>1, RanFinite, FS_AddElement
          <5>2. s.call_offsets \in Seq(Nat) /\ s.pc \in Nat
            BY DEF Paths
          <5>3. Len(t.call_offsets) = Len(s.call_offsets) + 1
            BY <4>3, <5>2, AppendProperties
          <5>4. ASSUME NEW j \in DOMAIN t.call_offsets
                PROVE  \E d \in Ran(t, c, Calls) : t.call_offsets[j] = t.done[d]
            <6>1. \/ j \in DOMAIN s.call_offsets /\ t.call_offsets[j] = s.call_offsets[j]
                  \/ t.call_offsets[j] = s.pc
              BY <4>3, <5>2, AppendProperties
            <6>2. CASE j \in DOMAIN s.call_offsets /\ t.call_offsets[j] = s.call_offsets[j]
              BY <3>1, <3>2, <6>2
            <6>3. CASE t.call_offsets[j] = s.pc
              BY <1>1, <4>1, <6>3
            <6>. QED
              BY <6>1, <6>2, <6>3
          <5>. QED
            BY <3>1, <5>1, <5>3, <5>4 DEF SendsKept
        <4>. QED
          BY <3>4, <4>2, <4>3
      <3>. QED
        BY <3>3, <3>4
    <2>. QED
      BY <2>1, <2>2
  <1>6. CallsKept(t, Q, c)
    <2> SUFFICES ASSUME NEW d \in Ran(t, c, CALL_LIST), Forwards(c[t.done[d]])
                 PROVE  t.models = {} \/ Rep(Q, c, "change", t.done[d]) \/ t.calls # <<>>
      BY DEF CallsKept
    <2>1. CASE d = n
      <3>1. op \in CALL_LIST
        BY <1>1, <1>2, <2>1
      <3>. QED
        BY <1>1, <2>1, <3>1
    <2>2. CASE d # n
      <3>1. d \in Ran(s, c, CALL_LIST) /\ t.done[d] = s.done[d]
        BY <1>1, <1>2, <2>2
      <3>2. s.models = {} \/ Rep(R, c, "change", s.done[d]) \/ s.calls # <<>>
        BY <3>1 DEF Pending, CallsKept
      <3>. QED
        BY <3>1, <3>2, RepMore
    <2>. QED
      BY <2>1, <2>2
  <1>7. ChangesKept(t, Q, c, by)
    <2> SUFFICES ASSUME NEW d \in Ran(t, c, STATE_READ_WRITE_LIST), NEW e \in Ran(t, c, CALL_LIST),
                        e < d, Forwards(c[t.done[e]])
                 PROVE  Rep(Q, c, "change", t.done[e]) \/ Held(t, Q, c, by, "change", t.done[d], t.models)
      BY DEF ChangesKept
    <2>1. e \in Ran(s, c, CALL_LIST) /\ t.done[e] = s.done[e]
      <3>1. d \in DOMAIN t.done /\ e # n
        BY <1>1, <1>2
      <3>. QED
        BY <1>1, <1>2, <3>1
    <2>2. CASE d = n
      <3>1. op \in STATE_READ_WRITE_LIST
        BY <1>1, <1>2, <2>2
      <3>2. s.models = {} \/ Rep(R, c, "change", s.done[e]) \/ s.calls # <<>>
        BY <2>1 DEF Pending, CallsKept
      <3>3. s.models = {} => Held(t, Q, c, by, "change", t.done[d], t.models)
        BY DEF Held
      <3>. QED
        BY <1>1, <2>1, <2>2, <3>1, <3>2, <3>3, RepMore
    <2>3. CASE d # n
      <3>1. d \in Ran(s, c, STATE_READ_WRITE_LIST) /\ t.done[d] = s.done[d]
        BY <1>1, <1>2, <2>3
      <3>2. Rep(R, c, "change", s.done[e]) \/ Held(s, R, c, bx, "change", s.done[d], s.models)
        BY <2>1, <3>1 DEF Pending, ChangesKept
      <3>. QED
        BY <2>1, <3>1, <3>2, RepMore, HeldKept
    <2>. QED
      BY <2>2, <2>3
  <1>8. AttacksKept(t, Q, c, by)
    <2> SUFFICES ASSUME NEW d \in DOMAIN t.done, NEW module \in AttackModules
                 PROVE  Held(t, Q, c, by, module, t.done[d], Attacks(module, c[t.done[d]], t.models))
      BY DEF AttacksKept
    <2>1. CASE d = n
      BY <1>1, <2>1
    <2>2. CASE d # n
      <3>1. d \in DOMAIN s.done /\ t.done[d] = s.done[d]
        BY <1>1, <2>2
      <3>2. Held(s, R, c, bx, module, s.done[d], Attacks(module, c[s.done[d]], s.models))
        BY <3>1 DEF Pending, AttacksKept
      <3>3. Attacks(module, c[s.done[d]], t.models) \subseteq Attacks(module, c[s.done[d]], s.models)
        BY AttacksShrink
      <3>. QED
        BY <3>1, <3>2, <3>3, HeldKept
    <2>. QED
      BY <2>1, <2>2
  <1>. QED
    BY <1>3, <1>4, <1>5, <1>6, <1>7, <1>8 DEF Pending

-------------------------------------------------------------------------------
(* A path that is committed *)

LEMMA SettledCommit ==
  ASSUME NEW s \in Paths, NEW t \in Paths, t.done = Append(s.done, s.pc), t.models = s.models,
         NEW c, s.pc \in DOMAIN c, c[s.pc].op \in {"STOP", "RETURN", "SELFDESTRUCT"},
         \A p \in DOMAIN c : c[p].op \in Calls => c[p].n \in 1..3,
         NEW R, NEW Q, R \subseteq Q, NEW bx, Pending(s, R, c, bx),
         \A f \in Box(s, bx) : Possible(s, f) => Rep(Q, c, f.module, f.at),
         c[s.pc].op # "SELFDESTRUCT" => /\ \A r \in UncheckedRetval(s) : Rep(Q, c, "retval", r.at)
                                        /\ \A a \in MultipleSends(s) : Rep(Q, c, "sends", a),
         c[s.pc].op = "SELFDESTRUCT" /\ s.models \cap Attacked # {} => Rep(Q, c, "suicide", s.pc)
  PROVE  Settled(t, Q, c)
  <1> DEFINE n == Len(s.done) + 1
             op == c[s.pc].op
  <1>1. /\ n \in Nat /\ n \in DOMAIN t.done /\ n \notin DOMAIN s.done /\ t.done[n] = s.pc
        /\ Len(t.done) = n
        /\ DOMAIN t.done = DOMAIN s.done \cup {n}
        /\ \A d \in DOMAIN s.done : t.done[d] = s.done[d] /\ d \in Nat /\ d < n
    BY RanMore
  <1>2. ASSUME NEW ops, op \notin ops
        PROVE  Ran(t, c, ops) = Ran(s, c, ops)
    BY <1>2, RanMore
  <1>3. /\ Ran(t, c, Calls) = Ran(s, c, Calls)
        /\ Ran(t, c, CALL_LIST) = Ran(s, c, CALL_LIST)
        /\ Ran(t, c, STATE_READ_WRITE_LIST) = Ran(s, c, STATE_READ_WRITE_LIST)
    <2>1. op \notin Calls /\ op \notin CALL_LIST /\ op \notin STATE_READ_WRITE_LIST
      BY DEF Calls, CALL_LIST, STATE_READ_WRITE_LIST
    <2>. QED
      BY <1>2, <2>1
  <1>4. \A ops : \A d \in Ran(s, c, ops) : d \in DOMAIN s.done /\ t.done[d] = s.done[d] /\ c[s.done[d]].op \in ops
    BY <1>1 DEF Ran
  <1>. HIDE DEF n
  <1> SUFFICES ASSUME s.models # {}
               PROVE  CallsSettled(t, Q, c) /\ ChangesSettled(t, Q, c) /\ AttacksSettled(t, Q, c)
    BY DEF Settled
  <1>5. ASSUME NEW module, NEW at, NEW W, W \subseteq s.models, Held(s, R, c, bx, module, at, W)
        PROVE  W = {} \/ Rep(Q, c, module, at)
    BY <1>5, RepMore DEF Held, Possible
  <1>6. CallsSettled(t, Q, c)
    <2>1. Last(t.done) = s.pc
      BY <1>1 DEF Last
    <2> SUFFICES ASSUME op # "SELFDESTRUCT"
                 PROVE  /\ \A d \in Ran(s, c, Calls) :
                             \/ c[t.done[d]].to = "loaded"
                             \/ \E v \in 0..1 : \A m \in t.models : m.ok[c[t.done[d]].n] = v
                             \/ Rep(Q, c, "retval", t.done[d])
                        /\ Cardinality(Ran(s, c, Calls)) > 1 =>
                             \E d \in Ran(s, c, Calls) : Rep(Q, c, "sends", t.done[d])
      BY <1>3, <2>1 DEF CallsSettled
    <2>2. ASSUME NEW d \in Ran(s, c, Calls), c[s.done[d]].to # "loaded",
                 ~ \E v \in 0..1 : \A m \in s.models : m.ok[c[s.done[d]].n] = v
          PROVE  Rep(Q, c, "retval", s.done[d])
      <3> DEFINE r == [at |-> s.done[d], n |-> c[s.done[d]].n]
      <3>1. r \in s.retvals /\ r.n = c[s.done[d]].n
        BY <2>2 DEF Pending, RetvalsKept
      <3>. HIDE DEF r
      <3>2. c[s.done[d]].n \in 1..3
        BY <1>4 DEF Pending
      <3>3. \A m \in s.models : m.ok[r.n] \in 0..1
        BY <3>1, <3>2 DEF Paths, Models
      <3>4. \A v \in 0..1 : \E m \in s.models : m.ok[r.n] = v
        <4>1. \A v \in 0..1 : ~ \A m \in s.models : m.ok[c[s.done[d]].n] = v
          BY <2>2, Zenon
        <4>2. \A v \in 0..1 : \E m \in s.models : m.ok[r.n] # v
          BY <3>1, <4>1, Zenon
        <4>3. ASSUME NEW v \in 0..1 PROVE \E m \in s.models : m.ok[r.n] = v
          <5>1. PICK m \in s.models : m.ok[r.n] # 1 - v
            BY <4>2
          <5>2. m.ok[r.n] \in 0..1
            BY <3>3, <5>1
          <5>3. m.ok[r.n] = v
            BY <5>1, <5>2
          <5>. QED
            BY <5>1, <5>3
        <4>. QED
          BY <4>3
      <3>5. r \in UncheckedRetval(s)
        BY <3>1, <3>4 DEF UncheckedRetval
      <3>. QED
        BY <3>5 DEF r
    <2>3. ASSUME Cardinality(Ran(s, c, Calls)) > 1
          PROVE  \E d \in Ran(s, c, Calls) : Rep(Q, c, "sends", s.done[d])
      <3>1. CASE \E d \in Ran(s, c, Calls) : Rep(R, c, "sends", s.done[d])
        BY <3>1, RepMore
      <3>2. CASE ~ \E d \in Ran(s, c, Calls) : Rep(R, c, "sends", s.done[d])
        <4>1. /\ Len(s.call_offsets) > 1
              /\ \A j \in DOMAIN s.call_offsets : \E d \in Ran(s, c, Calls) : s.call_offsets[j] = s.done[d]
          BY <2>3, <3>2 DEF Pending, SendsKept
        <4>2. 2 \in DOMAIN s.call_offsets
          BY <4>1 DEF Paths
        <4>3. s.call_offsets[2] \in MultipleSends(s)
          BY <4>1 DEF MultipleSends
        <4>. QED
          BY <4>1, <4>2, <4>3
      <3>. QED
        BY <3>1, <3>2
    <2>. QED
      BY <1>4, <2>2, <2>3
  <1>7. ChangesSettled(t, Q, c)
    <2> SUFFICES ASSUME NEW d \in Ran(s, c, STATE_READ_WRITE_LIST), NEW e \in Ran(s, c, CALL_LIST),
                        e < d, Forwards(c[s.done[e]])
                 PROVE  Rep(Q, c, "change", s.done[d]) \/ Rep(Q, c, "change", s.done[e])
      BY <1>3, <1>4 DEF ChangesSettled
    <2>1. Rep(R, c, "change", s.done[e]) \/ Held(s, R, c, bx, "change", s.done[d], s.models)
      BY DEF Pending, ChangesKept
    <2>. QED
      BY <1>5, <2>1, RepMore
  <1>8. AttacksSettled(t, Q, c)
    <2> SUFFICES ASSUME NEW d \in DOMAIN t.done
                 PROVE  /\ \A module \in AttackModules :
                             Attacks(module, c[t.done[d]], t.models) # {} => Rep(Q, c, module, t.done[d])
                        /\ c[t.done[d]].op = "SELFDESTRUCT" /\ t.models \cap Attacked # {} =>
                             Rep(Q, c, "suicide", t.done[d])
      BY DEF AttacksSettled
    <2>1. CASE d = n
      <3>1. t.done[d] = s.pc
        BY <1>1, <2>1
      <3>2. \A module \in AttackModules : Attacks(module, c[s.pc], t.models) = {}
        BY DEF Attacks
      <3>. QED
        BY <3>1, <3>2
    <2>2. CASE d # n
      <3>1. d \in DOMAIN s.done /\ t.done[d] = s.done[d]
        BY <1>1, <2>2
      <3>2. c[s.done[d]].op # "SELFDESTRUCT"
        BY <3>1 DEF Pending
      <3>3. ASSUME NEW module \in AttackModules, Attacks(module, c[s.done[d]], s.models) # {}
            PROVE  Rep(Q, c, module, s.done[d])
        <4>1. Held(s, R, c, bx, module, s.done[d], Attacks(module, c[s.done[d]], s.models))
          BY <3>1 DEF Pending, AttacksKept
        <4>2. Attacks(module, c[s.done[d]], s.models) \subseteq s.models
          BY DEF Attacks
        <4>. QED
          BY <1>5, <3>3, <4>1, <4>2
      <3>. QED
        BY <3>1, <3>2, <3>3
    <2>. QED
      BY <2>1, <2>2
  <1>. QED
    BY <1>6, <1>7, <1>8

-------------------------------------------------------------------------------
(* What the modules find *)

\* The annotations of the calls of a path, and the change behind one of them.
LEMMA ChangeSteps ==
  ASSUME NEW s \in Paths, NEW i \in Instructions
  PROVE  /\ StateChange(s, i).calls \in Seq(Annotations)
         /\ s.calls # <<>> => StateChange(s, i).calls # <<>>
         /\ i.op \in CALL_LIST /\ Forwards(i) =>
              s.models = {} \/ Cached("change", s.pc) \/ StateChange(s, i).calls # <<>>
         /\ i.op \in STATE_READ_WRITE_LIST /\ s.calls # <<>> =>
              \/ s.models = {} \/ Cached("change", s.pc)
              \/ [module |-> "change", at |-> s.pc, when |-> Models] \in StateChange(s, i).found
         /\ \A f \in StateChange(s, i).found : f = [module |-> "change", at |-> s.pc, when |-> Models]
  <1> DEFINE touched == i.op \in STATE_READ_WRITE_LIST \/ (i.op \in CALL_LIST /\ _balance_change(i))
             calls == [n \in DOMAIN s.calls |-> [s.calls[n] EXCEPT !.touched = @ \/ touched]]
             new == [user |-> i.to = "user", touched |-> FALSE]
  <1>1. s.calls \in Seq(Annotations) /\ touched \in BOOLEAN /\ new \in Annotations
    BY DEF Paths, Annotations
  <1>2. DOMAIN s.calls = 1..Len(s.calls) /\ Len(s.calls) \in Nat
    BY <1>1
  <1>. HIDE DEF touched, new
  <1>3. \A n \in DOMAIN s.calls : calls[n] \in Annotations /\ (touched => calls[n].touched)
    <2> TAKE n \in DOMAIN s.calls
    <2>1. s.calls[n] \in Annotations
      BY <1>1
    <2>2. (s.calls[n].touched \/ touched) \in BOOLEAN
      BY <1>1
    <2>. QED
      BY <2>1, <2>2 DEF Annotations
  <1>4. calls \in Seq(Annotations) /\ DOMAIN calls = DOMAIN s.calls /\ Len(calls) = Len(s.calls)
    <2>1. calls \in [1..Len(s.calls) -> Annotations]
      BY <1>2, <1>3
    <2>. HIDE DEF calls
    <2>. QED
      BY <1>2, <2>1
  <1>5. s.calls # <<>> => calls # <<>> /\ 1 \in DOMAIN calls
    BY <1>1, <1>2, <1>4
  <1>. HIDE DEF calls
  <1>6. Append(calls, new) \in Seq(Annotations) /\ Append(calls, new) # <<>>
    BY <1>1, <1>4, AppendProperties
  <1>7. StateChange(s, i) =
          IF i.op \notin CALL_LIST \cup STATE_READ_WRITE_LIST \/ Cached("change", s.pc)
          THEN [calls |-> s.calls, found |-> {}]
          ELSE [calls |-> IF i.op \in CALL_LIST /\ Forwards(i) /\ s.models # {}
                          THEN Append(calls, new) ELSE calls,
                found |-> IF s.models # {} /\ \E n \in DOMAIN calls : calls[n].touched
                          THEN {[module |-> "change", at |-> s.pc, when |-> Models]} ELSE {}]
    BY DEF StateChange, calls, new, touched
  <1>8. i.op \in STATE_READ_WRITE_LIST => touched
    BY DEF touched
  <1>9. StateChange(s, i).calls \in Seq(Annotations)
    BY <1>1, <1>4, <1>6, <1>7
  <1>10. s.calls # <<>> => StateChange(s, i).calls # <<>>
    BY <1>5, <1>6, <1>7
  <1>11. i.op \in CALL_LIST /\ Forwards(i) =>
           s.models = {} \/ Cached("change", s.pc) \/ StateChange(s, i).calls # <<>>
    BY <1>6, <1>7
  <1>12. ASSUME i.op \in STATE_READ_WRITE_LIST, s.calls # <<>>, s.models # {}, ~Cached("change", s.pc)
         PROVE  [module |-> "change", at |-> s.pc, when |-> Models] \in StateChange(s, i).found
    <2>1. calls[1].touched
      BY <1>3, <1>4, <1>5, <1>8, <1>12
    <2>2. \E n \in DOMAIN calls : calls[n].touched
      BY <1>5, <1>12, <2>1
    <2>. QED
      BY <1>7, <1>12, <2>2
  <1>13. \A f \in StateChange(s, i).found : f = [module |-> "change", at |-> s.pc, when |-> Models]
    BY <1>7
  <1>. QED
    BY <1>9, <1>10, <1>11, <1>12, <1>13

\* What is put on the list.
AskedHere(s, i) == {m \in Asked(i) : m = "thief" \/ ~Cached(m, s.pc)}
Found(s, i) ==
  {f \in StateChange(s, i).found \cup ExternalCalls(s, i) \cup ArbitraryDelegateCall(s, i)
           \cup ArbitraryStorage(s, i) \cup EtherThief(s, i) : f.module \in AskedHere(s, i)}

LEMMA AskedModules ==
  ASSUME NEW i
  PROVE  /\ i.op = "CALL" => "calls" \in Asked(i)
         /\ i.op = "CALL" /\ i.to # "loaded" => "thief" \in Asked(i)
         /\ i.op = "DELEGATECALL" => "delegatecall" \in Asked(i)
         /\ i.op = "SSTORE" => "write" \in Asked(i)
         /\ i.op \in STATE_READ_WRITE_LIST => "change" \in Asked(i)
  <1>1. CASE i.op = "CALL"
    <2>1. Asked(i) = {"change", "calls"} \cup (IF i.to = "loaded" THEN {} ELSE {"thief"})
      BY <1>1 DEF Asked, STATE_READ_WRITE_LIST
    <2>. QED
      BY <1>1, <2>1 DEF STATE_READ_WRITE_LIST
  <1>2. CASE i.op = "DELEGATECALL"
    <2>1. Asked(i) = {"change", "delegatecall"}
      BY <1>2 DEF Asked, STATE_READ_WRITE_LIST
    <2>. QED
      BY <1>2, <2>1 DEF STATE_READ_WRITE_LIST
  <1>3. CASE i.op = "SSTORE"
    <2>1. Asked(i) = {"change", "write"}
      BY <1>3 DEF Asked, STATE_READ_WRITE_LIST
    <2>. QED
      BY <1>3, <2>1
  <1>4. CASE i.op \in STATE_READ_WRITE_LIST \ {"SSTORE"}
    <2>1. Asked(i) = {"change"}
      BY <1>4 DEF Asked, STATE_READ_WRITE_LIST
    <2>. QED
      BY <1>4, <2>1 DEF STATE_READ_WRITE_LIST
  <1>. QED
    BY <1>1, <1>2, <1>3, <1>4

LEMMA FoundTypes ==
  ASSUME NEW s \in Paths, NEW i \in Instructions
  PROVE  Found(s, i) \subseteq Potentials
  <1>1. s.pc \in Nat /\ s.models \subseteq Models
    BY DEF Paths
  <1>2. StateChange(s, i).found \subseteq Potentials
    <2>1. [module |-> "change", at |-> s.pc, when |-> Models] \in Potentials
      BY <1>1 DEF Potentials
    <2>. QED
      BY <2>1, ChangeSteps
  <1>3. ExternalCalls(s, i) \subseteq Potentials
    BY <1>1 DEF ExternalCalls, Potentials, AttackModules
  <1>4. ArbitraryDelegateCall(s, i) \subseteq Potentials
    BY <1>1 DEF ArbitraryDelegateCall, Potentials, AttackModules, Attacked
  <1>5. ArbitraryStorage(s, i) \subseteq Potentials
    BY <1>1 DEF ArbitraryStorage, Potentials, AttackModules
  <1>6. EtherThief(s, i) \subseteq Potentials
    BY <1>1 DEF EtherThief, Potentials, AttackModules
  <1>. QED
    BY <1>2, <1>3, <1>4, <1>5, <1>6 DEF Found

\* What an attacker can do is found, where its module is asked.
LEMMA AttacksFound ==
  ASSUME NEW s \in Paths, NEW i \in Instructions, NEW module \in AttackModules,
         Attacks(module, i, s.models) # {}, ~Cached(module, s.pc)
  PROVE  \E f \in Found(s, i) : /\ f.module = module /\ f.at = s.pc
                                /\ Attacks(module, i, s.models) \subseteq f.when
  <1>1. s.models \subseteq Models
    BY DEF Paths
  <1>2. CASE module = "delegatecall"
    <2> DEFINE f == [module |-> "delegatecall", at |-> s.pc,
                     when |-> IF Forwards(i) /\ i.to = "user" THEN {m \in Attacked : m.ok[i.n] = 1} ELSE {}]
    <2>1. i.op = "DELEGATECALL" /\ i.to = "user" /\ Forwards(i)
      BY <1>2 DEF Attacks
    <2>2. Attacks(module, i, s.models) \subseteq f.when
      BY <1>1, <1>2, <2>1 DEF Attacks, Attacked
    <2>3. module \in AskedHere(s, i)
      BY <1>2, <2>1, AskedModules DEF AskedHere
    <2>4. f \in ArbitraryDelegateCall(s, i)
      BY <2>1 DEF ArbitraryDelegateCall
    <2>5. f \in Found(s, i)
      BY <1>2, <2>3, <2>4 DEF Found
    <2>. QED
      BY <1>2, <2>2, <2>5
  <1>3. CASE module = "write"
    <2> DEFINE f == [module |-> "write", at |-> s.pc, when |-> s.models]
    <2>1. i.op = "SSTORE" /\ i.to = "user"
      BY <1>3 DEF Attacks
    <2>2. module \in AskedHere(s, i) /\ f \in ArbitraryStorage(s, i)
      BY <1>3, <2>1, AskedModules DEF AskedHere, ArbitraryStorage
    <2>3. f \in Found(s, i)
      BY <1>3, <2>2 DEF Found
    <2>4. Attacks(module, i, s.models) \subseteq f.when
      BY <1>3 DEF Attacks
    <2>. QED
      BY <1>3, <2>3, <2>4
  <1>4. CASE module = "calls"
    <2> DEFINE f == [module |-> "calls", at |-> s.pc, when |-> Models]
    <2>1. i.op = "CALL" /\ i.to = "user" /\ Forwards(i) /\ s.models # {}
      BY <1>4 DEF Attacks
    <2>2. module \in AskedHere(s, i) /\ f \in ExternalCalls(s, i)
      BY <1>4, <2>1, AskedModules DEF AskedHere, ExternalCalls
    <2>3. f \in Found(s, i)
      BY <1>4, <2>2 DEF Found
    <2>4. Attacks(module, i, s.models) \subseteq f.when
      BY <1>1, <1>4 DEF Attacks
    <2>. QED
      BY <1>4, <2>3, <2>4
  <1>5. CASE module = "thief"
    <2> DEFINE f == [module |-> "thief", at |-> s.pc, when |-> s.models \cap Attacked]
    <2>1. i.op = "CALL" /\ i.to = "user" /\ i.third > 0 /\ s.models \cap Attacked # {}
      BY <1>5 DEF Attacks
    <2>2. module \in AskedHere(s, i) /\ f \in EtherThief(s, i)
      BY <1>5, <2>1, AskedModules DEF AskedHere, EtherThief
    <2>3. f \in Found(s, i)
      BY <1>5, <2>2 DEF Found
    <2>4. Attacks(module, i, s.models) \subseteq f.when
      BY <1>5 DEF Attacks
    <2>. QED
      BY <1>5, <2>3, <2>4
  <1>. QED
    BY <1>2, <1>3, <1>4, <1>5 DEF AttackModules

LEMMA ChangeFound ==
  ASSUME NEW s \in Paths, NEW i \in Instructions, i.op \in STATE_READ_WRITE_LIST, s.calls # <<>>,
         s.models # {}, ~Cached("change", s.pc)
  PROVE  [module |-> "change", at |-> s.pc, when |-> Models] \in Found(s, i)
  <1>1. "change" \in AskedHere(s, i)
    BY AskedModules DEF AskedHere
  <1>. QED
    BY <1>1, ChangeSteps DEF Found

\* get_potential_issues_annotation: no list loses anything, and the path has what is found.
LEMMA PotentialSteps ==
  ASSUME Types, NEW k \in DOMAIN paths, NEW i \in Instructions
  PROVE  /\ Potential(k, i).boxes \in Seq(SUBSET Potentials)
         /\ Len(boxes) <= Len(Potential(k, i).boxes)
         /\ Potential(k, i).box \in Nat /\ Potential(k, i).box <= Len(Potential(k, i).boxes)
         /\ \A s : Box(s, boxes) \subseteq Box(s, Potential(k, i).boxes)
         /\ \A t : t.box = Potential(k, i).box =>
              /\ Box(paths[k], boxes) \subseteq Box(t, Potential(k, i).boxes)
              /\ Found(paths[k], i) \subseteq Box(t, Potential(k, i).boxes)
  <1> DEFINE s == paths[k]
             found == Found(s, i)
             p == Potential(k, i)
  <1>1. /\ s \in Paths /\ boxes \in Seq(SUBSET Potentials) /\ Len(boxes) \in Nat
        /\ s.box \in Nat /\ s.box <= Len(boxes) /\ DOMAIN boxes = 1..Len(boxes)
        /\ found \in SUBSET Potentials
    <2>1. s \in Paths /\ boxes \in Seq(SUBSET Potentials) /\ s.box <= Len(boxes)
      BY DEF Types
    <2>. HIDE DEF s
    <2>2. s.box \in Nat /\ Found(s, i) \subseteq Potentials
      BY <2>1, FoundTypes DEF Paths
    <2>. QED
      BY <2>1, <2>2
  <1>2. p = IF AskedHere(s, i) = {} THEN [box |-> s.box, boxes |-> boxes]
            ELSE IF s.box = 0 THEN [box |-> Len(boxes) + 1, boxes |-> Append(boxes, found)]
            ELSE [box |-> s.box, boxes |-> [boxes EXCEPT ![s.box] = @ \cup found]]
    BY DEF Potential, AskedHere, Found
  <1>. HIDE DEF p, found, s
  <1>3. CASE AskedHere(s, i) = {}
    <2>1. found = {}
      BY <1>3 DEF found, Found
    <2>. QED
      BY <1>1, <1>2, <1>3, <2>1 DEF p, s, found, Box
  <1>4. CASE AskedHere(s, i) # {} /\ s.box = 0
    <2> DEFINE b == Append(boxes, found)
    <2>1. /\ b \in Seq(SUBSET Potentials) /\ Len(b) = Len(boxes) + 1 /\ DOMAIN b = 1..(Len(boxes) + 1)
          /\ b[Len(boxes) + 1] = found
          /\ \A n \in DOMAIN boxes : b[n] = boxes[n]
      BY <1>1, AppendProperties
    <2>. HIDE DEF b
    <2>2. p.box = Len(boxes) + 1 /\ p.boxes = b
      BY <1>2, <1>4 DEF b
    <2>3. \A u : Box(u, boxes) \subseteq Box(u, b)
      BY <1>1, <2>1 DEF Box
    <2>4. Box(s, boxes) = {}
      BY <1>1, <1>4 DEF Box
    <2>5. \A t : t.box = Len(boxes) + 1 => Box(t, b) = found
      BY <1>1, <2>1 DEF Box
    <2>. QED
      BY <1>1, <2>1, <2>2, <2>3, <2>4, <2>5 DEF p, s, found
  <1>5. CASE AskedHere(s, i) # {} /\ s.box # 0
    <2> DEFINE b == [boxes EXCEPT ![s.box] = boxes[s.box] \cup found]
    <2>1. s.box \in DOMAIN boxes
      BY <1>1, <1>5
    <2>2. boxes[s.box] \cup found \in SUBSET Potentials
      BY <1>1, <2>1
    <2>3. /\ b \in Seq(SUBSET Potentials) /\ Len(b) = Len(boxes) /\ DOMAIN b = DOMAIN boxes
          /\ b[s.box] = boxes[s.box] \cup found
          /\ \A n \in DOMAIN boxes : boxes[n] \subseteq b[n]
      BY <1>1, <2>1, <2>2, ExceptSeq
    <2>. HIDE DEF b
    <2>4. p.box = s.box /\ p.boxes = b
      BY <1>2, <1>5 DEF b
    <2>5. \A u : Box(u, boxes) \subseteq Box(u, b)
      BY <1>1, <2>3 DEF Box
    <2>6. \A t : t.box = s.box => Box(t, b) = boxes[s.box] \cup found /\ Box(s, boxes) = boxes[s.box]
      BY <2>1, <2>3 DEF Box
    <2>. QED
      BY <1>1, <2>3, <2>4, <2>5, <2>6 DEF p, s, found
  <1>. QED
    BY <1>3, <1>4, <1>5

-------------------------------------------------------------------------------
(* The steps *)

\* What holds of a running path and of its instruction.
LEMMA RunningFacts ==
  ASSUME Inv, NEW k \in DOMAIN paths, NEW ops, Running(k, ops)
  PROVE  /\ paths[k] \in Paths /\ paths[k].status = "run" /\ Instr(k) = code[paths[k].pc]
         /\ paths[k].pc \in DOMAIN code /\ Instr(k) \in Instructions /\ Instr(k).op \in ops
         /\ \A p \in DOMAIN code : code[p].op \in Calls => code[p].n \in 1..3
         /\ Pending(paths[k], issues \cup report, code, boxes) /\ contract <= Len(codes)
  <1>1. /\ paths[k] \in Paths /\ contract \in DOMAIN codes /\ code \in Seq(Instructions)
        /\ \A p \in DOMAIN code : code[p].op \in Calls => code[p].n \in 1..3
    BY DEF Inv, Types, Running, code
  <1>2. Instr(k) \in Instructions
    BY <1>1 DEF Running, Instr
  <1>. QED
    BY <1>1, <1>2 DEF Inv, Running, Instr, PathInv

\* One path moves.
LEMMA OneStep ==
  ASSUME Inv, NEW k \in DOMAIN paths, NEW t \in Paths, paths' = [paths EXCEPT ![k] = t],
         UNCHANGED <<codes, contract, report>>, CacheInv',
         issues \cup report \subseteq (issues \cup report)',
         boxes' \in Seq(SUBSET Potentials), Len(boxes) <= Len(boxes'), t.box <= Len(boxes'),
         \A j \in DOMAIN paths : \A f \in Box(paths[j], boxes) :
           f \in Box(paths[j], boxes') \/ Rep((issues \cup report)', code, f.module, f.at),
         PathInv(t, (issues \cup report)', code, boxes')
  PROVE  Inv'
  <1>1. paths \in Seq(Paths) /\ Len(boxes) \in Nat /\ Len(boxes') \in Nat
        /\ \A j \in DOMAIN paths : paths[j].box \in Nat /\ paths[j].box <= Len(boxes)
    <2>1. paths \in Seq(Paths) /\ boxes \in Seq(SUBSET Potentials)
          /\ \A j \in DOMAIN paths : paths[j].box <= Len(boxes)
      BY DEF Inv, Types
    <2>2. \A j \in DOMAIN paths : paths[j] \in Paths
      BY <2>1
    <2>3. \A j \in DOMAIN paths : paths[j].box \in Nat
      BY <2>2 DEF Paths
    <2>4. Len(boxes) \in Nat /\ Len(boxes') \in Nat
      BY <2>1
    <2>. QED
      BY <2>1, <2>3, <2>4
  <1>2. /\ paths' \in Seq(Paths) /\ DOMAIN paths' = DOMAIN paths /\ paths'[k] = t
        /\ \A j \in DOMAIN paths : j # k => paths'[j] = paths[j]
    BY <1>1, ExceptSeq
  <1>3. \A j \in DOMAIN paths' : paths'[j].box <= Len(boxes')
    BY <1>1, <1>2
  <1>4. Types'
    BY <1>2, <1>3 DEF Inv, Types
  <1>5. code' = code
    BY DEF code
  <1>6. ASSUME contract <= Len(codes), NEW j \in DOMAIN paths
        PROVE  PathInv(paths'[j], (issues \cup report)', code, boxes')
    <2>1. CASE j = k
      BY <1>2, <2>1
    <2>2. CASE j # k
      <3> DEFINE s == paths[j]
                 R == issues \cup report
                 Q == (issues \cup report)'
                 c == code
                 bx == boxes
                 by == boxes'
      <3>1. PathInv(s, R, c, bx) /\ R \subseteq Q
        BY <1>6 DEF Inv
      <3>2. \A f \in Box(s, bx) : f \in Box(s, by) \/ Rep(Q, c, f.module, f.at)
        OBVIOUS
      <3>. HIDE DEF s, R, Q, c, bx, by
      <3>3. PathInv(s, Q, c, by)
        BY <3>1, <3>2, PathIdle
      <3>. QED
        BY <1>2, <2>2, <3>3 DEF s, Q, c, by
    <2>. QED
      BY <2>1, <2>2
  <1>. QED
    BY <1>2, <1>4, <1>5, <1>6 DEF Inv

LEMMA Reporting ==
  ASSUME CacheInv, NEW found, Report(found), report' = report
  PROVE  /\ CacheInv' /\ issues \cup report \subseteq (issues \cup report)'
         /\ \A f \in found : Rep((issues \cup report)', code, f.module, f.at)
  <1>1. issues \cup report \subseteq (issues \cup report)'
    BY DEF Report
  <1>2. \A f \in found : Rep((issues \cup report)', code, f.module, f.at)
    <2> TAKE f \in found
    <2>1. Issue(f.module, f.at) \in (issues \cup report)'
      BY DEF Report
    <2>. QED
      BY <2>1 DEF Issue, Rep
  <1>3. ASSUME NEW p \in cache', p.module # "exceptions"
        PROVE  Rep((issues \cup report)', p.code, p.module, p.at)
    <2>1. CASE p \in cache
      <3>1. Rep(issues \cup report, p.code, p.module, p.at)
        BY <1>3, <2>1 DEF CacheInv
      <3>. QED
        BY <1>1, <3>1, RepMore
    <2>2. CASE p \notin cache
      <3>1. PICK f \in found : p = Place(f.module, f.at)
        BY <1>3, <2>2 DEF Report
      <3>2. p.module = f.module /\ p.at = f.at /\ p.code = code
        BY <3>1 DEF Place
      <3>. QED
        BY <1>2, <3>2
    <2>. QED
      BY <2>1, <2>2
  <1>4. CacheInv'
    BY <1>3 DEF CacheInv
  <1>. QED
    BY <1>1, <1>2, <1>4

LEMMA CachedReported ==
  ASSUME CacheInv, NEW module, module # "exceptions", NEW at, Cached(module, at)
  PROVE  Rep(issues \cup report, code, module, at)
  <1>1. Place(module, at) \in cache /\ Place(module, at).module = module /\ Place(module, at).at = at
        /\ Place(module, at).code = code
    BY DEF Cached, Place
  <1>. QED
    BY <1>1 DEF CacheInv

\* A call or an access: what it owes is held.
LEMMA PotentialHeld ==
  ASSUME Inv, NEW k \in DOMAIN paths, NEW i \in Instructions, i = code[paths[k].pc],
         NEW t \in Paths, t.models \subseteq paths[k].models, t.box = Potential(k, i).box,
         NEW Q, issues \cup report \subseteq Q
  PROVE  /\ \A module \in AttackModules :
              Held(t, Q, code, Potential(k, i).boxes, module, paths[k].pc, Attacks(module, i, t.models))
         /\ i.op \in STATE_READ_WRITE_LIST /\ paths[k].calls # <<>> =>
              Held(t, Q, code, Potential(k, i).boxes, "change", paths[k].pc, t.models)
  <1> DEFINE s == paths[k]
             b == Potential(k, i).boxes
  <1>1. s \in Paths /\ s.models \subseteq Models /\ CacheInv /\ Found(s, i) \subseteq Box(t, b)
    <2>1. Types /\ CacheInv /\ s \in Paths
      BY DEF Inv, Types
    <2>2. Found(s, i) \subseteq Box(t, b)
      BY <2>1, PotentialSteps
    <2>. QED
      BY <2>1, <2>2 DEF Paths
  <1>. HIDE DEF s, b
  <1>2. ASSUME NEW module \in AttackModules
        PROVE  Held(t, Q, code, b, module, s.pc, Attacks(module, i, t.models))
    <2>1. Attacks(module, i, t.models) \subseteq Attacks(module, i, s.models)
      BY AttacksShrink DEF s
    <2>2. CASE Attacks(module, i, s.models) = {}
      BY <2>1, <2>2 DEF Held
    <2>3. CASE Cached(module, s.pc)
      <3>1. module # "exceptions"
        BY DEF AttackModules
      <3>. QED
        BY <1>1, <2>3, <3>1, CachedReported, RepMore DEF Held
    <2>4. CASE Attacks(module, i, s.models) # {} /\ ~Cached(module, s.pc)
      <3>1. PICK f \in Found(s, i) : /\ f.module = module /\ f.at = s.pc
                                     /\ Attacks(module, i, s.models) \subseteq f.when
        BY <1>1, <2>4, AttacksFound
      <3>. QED
        BY <1>1, <2>1, <3>1 DEF Held
    <2>. QED
      BY <2>2, <2>3, <2>4
  <1>3. ASSUME i.op \in STATE_READ_WRITE_LIST, s.calls # <<>>
        PROVE  Held(t, Q, code, b, "change", s.pc, t.models)
    <2>1. CASE t.models = {}
      BY <2>1 DEF Held
    <2>2. CASE Cached("change", s.pc)
      BY <1>1, <2>2, CachedReported, RepMore DEF Held
    <2>3. CASE t.models # {} /\ ~Cached("change", s.pc)
      <3> DEFINE f == [module |-> "change", at |-> s.pc, when |-> Models]
      <3>1. s.models # {} /\ t.models \subseteq f.when
        BY <1>1, <2>3 DEF s
      <3>2. f \in Found(s, i)
        BY <1>1, <1>3, <2>3, <3>1, ChangeFound
      <3>. QED
        BY <1>1, <3>1, <3>2 DEF Held
    <2>. QED
      BY <2>1, <2>2, <2>3
  <1>. QED
    BY <1>2, <1>3 DEF s, b

LEMMA DonePath ==
  ASSUME NEW s \in Paths
  PROVE  /\ Done(s) \in Paths /\ Done(s).done = Append(s.done, s.pc) /\ Done(s).models = s.models
         /\ Done(s).call_offsets = s.call_offsets /\ Done(s).retvals = s.retvals
         /\ Done(s).calls = s.calls /\ Done(s).box = s.box /\ Done(s).status = s.status
         /\ Done(s).last_jump = s.last_jump /\ Done(s).pc = s.pc + 1
  <1>1. s.done \in Seq(Nat) /\ s.pc \in Nat /\ s.pc + 1 \in Nat
    BY DEF Paths
  <1>2. Append(s.done, s.pc) \in Seq(Nat)
    BY <1>1
  <1>. QED
    BY <1>1, <1>2 DEF Done, Paths

LEMMA CallInv == Inv /\ Call => Inv'
  <1> SUFFICES ASSUME Inv, Call PROVE Inv'
    OBVIOUS
  <1>1. PICK k \in DOMAIN paths :
          /\ Running(k, Calls)
          /\ paths' = [paths EXCEPT ![k] = [Done(paths[k]) EXCEPT
               !.call_offsets = IF Cached("sends", paths[k].pc) THEN @ ELSE Append(@, paths[k].pc),
               !.retvals = IF Instr(k).to = "loaded" THEN @ ELSE @ \cup {[at |-> paths[k].pc, n |-> Instr(k).n]},
               !.models = IF Instr(k).to = "precompile" THEN {m \in @ : m.ok[Instr(k).n] = 1} ELSE @,
               !.calls = StateChange(paths[k], Instr(k)).calls,
               !.box = Potential(k, Instr(k)).box]]
          /\ boxes' = Potential(k, Instr(k)).boxes
    BY DEF Call
  <1> DEFINE s == paths[k]
             i == Instr(k)
             p == Potential(k, i)
             u == Done(s)
             offsets == IF Cached("sends", s.pc) THEN s.call_offsets ELSE Append(s.call_offsets, s.pc)
             retvals == IF i.to = "loaded" THEN s.retvals ELSE s.retvals \cup {[at |-> s.pc, n |-> i.n]}
             models == IF i.to = "precompile" THEN {m \in s.models : m.ok[i.n] = 1} ELSE s.models
             calls == StateChange(s, i).calls
             t == [u EXCEPT !.call_offsets = offsets, !.retvals = retvals, !.models = models,
                            !.calls = calls, !.box = p.box]
             Q == issues \cup report
  <1>2. UNCHANGED <<codes, contract, cache, issues, report>>
    BY DEF Call
  <1>3. /\ s \in Paths /\ s.status = "run" /\ i = code[s.pc] /\ s.pc \in DOMAIN code /\ i \in Instructions
        /\ i.op \in Calls /\ Pending(s, Q, code, boxes) /\ Types /\ CacheInv
    BY <1>1, RunningFacts DEF Inv
  <1>4. /\ p.boxes \in Seq(SUBSET Potentials) /\ Len(boxes) <= Len(p.boxes)
        /\ p.box \in Nat /\ p.box <= Len(p.boxes)
        /\ \A v : Box(v, boxes) \subseteq Box(v, p.boxes)
        /\ \A v : v.box = p.box => Box(s, boxes) \subseteq Box(v, p.boxes)
    BY <1>3, PotentialSteps
  <1>5. /\ u \in Paths /\ u.done = Append(s.done, s.pc) /\ u.models = s.models
        /\ u.call_offsets = s.call_offsets /\ u.retvals = s.retvals /\ u.status = s.status
    BY <1>3, DonePath
  <1>. HIDE DEF p, u, s, i
  <1>6. /\ offsets \in Seq(Nat) /\ retvals \subseteq [at : Nat, n : Nat] /\ models \subseteq s.models
        /\ calls \in Seq(Annotations) /\ models \subseteq Models
    <2>1. s.call_offsets \in Seq(Nat) /\ s.pc \in Nat /\ s.retvals \subseteq [at : Nat, n : Nat]
          /\ s.models \subseteq Models /\ i.n \in Nat
      BY <1>3 DEF Paths, Instructions
    <2>2. Append(s.call_offsets, s.pc) \in Seq(Nat)
      BY <2>1
    <2>3. offsets \in Seq(Nat)
      BY <2>1, <2>2
    <2>4. retvals \subseteq [at : Nat, n : Nat]
      <3>1. [at |-> s.pc, n |-> i.n] \in [at : Nat, n : Nat]
        BY <2>1
      <3>. QED
        BY <2>1, <3>1
    <2>5. models \subseteq s.models
      OBVIOUS
    <2>6. calls \in Seq(Annotations)
      BY <1>3, ChangeSteps
    <2>. QED
      BY <2>1, <2>3, <2>4, <2>5, <2>6
  <1>7. paths' = [paths EXCEPT ![k] = t]
    BY <1>1, <1>5 DEF p, u, s, i
  <1>. HIDE DEF offsets, retvals, models, calls, t
  <1>8. /\ t \in Paths /\ t.done = Append(s.done, s.pc) /\ t.call_offsets = offsets /\ t.retvals = retvals
        /\ t.models = models /\ t.calls = calls /\ t.box = p.box /\ t.status = "run"
    BY <1>3, <1>4, <1>5, <1>6 DEF t, Paths
  <1>9. /\ \A module \in AttackModules : Held(t, Q, code, p.boxes, module, s.pc, Attacks(module, i, t.models))
        /\ i.op \in STATE_READ_WRITE_LIST /\ s.calls # <<>> => Held(t, Q, code, p.boxes, "change", s.pc, t.models)
    BY <1>3, <1>6, <1>8, PotentialHeld DEF p, s
  <1>10. Pending(t, Q, code, p.boxes)
    <2>1. i.op # "SELFDESTRUCT"
      BY <1>3 DEF Calls
    <2>2. \A f \in Box(s, boxes) : f \in Box(t, p.boxes)
      BY <1>4, <1>8
    <2>3. Rep(Q, code, "sends", s.pc) \/ t.call_offsets = Append(s.call_offsets, s.pc)
      BY <1>3, <1>8, CachedReported DEF offsets
    <2>4. s.retvals \subseteq t.retvals /\ (i.to # "loaded" => [at |-> s.pc, n |-> i.n] \in t.retvals)
      BY <1>8 DEF retvals
    <2>5. s.calls # <<>> => t.calls # <<>>
      BY <1>3, <1>8, ChangeSteps DEF calls
    <2>6. i.op \in CALL_LIST /\ Forwards(i) =>
            t.models = {} \/ Rep(Q, code, "change", s.pc) \/ t.calls # <<>>
      <3>1. i.op \in CALL_LIST /\ Forwards(i) => s.models = {} \/ Cached("change", s.pc) \/ calls # <<>>
        BY <1>3, ChangeSteps DEF calls
      <3>2. Cached("change", s.pc) => Rep(Q, code, "change", s.pc)
        BY <1>3, CachedReported
      <3>. QED
        BY <1>6, <1>8, <3>1, <3>2
    <2> DEFINE c == code
               bx == boxes
               by == p.boxes
    <2>. HIDE DEF Q, c, bx, by
    <2>7. /\ s.pc \in DOMAIN c /\ c[s.pc] = i /\ Pending(s, Q, c, bx)
          /\ \A f \in Box(s, bx) : f \in Box(t, by) \/ Rep(Q, c, f.module, f.at)
      BY <1>3, <2>2 DEF c, bx, by
    <2>8. /\ c[s.pc].op # "SELFDESTRUCT" /\ t.models \subseteq s.models
          /\ s.retvals \subseteq t.retvals
          /\ c[s.pc].op \in Calls /\ c[s.pc].to # "loaded" => [at |-> s.pc, n |-> c[s.pc].n] \in t.retvals
          /\ c[s.pc].op \in Calls
          /\ \/ Rep(Q, c, "sends", s.pc)
             \/ t.call_offsets = Append(s.call_offsets, s.pc)
          /\ s.calls # <<>> => t.calls # <<>>
          /\ c[s.pc].op \in CALL_LIST /\ Forwards(c[s.pc]) =>
               t.models = {} \/ Rep(Q, c, "change", s.pc) \/ t.calls # <<>>
      BY <1>3, <1>6, <1>8, <2>1, <2>3, <2>4, <2>5, <2>6, <2>7 DEF c
    <2>9. /\ c[s.pc].op \in STATE_READ_WRITE_LIST /\ s.calls # <<>> => Held(t, Q, c, by, "change", s.pc, t.models)
          /\ \A module \in AttackModules : Held(t, Q, c, by, module, s.pc, Attacks(module, c[s.pc], t.models))
      BY <1>9, <2>7 DEF c, by
    <2>10. Pending(t, Q, c, by)
      BY <1>3, <1>8, <2>7, <2>8, <2>9, PendingAdvance
    <2>. QED
      BY <2>10 DEF c, by
  <1>11. CacheInv'
    BY <1>2, <1>3 DEF CacheInv
  <1>12. PathInv(t, (issues \cup report)', code, boxes')
    BY <1>1, <1>2, <1>8, <1>10 DEF PathInv, p, i
  <1>. QED
    BY <1>1, <1>2, <1>4, <1>7, <1>8, <1>11, <1>12, OneStep DEF p, i

LEMMA AccessInv == Inv /\ Access => Inv'
  <1> SUFFICES ASSUME Inv, Access PROVE Inv'
    OBVIOUS
  <1>1. PICK k \in DOMAIN paths :
          /\ Running(k, {"SSTORE", "SLOAD", "CREATE", "JUMP", "LOG1"})
          /\ LET s == paths[k]
                 i == Instr(k)
                 p == Potential(k, i)
                 on == [Done(s) EXCEPT !.calls = StateChange(s, i).calls, !.box = p.box]
             IN  /\ paths' = [paths EXCEPT ![k] =
                      IF i.op # "JUMP" THEN on
                      ELSE IF i.to = "user" THEN [on EXCEPT !.status = "failed"]
                      ELSE [on EXCEPT !.last_jump = s.pc, !.pc = i.n]]
                 /\ boxes' = p.boxes
                 /\ Report({[module |-> m, at |-> s.pc] : m \in Immediate(s, i)})
    BY DEF Access
  <1> DEFINE s == paths[k]
             i == Instr(k)
             p == Potential(k, i)
             u == Done(s)
             calls == StateChange(s, i).calls
             on == [u EXCEPT !.calls = calls, !.box = p.box]
             t == IF i.op # "JUMP" THEN on
                  ELSE IF i.to = "user" THEN [on EXCEPT !.status = "failed"]
                  ELSE [on EXCEPT !.last_jump = s.pc, !.pc = i.n]
             R == issues \cup report
             Q == (issues \cup report)'
  <1>2. /\ paths' = [paths EXCEPT ![k] = t] /\ boxes' = p.boxes
        /\ Report({[module |-> m, at |-> s.pc] : m \in Immediate(s, i)})
        /\ UNCHANGED <<codes, contract, report>>
    BY <1>1 DEF Access
  <1>3. /\ s \in Paths /\ s.status = "run" /\ i = code[s.pc] /\ s.pc \in DOMAIN code /\ i \in Instructions
        /\ i.op \in {"SSTORE", "SLOAD", "CREATE", "JUMP", "LOG1"} /\ Pending(s, R, code, boxes)
        /\ Types /\ CacheInv
    BY <1>1, RunningFacts DEF Inv
  <1>4. CacheInv' /\ R \subseteq Q
    BY <1>2, <1>3, Reporting
  <1>5. /\ p.boxes \in Seq(SUBSET Potentials) /\ Len(boxes) <= Len(p.boxes)
        /\ p.box \in Nat /\ p.box <= Len(p.boxes)
        /\ \A v : Box(v, boxes) \subseteq Box(v, p.boxes)
        /\ \A v : v.box = p.box => Box(s, boxes) \subseteq Box(v, p.boxes)
    BY <1>3, PotentialSteps
  <1>6. /\ u \in Paths /\ u.done = Append(s.done, s.pc) /\ u.models = s.models /\ u.calls = s.calls
        /\ u.call_offsets = s.call_offsets /\ u.retvals = s.retvals /\ u.status = s.status
    BY <1>3, DonePath
  <1>7. calls \in Seq(Annotations) /\ (s.calls # <<>> => calls # <<>>)
    BY <1>3, ChangeSteps
  <1>. HIDE DEF p, u, s, i, calls, R, Q
  <1>8. /\ on \in Paths /\ on.done = Append(s.done, s.pc) /\ on.models = s.models /\ on.calls = calls
        /\ on.call_offsets = s.call_offsets /\ on.retvals = s.retvals /\ on.status = "run"
        /\ on.box = p.box
    BY <1>3, <1>5, <1>6, <1>7 DEF Paths
  <1>. HIDE DEF on
  <1>9. /\ t \in Paths /\ t.done = Append(s.done, s.pc) /\ t.models = s.models /\ t.calls = calls
        /\ t.call_offsets = s.call_offsets /\ t.retvals = s.retvals /\ t.status \in {"run", "failed"}
        /\ t.box = p.box
    <2>1. s.pc \in Nat /\ i.n \in Nat
      BY <1>3 DEF Paths, Instructions
    <2>. QED
      BY <1>8, <2>1 DEF Paths
  <1>. HIDE DEF t
  <1>10. /\ \A module \in AttackModules : Held(t, Q, code, p.boxes, module, s.pc, Attacks(module, i, t.models))
         /\ i.op \in STATE_READ_WRITE_LIST /\ s.calls # <<>> => Held(t, Q, code, p.boxes, "change", s.pc, t.models)
    BY <1>3, <1>4, <1>9, PotentialHeld DEF p, s, R
  <1>11. Pending(t, Q, code, p.boxes)
    <2> DEFINE c == code
               bx == boxes
               by == p.boxes
    <2>. HIDE DEF c, bx, by
    <2>1. /\ s.pc \in DOMAIN c /\ c[s.pc] = i /\ Pending(s, R, c, bx)
          /\ \A f \in Box(s, bx) : f \in Box(t, by) \/ Rep(Q, c, f.module, f.at)
      BY <1>3, <1>5, <1>9 DEF c, bx, by
    <2>2. i.op \notin Calls /\ i.op # "SELFDESTRUCT" /\ i.op \notin CALL_LIST
      BY <1>3 DEF Calls, CALL_LIST
    <2>3. /\ c[s.pc].op # "SELFDESTRUCT" /\ t.models \subseteq s.models /\ s.retvals \subseteq t.retvals
          /\ c[s.pc].op \notin Calls /\ t.call_offsets = s.call_offsets /\ c[s.pc].op \notin CALL_LIST
          /\ s.calls # <<>> => t.calls # <<>>
      BY <1>7, <1>9, <2>1, <2>2
    <2>4. /\ c[s.pc].op \in STATE_READ_WRITE_LIST /\ s.calls # <<>> => Held(t, Q, c, by, "change", s.pc, t.models)
          /\ \A module \in AttackModules : Held(t, Q, c, by, module, s.pc, Attacks(module, c[s.pc], t.models))
      BY <1>10, <2>1 DEF c, by
    <2>5. Pending(t, Q, c, by)
      BY <1>3, <1>4, <1>9, <2>1, <2>3, <2>4, PendingAdvance
    <2>. QED
      BY <2>5 DEF c, by
  <1>12. PathInv(t, Q, code, boxes')
    BY <1>2, <1>9, <1>11 DEF PathInv
  <1>13. \A j \in DOMAIN paths : \A f \in Box(paths[j], boxes) :
           f \in Box(paths[j], boxes') \/ Rep(Q, code, f.module, f.at)
    BY <1>2, <1>5
  <1>. QED
    BY <1>2, <1>4, <1>5, <1>9, <1>12, <1>13, OneStep DEF R, Q

LEMMA CommitInv == Inv /\ Commit => Inv'
  <1> SUFFICES ASSUME Inv, Commit PROVE Inv'
    OBVIOUS
  <1>1. PICK k \in DOMAIN paths :
          /\ Running(k, {"STOP", "RETURN", "SELFDESTRUCT"})
          /\ LET s == paths[k]
                 i == Instr(k)
                 box == IF s.box = 0 THEN {} ELSE boxes[s.box]
                 left == Rebound(s)
                 ended == IF i.op = "SELFDESTRUCT" THEN {}
                          ELSE {[module |-> "retval", at |-> r.at] : r \in UncheckedRetval(s)}
                                 \cup {[module |-> "sends", at |-> a] : a \in MultipleSends(s)}
             IN  /\ Report({[module |-> m, at |-> s.pc] : m \in Immediate(s, i)} \cup ended
                             \cup {[module |-> f.module, at |-> f.at] : f \in {g \in box : Possible(s, g)}})
                 /\ boxes' = left.boxes
                 /\ paths' = [paths EXCEPT ![k] = [Done(s) EXCEPT !.status = "stopped", !.box = left.box]]
    BY ZenonT(120) DEF Commit
  <1> DEFINE s == paths[k]
             i == Instr(k)
             box == IF s.box = 0 THEN {} ELSE boxes[s.box]
             unchecked == {[module |-> "retval", at |-> r.at] : r \in UncheckedRetval(s)}
             sends == {[module |-> "sends", at |-> a] : a \in MultipleSends(s)}
             ended == IF i.op = "SELFDESTRUCT" THEN {} ELSE unchecked \cup sends
             now == {[module |-> m, at |-> s.pc] : m \in Immediate(s, i)}
             waiting == {[module |-> f.module, at |-> f.at] : f \in {g \in box : Possible(s, g)}}
             left == Rebound(s)
             t == [Done(s) EXCEPT !.status = "stopped", !.box = left.box]
             R == issues \cup report
             Q == (issues \cup report)'
  <1>2. /\ Report(now \cup ended \cup waiting)
        /\ boxes' = left.boxes
        /\ paths' = [paths EXCEPT ![k] = t]
        /\ UNCHANGED <<codes, contract, report>>
    BY <1>1 DEF Commit
  <1>3. /\ s \in Paths /\ s.status = "run" /\ i = code[s.pc] /\ s.pc \in DOMAIN code /\ i \in Instructions
        /\ i.op \in {"STOP", "RETURN", "SELFDESTRUCT"} /\ Pending(s, R, code, boxes)
        /\ \A p \in DOMAIN code : code[p].op \in Calls => code[p].n \in 1..3
        /\ Types /\ CacheInv
    BY <1>1, RunningFacts DEF Inv
  <1>4. /\ CacheInv' /\ R \subseteq Q
        /\ \A f \in now \cup ended \cup waiting : Rep(Q, code, f.module, f.at)
    BY <1>2, <1>3, Reporting
  <1>5. /\ boxes \in Seq(SUBSET Potentials) /\ Len(boxes) \in Nat /\ DOMAIN boxes = 1..Len(boxes)
        /\ s.box \in Nat /\ s.box <= Len(boxes)
    <2>1. boxes \in Seq(SUBSET Potentials) /\ s.box <= Len(boxes)
      BY <1>3 DEF Types
    <2>. HIDE DEF s
    <2>. QED
      BY <1>3, <2>1 DEF Paths
  <1>6. left.box \in Nat => /\ t \in Paths /\ t.done = Append(s.done, s.pc) /\ t.models = s.models
                            /\ t.status = "stopped" /\ t.box = left.box
    <2> DEFINE u == Done(s)
    <2>1. u \in Paths /\ u.done = Append(s.done, s.pc) /\ u.models = s.models
      BY <1>3, DonePath
    <2>2. t = [u EXCEPT !.status = "stopped", !.box = left.box]
      OBVIOUS
    <2>. HIDE DEF u, t, s, left
    <2>. QED
      BY <2>1, <2>2 DEF Paths
  <1>. HIDE DEF s, i, t, R, Q, left
  <1>7. box = Box(s, boxes)
    BY <1>5 DEF Box
  <1>8. \A f \in Box(s, boxes) : Possible(s, f) => Rep(Q, code, f.module, f.at)
    <2> SUFFICES ASSUME NEW f \in Box(s, boxes), Possible(s, f) PROVE Rep(Q, code, f.module, f.at)
      OBVIOUS
    <2> DEFINE g == [module |-> f.module, at |-> f.at]
    <2>1. g \in waiting
      BY <1>7
    <2>2. Rep(Q, code, g.module, g.at)
      BY <1>4, <2>1
    <2>. QED
      BY <2>2
  <1>9. /\ left.boxes \in Seq(SUBSET Potentials) /\ Len(boxes) <= Len(left.boxes)
        /\ left.box \in Nat /\ left.box <= Len(left.boxes)
        /\ \A v : Box(v, boxes) \subseteq Box(v, left.boxes)
    <2>1. CASE s.box = 0
      <3>1. left = [box |-> 0, boxes |-> boxes]
        BY <2>1 DEF left, Rebound
      <3>. QED
        BY <1>5, <3>1
    <2>2. CASE s.box # 0
      <3> DEFINE rest == {f \in boxes[s.box] : ~Possible(s, f)}
                 b == Append(boxes, rest)
      <3>1. left = [box |-> Len(boxes) + 1, boxes |-> b]
        BY <2>2 DEF left, Rebound
      <3>2. rest \in SUBSET Potentials
        BY <1>5, <2>2
      <3>. HIDE DEF rest
      <3>3. /\ b \in Seq(SUBSET Potentials) /\ Len(b) = Len(boxes) + 1 /\ DOMAIN b = 1..(Len(boxes) + 1)
            /\ \A n \in DOMAIN boxes : b[n] = boxes[n]
        BY <1>5, <3>2, AppendProperties
      <3>. HIDE DEF b
      <3>4. \A v : Box(v, boxes) \subseteq Box(v, b)
        BY <1>5, <3>3 DEF Box
      <3>. QED
        BY <1>5, <3>1, <3>3, <3>4
    <2>. QED
      BY <2>1, <2>2
  <1>10. Settled(t, Q, code)
    <2> DEFINE c == code
    <2>. HIDE DEF c
    <2>1. i.op # "SELFDESTRUCT" => /\ \A r \in UncheckedRetval(s) : Rep(Q, c, "retval", r.at)
                                   /\ \A a \in MultipleSends(s) : Rep(Q, c, "sends", a)
      <3> SUFFICES ASSUME i.op # "SELFDESTRUCT"
                   PROVE  /\ \A r \in UncheckedRetval(s) : Rep(Q, c, "retval", r.at)
                          /\ \A a \in MultipleSends(s) : Rep(Q, c, "sends", a)
        OBVIOUS
      <3>1. \A f \in unchecked \cup sends : Rep(Q, c, f.module, f.at)
        BY <1>4 DEF c
      <3>2. ASSUME NEW r \in UncheckedRetval(s) PROVE Rep(Q, c, "retval", r.at)
        <4> DEFINE f == [module |-> "retval", at |-> r.at]
        <4>1. f \in unchecked /\ f.module = "retval" /\ f.at = r.at
          OBVIOUS
        <4>. HIDE DEF f
        <4>. QED
          BY <3>1, <4>1
      <3>3. ASSUME NEW a \in MultipleSends(s) PROVE Rep(Q, c, "sends", a)
        <4> DEFINE f == [module |-> "sends", at |-> a]
        <4>1. f \in sends /\ f.module = "sends" /\ f.at = a
          OBVIOUS
        <4>. HIDE DEF f
        <4>. QED
          BY <3>1, <4>1
      <3>. QED
        BY <3>2, <3>3
    <2>2. i.op = "SELFDESTRUCT" /\ s.models \cap Attacked # {} => Rep(Q, c, "suicide", s.pc)
      <3> SUFFICES ASSUME i.op = "SELFDESTRUCT", s.models \cap Attacked # {} PROVE Rep(Q, c, "suicide", s.pc)
        OBVIOUS
      <3>1. CASE Cached("suicide", s.pc)
        <4>1. Rep(R, code, "suicide", s.pc)
          BY <1>3, <3>1, CachedReported DEF R
        <4>. QED
          BY <1>4, <4>1, RepMore DEF c
      <3>2. CASE ~Cached("suicide", s.pc)
        <4> DEFINE f == [module |-> "suicide", at |-> s.pc]
        <4>1. "suicide" \in Immediate(s, i)
          BY <3>2 DEF Immediate, AccidentallyKillable
        <4>2. f \in now /\ f.module = "suicide" /\ f.at = s.pc
          BY <4>1
        <4>. HIDE DEF f
        <4>. QED
          BY <1>4, <4>2 DEF c
      <3>. QED
        BY <3>1, <3>2
    <2>3. /\ s.pc \in DOMAIN c /\ c[s.pc] = i /\ Pending(s, R, c, boxes)
          /\ \A p \in DOMAIN c : c[p].op \in Calls => c[p].n \in 1..3
          /\ \A f \in Box(s, boxes) : Possible(s, f) => Rep(Q, c, f.module, f.at)
      BY <1>3, <1>8 DEF c
    <2> DEFINE bx == boxes
    <2>. HIDE DEF bx
    <2>4. Pending(s, R, c, bx) /\ \A f \in Box(s, bx) : Possible(s, f) => Rep(Q, c, f.module, f.at)
      BY <2>3 DEF bx
    <2>5. Settled(t, Q, c)
      BY <1>3, <1>4, <1>6, <1>9, <2>1, <2>2, <2>3, <2>4, SettledCommit
    <2>. QED
      BY <2>5 DEF c
  <1>11. PathInv(t, Q, code, boxes')
    BY <1>6, <1>9, <1>10 DEF PathInv
  <1>12. /\ boxes' \in Seq(SUBSET Potentials) /\ Len(boxes) <= Len(boxes') /\ t.box <= Len(boxes')
         /\ \A j \in DOMAIN paths : \A f \in Box(paths[j], boxes) : f \in Box(paths[j], boxes')
    BY <1>2, <1>6, <1>9
  <1>. QED
    BY <1>2, <1>4, <1>6, <1>9, <1>11, <1>12, OneStep DEF R, Q

LEMMA FailInv == Inv /\ Fail => Inv'
  <1> SUFFICES ASSUME Inv, Fail PROVE Inv'
    OBVIOUS
  <1>1. PICK k \in DOMAIN paths :
          /\ Running(k, {"INVALID", "REVERT"})
          /\ paths' = [paths EXCEPT ![k] = [Done(paths[k]) EXCEPT !.status = "failed"]]
          /\ issues' = issues \cup {Issue(m, paths[k].pc) : m \in Immediate(paths[k], Instr(k))}
          /\ cache' = cache \cup {Place(m, paths[k].last_jump) : m \in Immediate(paths[k], Instr(k))}
    BY DEF Fail
  <1> DEFINE s == paths[k]
             i == Instr(k)
             t == [Done(s) EXCEPT !.status = "failed"]
             R == issues \cup report
             Q == (issues \cup report)'
  <1>2. UNCHANGED <<codes, contract, boxes, report>> /\ paths' = [paths EXCEPT ![k] = t]
    BY <1>1 DEF Fail
  <1>3. s \in Paths /\ i.op \in {"INVALID", "REVERT"} /\ Types /\ CacheInv
    BY <1>1, RunningFacts DEF Inv
  <1>4. Immediate(s, i) \subseteq {"exceptions"}
    BY <1>3 DEF Immediate, AccidentallyKillable, ArbitraryJump, UserAssertions
  <1>5. R \subseteq Q
    BY <1>1, <1>2
  <1>6. CacheInv'
    <2> SUFFICES ASSUME NEW p \in cache', p.module # "exceptions" PROVE Rep(Q, p.code, p.module, p.at)
      BY DEF CacheInv
    <2>1. p \in cache
      BY <1>1, <1>4 DEF Place
    <2>2. Rep(R, p.code, p.module, p.at)
      BY <1>3, <2>1 DEF CacheInv
    <2>. QED
      BY <1>5, <2>2, RepMore
  <1>7. t \in Paths /\ t.status = "failed" /\ t.box = s.box
    <2> DEFINE u == Done(s)
    <2>1. u \in Paths /\ u.box = s.box
      BY <1>3, DonePath
    <2>2. t = [u EXCEPT !.status = "failed"]
      OBVIOUS
    <2>. HIDE DEF u, t, s
    <2>. QED
      BY <2>1, <2>2 DEF Paths
  <1>8. boxes' \in Seq(SUBSET Potentials) /\ Len(boxes) <= Len(boxes') /\ s.box <= Len(boxes')
    <2>1. boxes \in Seq(SUBSET Potentials) /\ s.box <= Len(boxes)
      BY <1>3 DEF Types
    <2>. QED
      BY <1>2, <2>1
  <1>. HIDE DEF s, i, t, R, Q
  <1>9. PathInv(t, Q, code, boxes')
    BY <1>7 DEF PathInv
  <1>10. t.box <= Len(boxes')
    BY <1>7, <1>8
  <1>. QED
    BY <1>2, <1>5, <1>6, <1>7, <1>8, <1>9, <1>10, OneStep DEF R, Q

\* Both branches of a check.
LEMMA JumpiPath ==
  ASSUME Inv, NEW k \in DOMAIN paths, Running(k, {"JUMPI"}), NEW models, models \subseteq paths[k].models,
         NEW pc \in Nat
  PROVE  LET t == [Done(paths[k]) EXCEPT !.models = models, !.pc = pc]
         IN  t \in Paths /\ t.box = paths[k].box /\ PathInv(t, issues \cup report, code, boxes)
  <1> DEFINE s == paths[k]
             u == Done(s)
             t == [u EXCEPT !.models = models, !.pc = pc]
             i == code[s.pc]
             R == issues \cup report
             c == code
             bx == boxes
  <1>1. /\ s \in Paths /\ s.status = "run" /\ s.pc \in DOMAIN c /\ c[s.pc].op = "JUMPI"
        /\ Pending(s, R, c, bx)
    <2>1. Instr(k) = c[s.pc] /\ Instr(k).op \in {"JUMPI"}
      BY RunningFacts
    <2>2. s \in Paths /\ s.status = "run" /\ s.pc \in DOMAIN c /\ Pending(s, R, c, bx)
      BY RunningFacts
    <2>. QED
      BY <2>1, <2>2
  <1>2. /\ u \in Paths /\ u.done = Append(s.done, s.pc) /\ u.models = s.models /\ u.calls = s.calls
        /\ u.call_offsets = s.call_offsets /\ u.retvals = s.retvals /\ u.status = s.status /\ u.box = s.box
    BY <1>1, DonePath
  <1>3. models \subseteq Models /\ models \subseteq s.models
    BY <1>1 DEF Paths
  <1>. HIDE DEF u, s, R, c, bx
  <1>4. /\ t \in Paths /\ t.done = Append(s.done, s.pc) /\ t.models = models /\ t.calls = s.calls
        /\ t.call_offsets = s.call_offsets /\ t.retvals = s.retvals /\ t.status = "run" /\ t.box = s.box
    BY <1>1, <1>2, <1>3 DEF Paths
  <1>. HIDE DEF t
  <1>5. /\ c[s.pc].op \notin Calls /\ c[s.pc].op # "SELFDESTRUCT" /\ c[s.pc].op \notin CALL_LIST
        /\ c[s.pc].op \notin STATE_READ_WRITE_LIST
    BY <1>1 DEF Calls, CALL_LIST, STATE_READ_WRITE_LIST
  <1>6. \A module \in AttackModules : Held(t, R, c, bx, module, s.pc, Attacks(module, c[s.pc], t.models))
    BY <1>1 DEF Held, Attacks
  <1>7. \A f \in Box(s, bx) : f \in Box(t, bx) \/ Rep(R, c, f.module, f.at)
    BY <1>4 DEF Box
  <1>8. t.models \subseteq s.models /\ s.retvals \subseteq t.retvals /\ (s.calls # <<>> => t.calls # <<>>)
    BY <1>3, <1>4
  <1>9. Pending(t, R, c, bx)
    BY <1>1, <1>4, <1>5, <1>6, <1>7, <1>8, PendingAdvance
  <1>10. PathInv(t, R, c, bx)
    BY <1>4, <1>9 DEF PathInv
  <1>. QED
    BY <1>4, <1>10 DEF t, u, s, R, c, bx

LEMMA JumpiInv == Inv /\ Jumpi => Inv'
  <1> SUFFICES ASSUME Inv, Jumpi PROVE Inv'
    OBVIOUS
  <1>1. PICK k \in DOMAIN paths :
          /\ Running(k, {"JUMPI"})
          /\ LET s == Done(paths[k])
                 i == Instr(k)
                 holds == {m \in s.models : IF i.n = 0 THEN ~m.attacker ELSE m.ok[i.n] = 1}
             IN  paths' = Append([paths EXCEPT ![k] = [s EXCEPT !.models = holds]],
                                 [s EXCEPT !.models = @ \ holds,
                                           !.pc = IF i.to = "user" THEN @ + 1 ELSE Len(code)])
    BY Zenon DEF Jumpi
  <1> DEFINE s == paths[k]
             u == Done(s)
             i == Instr(k)
             holds == {m \in u.models : IF i.n = 0 THEN ~m.attacker ELSE m.ok[i.n] = 1}
             pc == IF i.to = "user" THEN u.pc + 1 ELSE Len(code)
             a == [u EXCEPT !.models = holds, !.pc = u.pc]
             b == [u EXCEPT !.models = u.models \ holds, !.pc = pc]
             a1 == [u EXCEPT !.models = holds]
             R == issues \cup report
  <1>2. UNCHANGED <<codes, contract, boxes, cache, issues, report>>
    BY DEF Jumpi
  <1>3. s \in Paths /\ Types /\ CacheInv /\ contract <= Len(codes)
    BY <1>1, RunningFacts DEF Inv
  <1>4. u \in Paths /\ u.models = s.models /\ u.pc \in Nat
    BY <1>3, DonePath DEF Paths
  <1>5. Len(code) \in Nat
    <2>1. contract \in DOMAIN codes /\ codes \in Seq(Seq(Instructions))
      BY <1>3 DEF Types
    <2>. QED
      BY <2>1 DEF code
  <1>6. pc \in Nat /\ holds \subseteq s.models /\ u.models \ holds \subseteq s.models
    BY <1>4, <1>5
  <1>7. a \in Paths /\ a.box = s.box /\ PathInv(a, R, code, boxes)
    BY <1>1, <1>4, <1>6, JumpiPath
  <1>8. b \in Paths /\ b.box = s.box /\ PathInv(b, R, code, boxes)
    BY <1>1, <1>6, JumpiPath
  <1>9. a = a1
    <2>. HIDE DEF u, holds
    <2>. QED
      BY <1>4 DEF Paths
  <1>10. paths' = Append([paths EXCEPT ![k] = a], b)
    <2>1. paths' = Append([paths EXCEPT ![k] = a1], b)
      BY <1>1
    <2>. QED
      BY <1>9, <2>1 DEF a
  <1>. HIDE DEF s, u, i, holds, pc, a, b, R
  <1>11. /\ paths \in Seq(Paths) /\ \A j \in DOMAIN paths : paths[j].box <= Len(boxes)
         /\ s = paths[k]
    BY <1>3 DEF Types, s
  <1>12. /\ [paths EXCEPT ![k] = a] \in Seq(Paths) /\ Len([paths EXCEPT ![k] = a]) = Len(paths)
         /\ DOMAIN [paths EXCEPT ![k] = a] = DOMAIN paths
         /\ \A j \in DOMAIN paths : [paths EXCEPT ![k] = a][j] = IF j = k THEN a ELSE paths[j]
    BY <1>7, <1>11, ExceptSeq
  <1>13. /\ paths' \in Seq(Paths) /\ DOMAIN paths' = 1..(Len(paths) + 1) /\ DOMAIN paths = 1..Len(paths)
         /\ Len(paths) \in Nat
         /\ \A j \in DOMAIN paths : paths'[j] = IF j = k THEN a ELSE paths[j]
         /\ paths'[Len(paths) + 1] = b
    BY <1>8, <1>10, <1>11, <1>12, AppendProperties
  <1>14. \A j \in DOMAIN paths' : j \in DOMAIN paths \/ j = Len(paths) + 1
    BY <1>13
  <1>15. \A j \in DOMAIN paths' : paths'[j].box <= Len(boxes)
    BY <1>7, <1>8, <1>11, <1>13, <1>14
  <1>16. \A j \in DOMAIN paths' : PathInv(paths'[j], R, code, boxes)
    <2>1. \A j \in DOMAIN paths : PathInv(paths[j], R, code, boxes)
      BY <1>3 DEF Inv, R
    <2>. QED
      BY <1>7, <1>8, <1>13, <1>14, <2>1
  <1>17. code' = code
    BY <1>2 DEF code
  <1>18. Types'
    BY <1>2, <1>3, <1>13, <1>15 DEF Types
  <1>19. CacheInv'
    BY <1>2, <1>3 DEF CacheInv
  <1>. QED
    BY <1>2, <1>16, <1>17, <1>18, <1>19 DEF Inv, R

\* A path that starts owes nothing.
LEMMA FirstPath ==
  ASSUME NEW R, NEW c, NEW bx
  PROVE  Path \in Paths /\ PathInv(Path, R, c, bx) /\ Path.box = 0
  <1>1. /\ <<>> \in Seq(Nat) /\ <<>> \in Seq(Annotations)
        /\ {} \in SUBSET [at : Nat, n : Nat] /\ Models \in SUBSET Models
    OBVIOUS
  <1>2. Path \in Paths
    BY <1>1 DEF Path, Paths
  <1>3. /\ Path.done = <<>> /\ DOMAIN Path.done = {} /\ Path.status = "run" /\ Path.box = 0
        /\ Path.call_offsets = <<>>
    BY DEF Path
  <1>4. \A ops : Ran(Path, c, ops) = {}
    BY <1>3 DEF Ran
  <1>5. SendsKept(Path, R, c)
    <2>1. Len(<<>>) = 0 /\ Cardinality({}) = 0 /\ DOMAIN <<>> = {}
      BY FS_EmptySet
    <2>. QED
      BY <1>3, <1>4, <2>1 DEF SendsKept
  <1>6. RetvalsKept(Path, c) /\ CallsKept(Path, R, c) /\ ChangesKept(Path, R, c, bx)
    BY <1>4 DEF RetvalsKept, CallsKept, ChangesKept
  <1>7. AttacksKept(Path, R, c, bx)
    BY <1>3 DEF AttacksKept
  <1>8. Pending(Path, R, c, bx)
    BY <1>3, <1>5, <1>6, <1>7 DEF Pending
  <1>. QED
    BY <1>2, <1>3, <1>8 DEF PathInv

LEMMA StartPaths ==
  ASSUME NEW R, NEW c
  PROVE  /\ <<Path>> \in Seq(Paths) /\ <<>> \in Seq(SUBSET Potentials)
         /\ \A k \in DOMAIN <<Path>> : <<Path>>[k].box <= Len(<<>>) /\ PathInv(<<Path>>[k], R, c, <<>>)
  <1>1. Path \in Paths /\ PathInv(Path, R, c, <<>>) /\ Path.box = 0
    BY FirstPath
  <1>2. \A k \in DOMAIN <<Path>> : <<Path>>[k] = Path
    OBVIOUS
  <1>3. Len(<<>>) = 0 /\ <<>> \in Seq(SUBSET Potentials)
    OBVIOUS
  <1>. HIDE DEF Path
  <1>. QED
    BY <1>1, <1>2, <1>3

LEMMA RetrieveInv == Inv /\ Retrieve => Inv'
  <1> SUFFICES ASSUME Inv, Retrieve PROVE Inv'
    OBVIOUS
  <1>1. /\ contract' = contract + 1 /\ codes' = codes /\ cache' = cache
        /\ (issues \cup report)' = issues \cup report /\ paths' = <<Path>> /\ boxes' = <<>>
    BY DEF Retrieve
  <1>2. Types' /\ \A k \in DOMAIN paths' : PathInv(paths'[k], (issues \cup report)', code', boxes')
    BY <1>1, StartPaths DEF Inv, Types
  <1>3. CacheInv'
    BY <1>1 DEF Inv, CacheInv
  <1>. QED
    BY <1>2, <1>3 DEF Inv

LEMMA InitInv == Init => Inv
  <1> SUFFICES ASSUME Init PROVE Inv
    OBVIOUS
  <1>1. /\ codes \in Seq(Seq(Instructions)) /\ contract \in Nat \ {0}
        /\ \A n \in DOMAIN codes : \A p \in DOMAIN codes[n] : codes[n][p].op \in Calls => codes[n][p].n \in 1..3
    BY SessionsAssumption DEF Init
  <1>2. paths = <<Path>> /\ boxes = <<>> /\ cache = {}
    BY DEF Init
  <1>3. Types /\ \A k \in DOMAIN paths : PathInv(paths[k], issues \cup report, code, boxes)
    BY <1>1, <1>2, StartPaths DEF Types
  <1>. QED
    BY <1>2, <1>3 DEF Inv, CacheInv

LEMMA NextInv == Inv /\ [Next]_vars => Inv'
  <1> SUFFICES ASSUME Inv, [Next]_vars PROVE Inv'
    OBVIOUS
  <1>1. CASE UNCHANGED vars
    BY <1>1 DEF vars, Inv, Types, CacheInv, code
  <1>. QED
    BY <1>1, CallInv, AccessInv, JumpiInv, CommitInv, FailInv, RetrieveInv DEF Next

LEMMA Invariant == Spec => []Inv
  BY InitInv, NextInv, PTL DEF Spec

-------------------------------------------------------------------------------
(* Theorems *)

\* What the invariant says of a path that was committed and is possible.
LEMMA CommittedSettled ==
  ASSUME Inv, NEW k \in DOMAIN paths, Committed(paths[k])
  PROVE  LET R == issues \cup report
         IN  CallsSettled(paths[k], R, code) /\ ChangesSettled(paths[k], R, code) /\ AttacksSettled(paths[k], R, code)
  BY DEF Inv, PathInv, Settled, Committed

LEMMA CallsInv == Inv => CallsReported
  <1> SUFFICES ASSUME Inv, NEW k \in DOMAIN paths, Committed(paths[k]),
                      code[Last(paths[k].done)].op # "SELFDESTRUCT"
               PROVE  LET s == paths[k] IN
                      /\ \A d \in Did(s, Calls) :
                           \/ At(s, d).to = "loaded"
                           \/ \E v \in 0..1 : \A m \in s.models : m.ok[At(s, d).n] = v
                           \/ Reported("retval", s.done[d])
                      /\ Cardinality(Did(s, Calls)) > 1 => \E d \in Did(s, Calls) : Reported("sends", s.done[d])
    BY Zenon DEF CallsReported
  <1>1. CallsSettled(paths[k], issues \cup report, code)
    BY CommittedSettled
  <1>2. Did(paths[k], Calls) = Ran(paths[k], code, Calls)
    BY DEF Did, Ran
  <1>3. \A module, at : Reported(module, at) <=> Rep(issues \cup report, code, module, at)
    BY DEF Reported, Rep
  <1>. QED
    BY <1>1, <1>2, <1>3 DEF CallsSettled, At

LEMMA ChangesInv == Inv => StateChangesReported
  <1> SUFFICES ASSUME Inv, NEW k \in DOMAIN paths, Committed(paths[k]),
                      NEW d \in Did(paths[k], STATE_READ_WRITE_LIST), NEW c \in Did(paths[k], CALL_LIST),
                      c < d, Forwards(At(paths[k], c))
               PROVE  Reported("change", paths[k].done[d]) \/ Reported("change", paths[k].done[c])
    BY Zenon DEF StateChangesReported
  <1>1. ChangesSettled(paths[k], issues \cup report, code)
    BY CommittedSettled
  <1>2. d \in Ran(paths[k], code, STATE_READ_WRITE_LIST) /\ c \in Ran(paths[k], code, CALL_LIST)
    BY DEF Did, Ran
  <1>. QED
    BY <1>1, <1>2 DEF ChangesSettled, At, Reported, Rep

LEMMA AttacksInv == Inv => AttacksReported
  <1> SUFFICES ASSUME Inv, NEW k \in DOMAIN paths, Committed(paths[k]), NEW d \in DOMAIN paths[k].done
               PROVE  LET s == paths[k]
                          i == At(s, d) IN
      /\ i.op = "DELEGATECALL" /\ i.to = "user" /\ Forwards(i)
           /\ (\E m \in s.models : m.attacker /\ m.ok[i.n] = 1) => Reported("delegatecall", s.done[d])
      /\ i.op = "SSTORE" /\ i.to = "user" => Reported("write", s.done[d])
      /\ i.op = "CALL" /\ i.to = "user" /\ Forwards(i) => Reported("calls", s.done[d])
      /\ i.op = "CALL" /\ i.to = "user" /\ i.third > 0 /\ s.models \cap Attacked # {} => Reported("thief", s.done[d])
      /\ i.op = "SELFDESTRUCT" /\ s.models \cap Attacked # {} => Reported("suicide", s.done[d])
    BY Zenon DEF AttacksReported
  <1> DEFINE s == paths[k]
             i == At(s, d)
  <1>1. AttacksSettled(s, issues \cup report, code)
    BY CommittedSettled
  <1>2. i = code[s.done[d]] /\ s.models # {}
    BY DEF At, Committed
  <1>3. \A module, at : Reported(module, at) <=> Rep(issues \cup report, code, module, at)
    BY DEF Reported, Rep
  <1>. HIDE DEF s, i
  <1>4. /\ \A module \in AttackModules : Attacks(module, i, s.models) # {} => Reported(module, s.done[d])
        /\ i.op = "SELFDESTRUCT" /\ s.models \cap Attacked # {} => Reported("suicide", s.done[d])
    BY <1>1, <1>2, <1>3 DEF AttacksSettled, s
  <1>5. "delegatecall" \in AttackModules /\ "write" \in AttackModules /\ "calls" \in AttackModules
        /\ "thief" \in AttackModules
    BY DEF AttackModules
  <1>6. i.op = "DELEGATECALL" /\ i.to = "user" /\ Forwards(i) /\ (\E m \in s.models : m.attacker /\ m.ok[i.n] = 1)
          => Reported("delegatecall", s.done[d])
    <2>1. i.op = "DELEGATECALL" /\ i.to = "user" /\ Forwards(i) /\ (\E m \in s.models : m.attacker /\ m.ok[i.n] = 1)
            => Attacks("delegatecall", i, s.models) # {}
      BY DEF Attacks
    <2>. QED
      BY <1>4, <1>5, <2>1
  <1>7. i.op = "SSTORE" /\ i.to = "user" => Reported("write", s.done[d])
    <2>1. i.op = "SSTORE" /\ i.to = "user" => Attacks("write", i, s.models) # {}
      BY <1>2 DEF Attacks
    <2>. QED
      BY <1>4, <1>5, <2>1
  <1>8. i.op = "CALL" /\ i.to = "user" /\ Forwards(i) => Reported("calls", s.done[d])
    <2>1. i.op = "CALL" /\ i.to = "user" /\ Forwards(i) => Attacks("calls", i, s.models) # {}
      BY <1>2 DEF Attacks
    <2>. QED
      BY <1>4, <1>5, <2>1
  <1>9. i.op = "CALL" /\ i.to = "user" /\ i.third > 0 /\ s.models \cap Attacked # {} => Reported("thief", s.done[d])
    <2>1. i.op = "CALL" /\ i.to = "user" /\ i.third > 0 /\ s.models \cap Attacked # {}
            => Attacks("thief", i, s.models) # {}
      BY DEF Attacks
    <2>. QED
      BY <1>4, <1>5, <2>1
  <1>. QED
    BY <1>4, <1>6, <1>7, <1>8, <1>9 DEF s, i

\* UncheckedRetval and MultipleSends (unchecked_retval.py, multiple_sends.py) miss no call of a
\* path that is committed by STOP or RETURN: a result that is left open is reported, and of
\* several calls one, though other paths and contracts fill the caches the modules look in.
THEOREM CallsAreReported == Spec => []CallsReported
  BY Invariant, CallsInv, PTL

\* StateChangeAfterCall (state_change_external_calls.py): a storage access or a creation behind
\* a call that forwards gas is reported on every committed path, at the access or at the call,
\* through the list check_potential_issues settles at the end (potential_issues.py).
THEOREM StateChangesAreReported == Spec => []StateChangesReported
  BY Invariant, ChangesInv, PTL

\* ArbitraryDelegateCall, ArbitraryStorage, ExternalCalls, EtherThief and AccidentallyKillable:
\* what the attacker can do on a committed path is in the report, although the list of
\* potential issues is shared by the paths of a fork and each removes from it what it reports.
THEOREM AttacksAreReported == Spec => []AttacksReported
  BY Invariant, AttacksInv, PTL
===============================================================================
