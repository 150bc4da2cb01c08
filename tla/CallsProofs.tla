------------------------------ MODULE CallsProofs ------------------------------
(* Theorems about Calls, for paths, call stacks and sequences of transactions of any  *)
(* length.                                                                            *)
EXTENDS Calls, SequenceTheorems, TLAPS

-------------------------------------------------------------------------------
(* The invariant *)

Worlds == [storage : [Addresses -> 0..1], balance : [Addresses -> Int],
           exists : SUBSET Addresses, dead : SUBSET Addresses]
Opened == Ops \cup {"CREATE"}
Frames == [op : Opened \cup {"TX"}, self : Addresses, sender : Addresses, value : 0..1,
           static : BOOLEAN, saved : Worlds, height : Int, result : Int, data : Int]
Statuses == {"open", "run", "apart", "dropped", "infeasible", "ended"}
Machines == [frames : Seq(Frames), world : Worlds, round : Nat, status : Statuses]

\* No account owes anything.
Solvent(world) == \A a \in Addresses : world.balance[a] >= 0

Unwritten(world, saved) == world.storage = saved.storage /\ world.exists = saved.exists

\* A running machine has a frame, every frame but the first was opened by an instruction;
\* a static frame opens static frames only, and the world is the one it started in.
Sound(s) ==
  /\ s \in Machines
  /\ s.status = "run" => s.frames # <<>>
  /\ Solvent(s.world)
  /\ \A i \in DOMAIN s.frames :
       /\ i > 1 => s.frames[i].op \in Opened
       /\ Solvent(s.frames[i].saved)
       /\ s.frames[i].op = "STATICCALL" => s.frames[i].static
       /\ s.frames[i].static => Unwritten(s.world, s.frames[i].saved)
  /\ \A i, j \in DOMAIN s.frames : i < j /\ s.frames[i].static => s.frames[j].static

\* The two machines, as long as the path is followed.
SameWorld(w, v) == w.storage = v.storage /\ w.balance = v.balance /\ w.exists = v.exists
SameFrame(f, g) ==
  /\ f.op = g.op /\ f.self = g.self /\ f.sender = g.sender /\ f.value = g.value
  /\ f.static = g.static /\ f.height = g.height
  /\ SameWorld(f.saved, g.saved)
  /\ f.result \in {Any, g.result}
  /\ returndatasize_(f) \in {Any, returndatasize_(g)}
SameFrames(F, G) == Len(F) = Len(G) /\ \A i \in DOMAIN F : SameFrame(F[i], G[i])

Agree(s, t) ==
  /\ t.status = "open" => s.status # "run"
  /\ t.status = "run" => s.status # "open"
  /\ t.status \in {"run", "open"} /\ s.status = t.status =>
       /\ SameWorld(s.world, t.world)
       /\ s.status = "run" => SameFrames(s.frames, t.frames)

Inv == Sound(x) /\ y \in Machines /\ Agree(x, y)
-------------------------------------------------------------------------------
(* Lemmas about worlds *)

LEMMA CopiedWorld ==
  ASSUME NEW w \in Worlds
  PROVE  /\ Copied(w) \in Worlds
         /\ SameWorld(Copied(w), w)
  BY DEF Copied, Worlds, SameWorld

LEMMA MovedWorld ==
  ASSUME NEW w \in Worlds, NEW from \in Addresses, NEW to \in Addresses, NEW v \in Nat
  PROVE  /\ Moved(w, from, to, v) \in Worlds
         /\ Unwritten(Moved(w, from, to, v), w)
         /\ v = 0 \/ from = to => SameWorld(Moved(w, from, to, v), w)
         /\ Solvent(w) /\ CanPay(w, from, v) => Solvent(Moved(w, from, to, v))
  <1> DEFINE m == Moved(w, from, to, v)
             b == [w.balance EXCEPT ![to] = @ + v]
  <1>1. w.balance \in [Addresses -> Int] /\ v \in Int
    BY DEF Worlds
  <1>2. m = [w EXCEPT !.balance = [b EXCEPT ![from] = @ - v]]
    BY DEF Moved, b
  <1>3. b \in [Addresses -> Int] /\ [b EXCEPT ![from] = @ - v] \in [Addresses -> Int]
    BY <1>1
  <1>. HIDE DEF m, b
  <1>4. /\ m \in Worlds /\ m.balance = [b EXCEPT ![from] = @ - v]
        /\ m.storage = w.storage /\ m.exists = w.exists
    BY <1>2, <1>3 DEF Worlds
  <1>5. \A a \in Addresses : m.balance[a] = IF from = to THEN w.balance[a]
                                           ELSE IF a = from THEN w.balance[a] - v
                                           ELSE IF a = to THEN w.balance[a] + v ELSE w.balance[a]
    BY <1>1, <1>3, <1>4 DEF b
  <1>6. v = 0 \/ from = to => m.balance = w.balance
    <2>1. m.balance \in [Addresses -> Int]
      BY <1>3, <1>4
    <2>. QED
      BY <1>1, <1>5, <2>1
  <1>7. Solvent(w) /\ CanPay(w, from, v) => Solvent(m)
    BY <1>1, <1>5 DEF Solvent, CanPay
  <1>. QED
    BY <1>4, <1>6, <1>7 DEF m, Unwritten, SameWorld

\* Worlds that agree can pay the same, and agree after a payment.
LEMMA PaidWorlds ==
  ASSUME NEW w \in Worlds, NEW u \in Worlds, SameWorld(w, u), NEW from \in Addresses,
         NEW to \in Addresses, NEW v \in 0..1
  PROVE  /\ CanPay(w, from, v) <=> CanPay(u, from, v)
         /\ SameWorld(Moved(w, from, to, v), Moved(u, from, to, v))
  BY DEF SameWorld, CanPay, Moved, Worlds

-------------------------------------------------------------------------------
(* Lemmas about frames *)

LEMMA NewFrame ==
  ASSUME NEW op \in Opened \cup {"TX"}, NEW self \in Addresses, NEW sender \in Addresses,
         NEW value \in 0..1, NEW static \in BOOLEAN, NEW saved \in Worlds
  PROVE  /\ Frame(op, self, sender, value, static, saved) \in Frames
         /\ \A u \in Worlds : SameWorld(saved, u) =>
              SameFrame(Frame(op, self, sender, value, static, saved), Frame(op, self, sender, value, static, u))
  <1>1. None \in Int
    BY DEF None
  <1>. QED
    BY <1>1 DEF Frame, Frames, SameFrame, returndatasize_

\* A caller with an answer is the frame it was, as far as its context goes.
Told(f, n, result, data) == [Answer(f, n, result) EXCEPT !.data = data]

LEMMA AnsweredFrame ==
  ASSUME NEW f \in Frames, NEW n \in Int, NEW result \in Int, NEW data \in Int
  PROVE  /\ Told(f, n, result, data) \in Frames
         /\ Answer(f, n, result) = Told(f, n, result, f.data)
         /\ Told(f, n, result, data).op = f.op
         /\ Told(f, n, result, data).self = f.self
         /\ Told(f, n, result, data).sender = f.sender
         /\ Told(f, n, result, data).value = f.value
         /\ Told(f, n, result, data).static = f.static
         /\ Told(f, n, result, data).saved = f.saved
         /\ Told(f, n, result, data).height = f.height - n + 1
         /\ Told(f, n, result, data).result = result
         /\ Told(f, n, result, data).data = data
  <1> DEFINE h == f.height - n + 1
             a == [f EXCEPT !.height = h, !.result = result]
  <1>1. h \in Int
    BY DEF Frames
  <1>2. Answer(f, n, result) = a
    BY DEF Answer
  <1>. HIDE DEF h
  <1>3. \A d \in Int : [a EXCEPT !.data = d] = [f EXCEPT !.height = h, !.result = result, !.data = d]
    BY <1>1 DEF Frames
  <1>4. a = [a EXCEPT !.data = f.data]
    BY <1>1 DEF Frames
  <1>5. \A d \in Int : LET g == [f EXCEPT !.height = h, !.result = result, !.data = d]
                       IN  /\ g \in Frames
                           /\ g.op = f.op /\ g.self = f.self /\ g.sender = f.sender /\ g.value = f.value
                           /\ g.static = f.static /\ g.saved = f.saved /\ g.height = h
                           /\ g.result = result /\ g.data = d
    BY <1>1 DEF Frames
  <1>. HIDE DEF a
  <1>. QED
    BY <1>2, <1>3, <1>4, <1>5 DEF Told, h

\* Answers that agree leave callers that agree.
LEMMA AnsweredAlike ==
  ASSUME NEW f \in Frames, NEW g \in Frames, SameFrame(f, g), NEW n \in Int,
         NEW r \in Int, NEW rr \in Int, NEW d \in Int, NEW dd \in Int,
         r \in {Any, rr},
         (IF d = None THEN 0 ELSE d) \in {Any, IF dd = None THEN 0 ELSE dd}
  PROVE  SameFrame(Told(f, n, r, d), Told(g, n, rr, dd))
  BY AnsweredFrame DEF SameFrame, returndatasize_

-------------------------------------------------------------------------------
(* Lemmas about machines *)

LEMMA Parts ==
  ASSUME NEW s \in Machines
  PROVE  /\ s.frames \in Seq(Frames) /\ s.world \in Worlds /\ s.round \in Nat /\ s.status \in Statuses
         /\ Len(s.frames) \in Nat /\ DOMAIN s.frames = 1..Len(s.frames)
         /\ \A i \in DOMAIN s.frames : s.frames[i] \in Frames
         /\ s.frames # <<>> => Len(s.frames) \in DOMAIN s.frames /\ Top(s) \in Frames
  BY DEF Machines, Top

LEMMA StoppedMachine ==
  ASSUME NEW s \in Machines, NEW why \in Statuses
  PROVE  /\ Stop(s, why) \in Machines /\ Stop(s, why).status = why
         /\ Stop(s, why).frames = s.frames /\ Stop(s, why).world = s.world
  BY DEF Stop, Machines

LEMMA InWorld ==
  ASSUME NEW s \in Machines, NEW world \in Worlds
  PROVE  /\ [s EXCEPT !.world = world] \in Machines
         /\ [s EXCEPT !.world = world].world = world
         /\ [s EXCEPT !.world = world].frames = s.frames
         /\ [s EXCEPT !.world = world].status = s.status
  BY DEF Machines

LEMMA UpdatedMachine ==
  ASSUME NEW s \in Machines, s.frames # <<>>, NEW f \in Frames
  PROVE  /\ Update(s, f) \in Machines
         /\ Update(s, f).world = s.world /\ Update(s, f).status = s.status
         /\ Len(Update(s, f).frames) = Len(s.frames)
         /\ DOMAIN Update(s, f).frames = DOMAIN s.frames
         /\ Update(s, f).frames # <<>>
         /\ Update(s, f).frames[Len(s.frames)] = f
         /\ \A i \in DOMAIN s.frames : i # Len(s.frames) => Update(s, f).frames[i] = s.frames[i]
  <1> DEFINE F == [s.frames EXCEPT ![Len(s.frames)] = f]
  <1>1. s.frames \in Seq(Frames) /\ Len(s.frames) \in DOMAIN s.frames
    BY Parts
  <1>2. F \in Seq(Frames) /\ Len(F) = Len(s.frames)
        /\ F[Len(s.frames)] = f /\ \A i \in DOMAIN s.frames : i # Len(s.frames) => F[i] = s.frames[i]
    BY <1>1, ExceptSeq
  <1>3. DOMAIN F = DOMAIN s.frames /\ F # <<>>
    BY <1>1
  <1>4. Update(s, f) = [s EXCEPT !.frames = F]
    BY DEF Update, Machines
  <1>. HIDE DEF F
  <1>. QED
    BY <1>2, <1>3, <1>4 DEF Machines

LEMMA EnteredMachine ==
  ASSUME NEW s \in Machines, NEW f \in Frames, NEW world \in Worlds
  PROVE  /\ Enter(s, f, world) \in Machines
         /\ Enter(s, f, world).world = world /\ Enter(s, f, world).status = s.status
         /\ Enter(s, f, world).frames # <<>>
         /\ Len(Enter(s, f, world).frames) = Len(s.frames) + 1
         /\ DOMAIN Enter(s, f, world).frames = 1..(Len(s.frames) + 1)
         /\ Enter(s, f, world).frames[Len(s.frames) + 1] = f
         /\ \A i \in DOMAIN s.frames : Enter(s, f, world).frames[i] = s.frames[i]
  <1>1. s.frames \in Seq(Frames)
    BY Parts
  <1>2. /\ Append(s.frames, f) \in Seq(Frames) /\ Append(s.frames, f) # <<>>
        /\ Len(Append(s.frames, f)) = Len(s.frames) + 1
        /\ DOMAIN Append(s.frames, f) = 1..(Len(s.frames) + 1)
        /\ Append(s.frames, f)[Len(s.frames) + 1] = f
        /\ \A i \in DOMAIN s.frames : Append(s.frames, f)[i] = s.frames[i]
    BY <1>1, AppendProperties
  <1>3. Enter(s, f, world) = [s EXCEPT !.frames = Append(s.frames, f), !.world = world]
    BY DEF Enter
  <1>. QED
    BY <1>2, <1>3 DEF Machines

\* The caller of the top frame goes on, with an answer and in a world.
Words(op) == IF op = "CREATE" THEN 3 ELSE Operands(op)
Back(s, world) == [s EXCEPT !.frames = SubSeq(@, 1, Len(@) - 1), !.world = world]
Returned(s, world, result, data) ==
  Update(Back(s, world), Told(Top(Back(s, world)), Words(Top(s).op), result, data))

LEMMA ReturnedMachine ==
  ASSUME NEW s \in Machines, Nested(s), NEW world \in Worlds, NEW result \in Int, NEW data \in Int,
         NEW n, n = Len(s.frames) - 1
  PROVE  /\ Returned(s, world, result, data) \in Machines
         /\ Returned(s, world, result, data).world = world
         /\ Returned(s, world, result, data).status = s.status
         /\ n \in 1..Len(s.frames) /\ s.frames[n] \in Frames
         /\ Len(Returned(s, world, result, data).frames) = n
         /\ DOMAIN Returned(s, world, result, data).frames = 1..n
         /\ Returned(s, world, result, data).frames # <<>>
         /\ Returned(s, world, result, data).frames[n] = Told(s.frames[n], Words(Top(s).op), result, data)
         /\ \A i \in 1..n : i # n => Returned(s, world, result, data).frames[i] = s.frames[i]
  <1> DEFINE F == SubSeq(s.frames, 1, n)
             b == Back(s, world)
             g == Told(s.frames[n], Words(Top(s).op), result, data)
  <1>1. s.frames \in Seq(Frames) /\ n \in Nat \ {0} /\ n \in 1..Len(s.frames) /\ s.frames[n] \in Frames
    BY Parts DEF Nested
  <1>2. F \in Seq(Frames) /\ Len(F) = n /\ \A i \in 1..n : F[i] = s.frames[i]
    <2>1. \A i \in 1..n : s.frames[i] \in Frames
      BY <1>1, Parts
    <2>. QED
      BY <1>1, <2>1, SubSeqProperties
  <1>3. b = [s EXCEPT !.frames = F, !.world = world]
    BY DEF Back
  <1>. HIDE DEF F
  <1>4. b \in Machines /\ b.frames = F /\ b.world = world /\ b.status = s.status
    BY <1>2, <1>3 DEF Machines
  <1>5. b.frames # <<>>
    BY <1>1, <1>2, <1>4
  <1>. HIDE DEF b
  <1>6. Top(b) = s.frames[n]
    BY <1>1, <1>2, <1>4 DEF Top
  <1>7. g \in Frames
    <2>1. Words(Top(s).op) \in Int
      BY DEF Words, Operands
    <2>. QED
      BY <1>1, <2>1, AnsweredFrame
  <1>8. Returned(s, world, result, data) = Update(b, g)
    BY <1>6 DEF Returned, b
  <1>. HIDE DEF g
  <1>9. DOMAIN F = 1..n
    BY <1>2
  <1>10. /\ Update(b, g) \in Machines /\ Update(b, g).world = world /\ Update(b, g).status = s.status
         /\ Len(Update(b, g).frames) = n /\ DOMAIN Update(b, g).frames = 1..n
         /\ Update(b, g).frames # <<>>
         /\ Update(b, g).frames[n] = g
         /\ \A i \in 1..n : i # n => Update(b, g).frames[i] = s.frames[i]
    BY <1>1, <1>2, <1>4, <1>5, <1>7, <1>9, UpdatedMachine
  <1>. QED
    BY <1>1, <1>8, <1>10 DEF g

-------------------------------------------------------------------------------
(* What the steps of the symbolic machine preserve *)

LEMMA SoundReturn ==
  ASSUME NEW s, Sound(s), Nested(s), NEW world \in Worlds, NEW result \in Int, NEW data \in Int,
         Solvent(world), Top(s).static => Unwritten(world, s.world)
  PROVE  Sound(Returned(s, world, result, data))
  <1> DEFINE t == Returned(s, world, result, data)
             n == Len(s.frames) - 1
  <1>1. s \in Machines /\ n \in Nat /\ DOMAIN s.frames = 1..Len(s.frames) /\ Top(s) = s.frames[n + 1]
        /\ n + 1 \in DOMAIN s.frames
    BY Parts DEF Sound, Nested, Top
  <1>2. /\ t \in Machines /\ t.world = world /\ t.frames # <<>>
        /\ s.frames[n] \in Frames
        /\ DOMAIN t.frames = 1..n
        /\ t.frames[n] = Told(s.frames[n], Words(Top(s).op), result, data)
        /\ \A i \in 1..n : i # n => t.frames[i] = s.frames[i]
    BY <1>1, ReturnedMachine
  <1>3. Words(Top(s).op) \in Int
    BY DEF Words, Operands
  <1>. HIDE DEF t, n
  <1>4. \A i \in 1..n : /\ t.frames[i].op = s.frames[i].op
                        /\ t.frames[i].static = s.frames[i].static
                        /\ t.frames[i].saved = s.frames[i].saved
    BY <1>1, <1>2, <1>3, AnsweredFrame
  <1>5. \A i \in 1..n : i \in DOMAIN s.frames /\ i < n + 1
    BY <1>1 DEF n
  <1>6. \A i \in 1..n : s.frames[i].static => Unwritten(world, s.frames[i].saved)
    BY <1>1, <1>5 DEF Sound, Unwritten
  <1>7. Sound(t)
    BY <1>1, <1>2, <1>4, <1>5, <1>6 DEF Sound
  <1>. QED
    BY <1>7 DEF t

LEMMA SoundUpdate ==
  ASSUME NEW s, Sound(s), s.frames # <<>>, NEW f \in Frames, NEW world \in Worlds,
         f.op = Top(s).op, f.static = Top(s).static, f.saved = Top(s).saved,
         Solvent(world), Top(s).static => Unwritten(world, s.world)
  PROVE  Sound([Update(s, f) EXCEPT !.world = world])
  <1> DEFINE t == [Update(s, f) EXCEPT !.world = world]
             n == Len(s.frames)
  <1>1. s \in Machines /\ n \in DOMAIN s.frames /\ DOMAIN s.frames = 1..n /\ n \in Nat
    BY Parts DEF Sound
  <1>2. /\ t \in Machines /\ t.world = world /\ t.frames # <<>>
        /\ DOMAIN t.frames = DOMAIN s.frames
        /\ t.frames[n] = f
        /\ \A i \in DOMAIN s.frames : i # n => t.frames[i] = s.frames[i]
    BY <1>1, UpdatedMachine, InWorld
  <1>3. Top(s) = s.frames[n]
    BY DEF Top
  <1>. HIDE DEF t, n
  <1>4. \A i \in DOMAIN s.frames : /\ t.frames[i].op = s.frames[i].op
                                   /\ t.frames[i].static = s.frames[i].static
                                   /\ t.frames[i].saved = s.frames[i].saved
    BY <1>1, <1>2, <1>3
  <1>5. \A i \in DOMAIN s.frames : s.frames[i].static => Unwritten(world, s.frames[i].saved)
    <2>1. \A i \in DOMAIN s.frames : s.frames[i].static => Top(s).static
      BY <1>1, <1>3 DEF Sound
    <2>. QED
      BY <2>1 DEF Sound, Unwritten
  <1>6. Sound(t)
    BY <1>1, <1>2, <1>4, <1>5 DEF Sound
  <1>. QED
    BY <1>6 DEF t

LEMMA SoundEnter ==
  ASSUME NEW s, Sound(s), s.frames # <<>>, NEW f \in Frames, NEW world \in Worlds,
         f.op \in Opened, f.op = "STATICCALL" => f.static, Top(s).static => f.static,
         f.static => Unwritten(world, f.saved) /\ Unwritten(world, s.world),
         Solvent(world), Solvent(f.saved)
  PROVE  Sound(Enter(s, f, world))
  <1> DEFINE t == Enter(s, f, world)
             n == Len(s.frames)
  <1>1. s \in Machines /\ n \in DOMAIN s.frames /\ DOMAIN s.frames = 1..n /\ n \in Nat
    BY Parts DEF Sound
  <1>2. /\ t \in Machines /\ t.world = world /\ t.frames # <<>>
        /\ DOMAIN t.frames = 1..(n + 1)
        /\ t.frames[n + 1] = f
        /\ \A i \in DOMAIN s.frames : t.frames[i] = s.frames[i]
    BY <1>1, EnteredMachine
  <1>3. Top(s) = s.frames[n]
    BY DEF Top
  <1>. HIDE DEF t, n
  <1>4. \A i \in 1..(n + 1) : i = n + 1 \/ (i \in DOMAIN s.frames /\ i < n + 1)
    BY <1>1
  <1>5. \A i \in DOMAIN s.frames : s.frames[i].static => f.static
    BY <1>1, <1>3 DEF Sound
  <1>6. \A i \in DOMAIN s.frames : s.frames[i].static => Unwritten(world, s.frames[i].saved)
    BY <1>5 DEF Sound, Unwritten
  <1>7. n + 1 > 1
    BY <1>1
  <1>8. \A i \in DOMAIN t.frames :
       /\ i > 1 => t.frames[i].op \in Opened
       /\ Solvent(t.frames[i].saved)
       /\ t.frames[i].op = "STATICCALL" => t.frames[i].static
       /\ t.frames[i].static => Unwritten(t.world, t.frames[i].saved)
    BY <1>2, <1>4, <1>6 DEF Sound
  <1>9. ASSUME NEW i \in DOMAIN t.frames, NEW j \in DOMAIN t.frames, i < j, t.frames[i].static
        PROVE  t.frames[j].static
    <2>1. i \in DOMAIN s.frames /\ s.frames[i].static
      BY <1>1, <1>2, <1>4, <1>9
    <2>2. CASE j = n + 1
      BY <1>2, <1>5, <2>1, <2>2
    <2>3. CASE j # n + 1
      <3>1. j \in DOMAIN s.frames /\ s.frames[j] = t.frames[j]
        BY <1>2, <1>4, <2>3
      <3>. QED
        BY <1>9, <2>1, <3>1 DEF Sound
    <2>. QED
      BY <2>2, <2>3
  <1>10. Sound(t)
    BY <1>2, <1>8, <1>9 DEF Sound
  <1>. QED
    BY <1>10 DEF t

LEMMA SoundStop ==
  ASSUME NEW s, Sound(s), NEW why \in Statuses, why # "run"
  PROVE  Sound(Stop(s, why))
  BY StoppedMachine DEF Sound

\* A round that is over.
Closed(s, world) == [s EXCEPT !.status = "open", !.frames = <<>>, !.world = world]

LEMMA SoundClose ==
  ASSUME NEW s \in Machines, NEW world \in Worlds, Solvent(world)
  PROVE  /\ Sound(Closed(s, world)) /\ Closed(s, world).status = "open"
         /\ Closed(s, world).world = world
  <1>1. /\ Closed(s, world) \in Machines /\ Closed(s, world).status = "open"
        /\ Closed(s, world).world = world /\ Closed(s, world).frames = <<>>
    <2>1. <<>> \in Seq(Frames)
      OBVIOUS
    <2>. QED
      BY <2>1 DEF Closed, Machines, Statuses
  <1>. QED
    BY <1>1 DEF Sound

-------------------------------------------------------------------------------
(* The end of a frame *)

LEMMA AnswerTypes ==
  ASSUME NEW op, NEW data \in Int
  PROVE  Learnt(op, data) \in Int
  BY DEF Learnt, _handle_create_type_post, callcode_post, delegatecall_post, post_handler,
         None, Any, NewAddress

\* The world the caller goes on in.
WorldBehind(revert) == IF revert THEN Top(x).saved ELSE Copied(x.world)

LEMMA EndOfCall ==
  ASSUME NEW revert, NEW data
  PROVE  _end_message_call(revert, data) = Returned(x, WorldBehind(revert), Learnt(Top(x).op, data), data)
  BY DEF _end_message_call, Returned, Back, Told, WorldBehind, Words

EvmWorld(s, revert) == IF revert THEN Top(s).saved ELSE s.world
EvmResult(op, revert) == IF revert THEN 0 ELSE IF op = "CREATE" THEN NewAddress ELSE 1

LEMMA EvmEndSteps ==
  ASSUME NEW s \in Machines, NEW revert \in BOOLEAN, NEW data
  PROVE  /\ Nested(s) => EvmEnd(s, revert, data)
                           = Returned(s, EvmWorld(s, revert), EvmResult(Top(s).op, revert), data)
         /\ ~Nested(s) => EvmEnd(s, revert, data)
                            = IF revert THEN Stop(s, "dropped") ELSE Closed(s, s.world)
  <1>1. CASE Nested(s)
    <2>1. EvmResult(Top(s).op, revert)
            = IF Top(s).op = "CREATE" THEN (IF revert THEN 0 ELSE NewAddress) ELSE IF revert THEN 0 ELSE 1
      BY DEF EvmResult
    <2>. QED
      BY <1>1, <2>1 DEF EvmEnd, Returned, Back, Told, Words, EvmWorld
  <1>2. CASE ~Nested(s)
    BY <1>2 DEF EvmEnd, Closed, Machines
  <1>. QED
    BY <1>1, <1>2

\* execute_state on TransactionEndSignal
LEMMA EndedSteps ==
  ASSUME NEW s \in Machines, NEW revert \in BOOLEAN, NEW data
  PROVE  /\ Nested(s) => Ended(s, revert, data) = _end_message_call(revert, data)
         /\ ~Nested(s) => Ended(s, revert, data)
                            = IF revert THEN Stop(s, "dropped") ELSE Closed(s, s.world)
  BY DEF Ended, Closed, Machines

LEMMA BehindTypes ==
  ASSUME Sound(x), x.frames # <<>>, NEW revert \in BOOLEAN
  PROVE  /\ WorldBehind(revert) \in Worlds /\ Solvent(WorldBehind(revert))
         /\ Top(x).static => Unwritten(WorldBehind(revert), x.world)
         /\ Top(x) \in Frames /\ Len(x.frames) \in DOMAIN x.frames
  <1>1. x \in Machines /\ x.world \in Worlds /\ Top(x) \in Frames /\ Top(x).saved \in Worlds
        /\ Len(x.frames) \in DOMAIN x.frames /\ Top(x) = x.frames[Len(x.frames)]
    BY Parts DEF Sound, Frames, Top
  <1>2. SameWorld(Copied(x.world), x.world) /\ Copied(x.world) \in Worlds
    BY <1>1, CopiedWorld
  <1>3. Solvent(Copied(x.world)) /\ Unwritten(Copied(x.world), x.world)
    BY <1>2 DEF SameWorld, Sound, Solvent, Unwritten
  <1>4. Solvent(Top(x).saved) /\ (Top(x).static => Unwritten(Top(x).saved, x.world))
    BY <1>1 DEF Sound, Unwritten
  <1>. QED
    BY <1>1, <1>2, <1>3, <1>4 DEF WorldBehind

LEMMA SoundEnd ==
  ASSUME Sound(x), x.status = "run", NEW revert \in BOOLEAN, NEW data \in Int
  PROVE  /\ Sound(Ended(x, revert, data))
         /\ Nested(x) => Sound(_end_message_call(revert, data))
  <1>1. x \in Machines /\ x.frames # <<>> /\ x.world \in Worlds /\ Solvent(x.world)
    BY Parts DEF Sound
  <1>2. ASSUME Nested(x) PROVE Sound(_end_message_call(revert, data))
    <2>1. Learnt(Top(x).op, data) \in Int
      BY AnswerTypes
    <2>. QED
      BY <1>1, <1>2, <2>1, EndOfCall, BehindTypes, SoundReturn
  <1>3. ASSUME ~Nested(x) PROVE Sound(Ended(x, revert, data))
    <2>1. "dropped" \in Statuses
      BY DEF Statuses
    <2>. QED
      BY <1>1, <1>3, <2>1, EndedSteps, SoundStop, SoundClose
  <1>. QED
    BY <1>1, <1>2, <1>3, EndedSteps

LEMMA EvmEndTypes ==
  ASSUME NEW s \in Machines, s.frames # <<>>, NEW revert \in BOOLEAN, NEW data \in Int
  PROVE  EvmEnd(s, revert, data) \in Machines
  <1>1. s.world \in Worlds /\ EvmWorld(s, revert) \in Worlds /\ EvmResult(Top(s).op, revert) \in Int
    BY Parts DEF EvmWorld, EvmResult, Frames, NewAddress
  <1>2. Closed(s, s.world) \in Machines
    <2>1. <<>> \in Seq(Frames)
      OBVIOUS
    <2>. QED
      BY <2>1 DEF Closed, Machines, Statuses
  <1>3. Stop(s, "dropped") \in Machines
    BY StoppedMachine DEF Statuses
  <1>4. Nested(s) => Returned(s, EvmWorld(s, revert), EvmResult(Top(s).op, revert), data) \in Machines
    BY <1>1, ReturnedMachine
  <1>. QED
    BY <1>2, <1>3, <1>4, EvmEndSteps

-------------------------------------------------------------------------------
(* Two machines that agree *)

\* While the path is followed the frames on top agree.
LEMMA TopsAgree ==
  ASSUME Inv, x.status = "run", y.status = "run"
  PROVE  /\ x \in Machines /\ x.frames # <<>> /\ y.frames # <<>>
         /\ SameFrames(x.frames, y.frames) /\ SameWorld(x.world, y.world)
         /\ x.world \in Worlds /\ y.world \in Worlds
         /\ Top(x) \in Frames /\ Top(y) \in Frames
         /\ SameFrame(Top(x), Top(y)) /\ (Nested(x) <=> Nested(y))
         /\ (Nested(x) => Top(x).op \in Opened)
  <1>1. /\ x \in Machines /\ y \in Machines /\ x.frames # <<>>
        /\ SameFrames(x.frames, y.frames) /\ SameWorld(x.world, y.world)
    BY DEF Inv, Sound, Agree
  <1>2. /\ Len(x.frames) \in Nat /\ Len(y.frames) = Len(x.frames)
        /\ Len(x.frames) \in DOMAIN x.frames
    BY <1>1, Parts DEF SameFrames
  <1>3. y.frames # <<>>
    BY <1>1, <1>2, Parts
  <1>4. SameFrame(Top(x), Top(y))
    BY <1>1, <1>2 DEF SameFrames, Top
  <1>5. Nested(x) => Top(x).op \in Opened
    BY <1>2 DEF Nested, Top, Inv, Sound
  <1>. QED
    BY <1>1, <1>2, <1>3, <1>4, <1>5, Parts DEF Nested

LEMMA AgreeApart ==
  ASSUME NEW s, NEW t, t.status \notin {"run", "open"}
  PROVE  Agree(s, t)
  BY DEF Agree

LEMMA AgreePart ==
  ASSUME NEW s, NEW t \in Machines, NEW cond, ~cond => Agree(s, t)
  PROVE  Part(t, cond) \in Machines /\ Agree(s, Part(t, cond))
  <1>1. Stop(t, "apart") \in Machines /\ Stop(t, "apart").status = "apart"
    BY StoppedMachine DEF Statuses
  <1>. QED
    BY <1>1, AgreeApart DEF Part

LEMMA AgreeReturn ==
  ASSUME NEW s \in Machines, NEW t \in Machines, s.status = "run", t.status = "run",
         SameFrames(s.frames, t.frames), Nested(s),
         NEW w \in Worlds, NEW u \in Worlds, SameWorld(w, u),
         NEW r \in Int, NEW rr \in Int, NEW d \in Int, NEW dd \in Int,
         r \in {Any, rr},
         (IF d = None THEN 0 ELSE d) \in {Any, IF dd = None THEN 0 ELSE dd}
  PROVE  Agree(Returned(s, w, r, d), Returned(t, u, rr, dd))
  <1> DEFINE n == Len(s.frames) - 1
             a == Returned(s, w, r, d)
             b == Returned(t, u, rr, dd)
  <1>1. Len(s.frames) = Len(t.frames) /\ Nested(t) /\ Len(s.frames) \in Nat
        /\ Len(s.frames) \in DOMAIN s.frames /\ DOMAIN s.frames = 1..Len(s.frames)
    BY Parts DEF SameFrames, Nested
  <1>2. Top(s).op = Top(t).op
    BY <1>1 DEF SameFrames, SameFrame, Top
  <1>3. Words(Top(s).op) \in Int
    BY DEF Words, Operands
  <1>. HIDE DEF n
  <1>4. /\ a.world = w /\ a.status = "run" /\ Len(a.frames) = n /\ DOMAIN a.frames = 1..n
        /\ n \in DOMAIN s.frames /\ s.frames[n] \in Frames
        /\ a.frames[n] = Told(s.frames[n], Words(Top(s).op), r, d)
        /\ \A i \in 1..n : i # n => a.frames[i] = s.frames[i]
    <2>1. n = Len(s.frames) - 1
      BY DEF n
    <2>. QED
      BY <1>1, <2>1, ReturnedMachine
  <1>5. /\ b.world = u /\ b.status = "run" /\ Len(b.frames) = n
        /\ t.frames[n] \in Frames
        /\ b.frames[n] = Told(t.frames[n], Words(Top(s).op), rr, dd)
        /\ \A i \in 1..n : i # n => b.frames[i] = t.frames[i]
    <2>1. n = Len(t.frames) - 1
      BY <1>1 DEF n
    <2>2. /\ b.world = u /\ b.status = "run" /\ Len(b.frames) = n
          /\ t.frames[n] \in Frames
          /\ b.frames[n] = Told(t.frames[n], Words(Top(t).op), rr, dd)
          /\ \A i \in 1..n : i # n => b.frames[i] = t.frames[i]
      BY <1>1, <2>1, ReturnedMachine
    <2>. QED
      BY <1>2, <2>2
  <1>. HIDE DEF a, b
  <1>6. SameFrame(s.frames[n], t.frames[n])
    BY <1>4 DEF SameFrames
  <1>7. SameFrame(a.frames[n], b.frames[n])
    <2>1. s.frames[n] \in Frames /\ t.frames[n] \in Frames
      BY <1>4, <1>5
    <2>2. SameFrame(Told(s.frames[n], Words(Top(s).op), r, d), Told(t.frames[n], Words(Top(s).op), rr, dd))
      BY <1>3, <1>6, <2>1, AnsweredAlike
    <2>. QED
      BY <1>4, <1>5, <2>2
  <1>8. \A i \in 1..n : i \in DOMAIN s.frames
    BY <1>1 DEF n
  <1>9. SameFrames(a.frames, b.frames)
    BY <1>4, <1>5, <1>7, <1>8 DEF SameFrames
  <1>10. Agree(a, b)
    BY <1>4, <1>5, <1>9 DEF Agree
  <1>. QED
    BY <1>10 DEF a, b

LEMMA AgreeUpdate ==
  ASSUME NEW s \in Machines, NEW t \in Machines, s.status = "run", t.status = "run",
         SameFrames(s.frames, t.frames), s.frames # <<>>, t.frames # <<>>,
         NEW w \in Worlds, NEW u \in Worlds, SameWorld(w, u),
         NEW f \in Frames, NEW g \in Frames, SameFrame(f, g)
  PROVE  Agree([Update(s, f) EXCEPT !.world = w], [Update(t, g) EXCEPT !.world = u])
  <1> DEFINE n == Len(s.frames)
             a == [Update(s, f) EXCEPT !.world = w]
             b == [Update(t, g) EXCEPT !.world = u]
  <1>1. Len(s.frames) = Len(t.frames) /\ DOMAIN s.frames = DOMAIN t.frames
    BY Parts DEF SameFrames
  <1>2. /\ a.world = w /\ a.status = "run" /\ Len(a.frames) = n /\ DOMAIN a.frames = DOMAIN s.frames
        /\ a.frames[n] = f
        /\ \A i \in DOMAIN s.frames : i # n => a.frames[i] = s.frames[i]
    BY UpdatedMachine, InWorld
  <1>3. /\ b.world = u /\ b.status = "run" /\ Len(b.frames) = n
        /\ b.frames[n] = g
        /\ \A i \in DOMAIN s.frames : i # n => b.frames[i] = t.frames[i]
    BY <1>1, UpdatedMachine, InWorld
  <1>. HIDE DEF a, b, n
  <1>4. SameFrames(a.frames, b.frames)
    BY <1>2, <1>3 DEF SameFrames
  <1>5. Agree(a, b)
    BY <1>2, <1>3, <1>4 DEF Agree
  <1>. QED
    BY <1>5 DEF a, b

LEMMA AgreeEnter ==
  ASSUME NEW s \in Machines, NEW t \in Machines, s.status = "run", t.status = "run",
         SameFrames(s.frames, t.frames),
         NEW w \in Worlds, NEW u \in Worlds, SameWorld(w, u),
         NEW f \in Frames, NEW g \in Frames, SameFrame(f, g)
  PROVE  Agree(Enter(s, f, w), Enter(t, g, u))
  <1> DEFINE n == Len(s.frames)
             a == Enter(s, f, w)
             b == Enter(t, g, u)
  <1>1. n = Len(t.frames) /\ DOMAIN s.frames = DOMAIN t.frames /\ DOMAIN s.frames = 1..n /\ n \in Nat
    BY Parts DEF SameFrames
  <1>2. /\ a.world = w /\ a.status = "run" /\ Len(a.frames) = n + 1 /\ DOMAIN a.frames = 1..(n + 1)
        /\ a.frames[n + 1] = f
        /\ \A i \in DOMAIN s.frames : a.frames[i] = s.frames[i]
    BY EnteredMachine
  <1>3. /\ b.world = u /\ b.status = "run" /\ Len(b.frames) = n + 1
        /\ b.frames[n + 1] = g
        /\ \A i \in DOMAIN s.frames : b.frames[i] = t.frames[i]
    BY <1>1, EnteredMachine
  <1>4. \A i \in 1..(n + 1) : i = n + 1 \/ i \in DOMAIN s.frames
    BY <1>1
  <1>. HIDE DEF a, b, n
  <1>5. SameFrames(a.frames, b.frames)
    BY <1>2, <1>3, <1>4 DEF SameFrames
  <1>6. Agree(a, b)
    BY <1>2, <1>3, <1>5 DEF Agree
  <1>. QED
    BY <1>6 DEF a, b

LEMMA AgreeClose ==
  ASSUME NEW s \in Machines, NEW t \in Machines, NEW w \in Worlds, NEW u \in Worlds, SameWorld(w, u)
  PROVE  Agree(Closed(s, w), Closed(t, u))
  BY DEF Agree, Closed, Machines

\* Two frames that end in the same way.
LEMMA AgreeEnd ==
  ASSUME Inv, x.status = "run", y.status = "run", NEW revert \in BOOLEAN,
         NEW d \in Int, NEW dd \in Int,
         Nested(x) => /\ Learnt(Top(x).op, d) \in {Any, EvmResult(Top(x).op, revert)}
                      /\ (IF d = None THEN 0 ELSE d) \in {Any, IF dd = None THEN 0 ELSE dd}
  PROVE  Agree(Ended(x, revert, d), EvmEnd(y, revert, dd))
  <1>1. /\ x \in Machines /\ y \in Machines /\ x.frames # <<>> /\ y.frames # <<>>
        /\ SameFrames(x.frames, y.frames) /\ SameWorld(x.world, y.world)
        /\ x.world \in Worlds /\ y.world \in Worlds
        /\ Top(x) \in Frames /\ Top(y) \in Frames
        /\ SameFrame(Top(x), Top(y)) /\ (Nested(x) <=> Nested(y))
    BY TopsAgree DEF Inv
  <1>2. CASE Nested(x)
    <2>1. /\ WorldBehind(revert) \in Worlds /\ EvmWorld(y, revert) \in Worlds
          /\ SameWorld(WorldBehind(revert), EvmWorld(y, revert))
      BY <1>1, CopiedWorld DEF WorldBehind, EvmWorld, Frames, SameFrame, SameWorld
    <2>2. Learnt(Top(x).op, d) \in Int /\ EvmResult(Top(x).op, revert) \in Int
      BY AnswerTypes DEF EvmResult, NewAddress
    <2>3. Top(y).op = Top(x).op
      BY <1>1 DEF SameFrame
    <2>4. Agree(Returned(x, WorldBehind(revert), Learnt(Top(x).op, d), d),
                Returned(y, EvmWorld(y, revert), EvmResult(Top(x).op, revert), dd))
      BY <1>1, <1>2, <2>1, <2>2, AgreeReturn
    <2>. QED
      BY <1>1, <1>2, <2>3, <2>4, EndedSteps, EndOfCall, EvmEndSteps
  <1>3. CASE ~Nested(x) /\ revert
    <2>1. EvmEnd(y, revert, dd) = Stop(y, "dropped")
      BY <1>1, <1>3, EvmEndSteps
    <2>2. Stop(y, "dropped").status = "dropped"
      BY <1>1, StoppedMachine DEF Statuses
    <2>. QED
      BY <2>1, <2>2, AgreeApart
  <1>4. CASE ~Nested(x) /\ ~revert
    BY <1>1, <1>4, EndedSteps, EvmEndSteps, AgreeClose
  <1>. QED
    BY <1>2, <1>3, <1>4

LEMMA AgreeStopped ==
  ASSUME NEW s, NEW t, s.status \notin {"run", "open"}
  PROVE  Agree(s, t)
  BY DEF Agree

LEMMA SoundInWorld ==
  ASSUME NEW s, Sound(s), s.frames # <<>>, NEW world \in Worlds, Solvent(world),
         Top(s).static => Unwritten(world, s.world)
  PROVE  Sound([s EXCEPT !.world = world])
  <1> DEFINE t == [s EXCEPT !.world = world]
             n == Len(s.frames)
  <1>1. s \in Machines /\ n \in DOMAIN s.frames /\ DOMAIN s.frames = 1..n /\ n \in Nat /\ Top(s) = s.frames[n]
    BY Parts DEF Sound, Top
  <1>2. t \in Machines /\ t.world = world /\ t.frames = s.frames
    BY <1>1, InWorld
  <1>. HIDE DEF t, n
  <1>3. \A i \in DOMAIN s.frames : s.frames[i].static => Unwritten(world, s.frames[i].saved)
    <2>1. \A i \in DOMAIN s.frames : s.frames[i].static => Top(s).static
      BY <1>1 DEF Sound
    <2>. QED
      BY <2>1 DEF Sound, Unwritten
  <1>4. Sound(t)
    BY <1>2, <1>3 DEF Sound
  <1>. QED
    BY <1>4 DEF t

LEMMA AgreeInWorld ==
  ASSUME NEW s \in Machines, NEW t \in Machines, s.status = "run", t.status = "run",
         SameFrames(s.frames, t.frames), NEW w \in Worlds, NEW u \in Worlds, SameWorld(w, u)
  PROVE  Agree([s EXCEPT !.world = w], [t EXCEPT !.world = u])
  BY InWorld DEF Agree

-------------------------------------------------------------------------------
(* The steps *)

\* What a step of both machines has to show.
LEMMA BothInv ==
  ASSUME Inv, Instruction, NEW nx, NEW ny, Both(nx, ny), Sound(nx),
         y.status = "run" => ny \in Machines /\ Agree(nx, ny)
  PROVE  Inv'
  <1>1. x' = nx /\ y' = (IF y.status = "run" THEN ny ELSE y)
    BY DEF Both
  <1>2. CASE y.status = "run"
    BY <1>1, <1>2 DEF Inv
  <1>3. CASE y.status # "run"
    <2>1. y.status # "open"
      BY DEF Inv, Agree, Instruction
    <2>2. Agree(nx, y)
      BY <1>3, <2>1, AgreeApart
    <2>. QED
      BY <1>1, <1>3, <2>2 DEF Inv
  <1>. QED
    BY <1>2, <1>3

LEMMA ExceptionalSteps ==
  ASSUME Inv, x.status = "run"
  PROVE  /\ Sound(Exceptional(x))
         /\ y.status = "run" => EvmExceptional(y) \in Machines /\ Agree(Exceptional(x), EvmExceptional(y))
  <1>1. x \in Machines /\ Sound(x) /\ None \in Int
    BY DEF Inv, Sound, None
  <1>2. Exceptional(x) = Ended(x, TRUE, None)
    BY DEF Exceptional, Ended
  <1>3. Sound(Exceptional(x))
    BY <1>1, <1>2, SoundEnd
  <1>4. ASSUME y.status = "run"
        PROVE  EvmExceptional(y) \in Machines /\ Agree(Exceptional(x), EvmExceptional(y))
    <2>1. y \in Machines /\ y.frames # <<>>
      BY <1>4, TopsAgree DEF Inv
    <2>2. EvmExceptional(y) \in Machines
      <3>1. TRUE \in BOOLEAN /\ 0 \in Int
        OBVIOUS
      <3>2. EvmEnd(y, TRUE, 0) \in Machines
        BY <2>1, <3>1, EvmEndTypes
      <3>. QED
        BY <3>2 DEF EvmExceptional
    <2>3. Learnt(Top(x).op, None) \in {Any, EvmResult(Top(x).op, TRUE)}
      BY DEF Learnt, EvmResult, _handle_create_type_post, callcode_post, delegatecall_post, post_handler
    <2>4. Agree(Ended(x, TRUE, None), EvmEnd(y, TRUE, 0))
      <3>1. TRUE \in BOOLEAN /\ 0 \in Int
        OBVIOUS
      <3>2. (IF None = None THEN 0 ELSE None) \in {Any, IF 0 = None THEN 0 ELSE 0}
        OBVIOUS
      <3>. QED
        BY <1>1, <1>4, <2>3, <3>1, <3>2, AgreeEnd
    <2>. QED
      BY <1>2, <2>2, <2>4 DEF EvmExceptional
  <1>. QED
    BY <1>3, <1>4

LEMMA HandleVmException == Inv /\ handle_vm_exception => Inv'
  BY ExceptionalSteps, BothInv DEF handle_vm_exception, Instruction

\* A regular end of which the caller is told the truth.
LEMMA EndTold ==
  ASSUME NEW op \in Opened, NEW end \in {"STOP", "RETURN", "REVERT"}, NEW size \in 0..1,
         end = "STOP" => size = 0, NEW data, NEW edata,
         data = IF op = "CREATE" THEN (IF size = 0 \/ end = "REVERT" THEN None ELSE NewAddress)
                ELSE IF end = "STOP" THEN None ELSE size,
         edata = IF op = "CREATE" /\ ~(end = "REVERT") THEN 0 ELSE size,
         ~Contradicts(op, end = "REVERT", data), ~(op = "CREATE" /\ size > 0)
  PROVE  /\ Learnt(op, data) \in {Any, EvmResult(op, end = "REVERT")}
         /\ (IF data = None THEN 0 ELSE data) \in {Any, IF edata = None THEN 0 ELSE edata}
  <1>1. CASE op = "CREATE"
    <2>1. size = 0 /\ data = None /\ edata = 0 /\ end = "REVERT"
      BY <1>1 DEF Contradicts
    <2>. QED
      BY <1>1, <2>1 DEF Learnt, EvmResult, _handle_create_type_post, None
  <1>2. CASE op # "CREATE"
    <2>1. op \in Ops
      BY <1>2 DEF Opened
    <2>2. end # "REVERT" /\ edata = size /\ (data = IF end = "STOP" THEN None ELSE size)
      BY <1>2, <2>1 DEF Contradicts, None
    <2>3. Learnt(op, data) \in {Any, 1}
      BY <1>2, <2>1, <2>2 DEF Learnt, Contradicts, callcode_post, delegatecall_post, post_handler, Ops
    <2>4. EvmResult(op, end = "REVERT") = 1
      BY <1>2, <2>2 DEF EvmResult
    <2>. QED
      BY <2>2, <2>3, <2>4 DEF None
  <1>. QED
    BY <1>1, <1>2

LEMMA StopReturnRevert == Inv /\ stop_return_revert => Inv'
  <1> SUFFICES ASSUME Inv, stop_return_revert PROVE Inv'
    OBVIOUS
  <1>1. PICK end \in {"STOP", "RETURN", "REVERT"}, size \in 0..1 :
          /\ Instruction
          /\ end = "STOP" => size = 0
          /\ LET revert == end = "REVERT"
                 data == IF Creating(x) THEN (IF size = 0 \/ revert THEN None ELSE NewAddress)
                         ELSE IF end = "STOP" THEN None ELSE size
                 edata == IF Creating(y) /\ ~revert THEN 0 ELSE size
             IN  Both(Ended(x, revert, data),
                      Part(EvmEnd(y, revert, edata),
                           /\ Nested(y)
                           /\ \/ Contradicts(Top(y).op, revert, data)
                              \/ Creating(y) /\ size > 0))
    BY DEF stop_return_revert
  <1> DEFINE revert == end = "REVERT"
             data == IF Creating(x) THEN (IF size = 0 \/ revert THEN None ELSE NewAddress)
                     ELSE IF end = "STOP" THEN None ELSE size
             edata == IF Creating(y) /\ ~revert THEN 0 ELSE size
             apart == Nested(y) /\ (Contradicts(Top(y).op, revert, data) \/ (Creating(y) /\ size > 0))
  <1>2. Both(Ended(x, revert, data), Part(EvmEnd(y, revert, edata), apart))
    BY <1>1
  <1>3. revert \in BOOLEAN /\ data \in Int /\ edata \in Int /\ Sound(x) /\ x.status = "run"
    BY <1>1 DEF None, NewAddress, Inv, Instruction
  <1>4. ASSUME y.status = "run", Nested(x), ~apart
        PROVE  /\ Learnt(Top(x).op, data) \in {Any, EvmResult(Top(x).op, revert)}
               /\ (IF data = None THEN 0 ELSE data) \in {Any, IF edata = None THEN 0 ELSE edata}
    <2>1. Top(x).op = Top(y).op /\ Top(x).op \in Opened /\ Nested(y)
      BY <1>3, <1>4, TopsAgree DEF SameFrame
    <2>. QED
      BY <1>1, <1>4, <2>1, EndTold DEF Creating
  <1>. HIDE DEF revert, data, edata, apart
  <1>5. Sound(Ended(x, revert, data))
    BY <1>3, SoundEnd
  <1>6. ASSUME y.status = "run"
        PROVE  /\ Part(EvmEnd(y, revert, edata), apart) \in Machines
               /\ Agree(Ended(x, revert, data), Part(EvmEnd(y, revert, edata), apart))
    <2>1. EvmEnd(y, revert, edata) \in Machines
      BY <1>3, <1>6, TopsAgree, EvmEndTypes DEF Inv
    <2>2. ~apart => Agree(Ended(x, revert, data), EvmEnd(y, revert, edata))
      BY <1>3, <1>4, <1>6, AgreeEnd
    <2>. QED
      BY <2>1, <2>2, AgreePart
  <1>. QED
    BY <1>1, <1>2, <1>5, <1>6, BothInv

LEMMA AddWorldState == Inv /\ _add_world_state => Inv'
  <1> SUFFICES ASSUME Inv, _add_world_state PROVE Inv'
    OBVIOUS
  <1>1. /\ Instruction /\ x \in Machines /\ y \in Machines /\ x.world \in Worlds /\ Solvent(x.world)
        /\ x.status = "run"
    BY Parts DEF _add_world_state, Instruction, Inv, Sound
  <1>2. [x EXCEPT !.status = "open", !.frames = <<>>] = Closed(x, x.world)
    BY <1>1 DEF Closed, Machines
  <1>3. Both(Closed(x, x.world), Part(EvmEnd(y, FALSE, 0), Nested(y)))
    BY <1>2 DEF _add_world_state
  <1>4. Sound(Closed(x, x.world))
    BY <1>1, SoundClose
  <1>5. ASSUME y.status = "run"
        PROVE  /\ Part(EvmEnd(y, FALSE, 0), Nested(y)) \in Machines
               /\ Agree(Closed(x, x.world), Part(EvmEnd(y, FALSE, 0), Nested(y)))
    <2>1. y.frames # <<>> /\ y.world \in Worlds /\ SameWorld(x.world, y.world)
      BY <1>1, <1>5, TopsAgree
    <2>2. EvmEnd(y, FALSE, 0) \in Machines
      <3>1. FALSE \in BOOLEAN /\ 0 \in Int
        OBVIOUS
      <3>. QED
        BY <1>1, <2>1, <3>1, EvmEndTypes
    <2>3. ~Nested(y) => EvmEnd(y, FALSE, 0) = Closed(y, y.world)
      BY <1>1, EvmEndSteps
    <2>4. Agree(Closed(x, x.world), Closed(y, y.world))
      BY <1>1, <2>1, AgreeClose
    <2>. QED
      BY <2>2, <2>3, <2>4, AgreePart
  <1>. QED
    BY <1>1, <1>3, <1>4, <1>5, BothInv

LEMMA Sstore == Inv /\ sstore => Inv'
  <1> SUFFICES ASSUME Inv, sstore PROVE Inv'
    OBVIOUS
  <1>1. PICK v \in 0..1 :
          /\ Instruction
          /\ IF Top(x).static THEN Both(Exceptional(x), EvmExceptional(y))
             ELSE Both([x EXCEPT !.world = WriteStorage(Copied(@), Top(x).self, v)],
                       [y EXCEPT !.world = WriteStorage(@, Top(y).self, v)])
    BY DEF sstore
  <1>2. x.status = "run" /\ x \in Machines /\ y \in Machines /\ Sound(x) /\ x.frames # <<>>
    BY <1>1 DEF Instruction, Inv, Sound
  <1>3. CASE Top(x).static
    BY <1>1, <1>2, <1>3, ExceptionalSteps, BothInv
  <1>4. CASE ~Top(x).static
    <2> DEFINE w == WriteStorage(Copied(x.world), Top(x).self, v)
               u == WriteStorage(y.world, Top(y).self, v)
    <2>1. Both([x EXCEPT !.world = w], [y EXCEPT !.world = u])
      BY <1>1, <1>4
    <2>2. x.world \in Worlds /\ Top(x) \in Frames /\ Solvent(x.world)
      BY <1>2, Parts DEF Sound
    <2>3. w \in Worlds /\ w.balance = x.world.balance
      BY <2>2 DEF WriteStorage, Copied, Worlds, Frames
    <2>4. Solvent(w)
      BY <2>2, <2>3 DEF Solvent
    <2>5. ASSUME y.status = "run"
          PROVE  u \in Worlds /\ SameWorld(w, u) /\ SameFrames(x.frames, y.frames)
      <3>1. /\ SameFrames(x.frames, y.frames) /\ SameWorld(x.world, y.world)
            /\ y.world \in Worlds /\ Top(y) \in Frames /\ Top(y).self = Top(x).self
        BY <1>2, <2>5, TopsAgree DEF SameFrame
      <3>2. u \in Worlds
        BY <3>1 DEF WriteStorage, Worlds, Frames
      <3>3. SameWorld(w, u)
        BY <2>2, <3>1 DEF WriteStorage, Copied, Worlds, SameWorld
      <3>. QED
        BY <3>1, <3>2, <3>3
    <2>. HIDE DEF w, u
    <2>6. Sound([x EXCEPT !.world = w])
      BY <1>2, <1>4, <2>3, <2>4, SoundInWorld
    <2>7. y.status = "run" => /\ [y EXCEPT !.world = u] \in Machines
                              /\ Agree([x EXCEPT !.world = w], [y EXCEPT !.world = u])
      BY <1>2, <2>3, <2>5, InWorld, AgreeInWorld
    <2>. QED
      BY <1>1, <2>1, <2>6, <2>7, BothInv
  <1>. QED
    BY <1>3, <1>4

LEMMA EvmMoved ==
  ASSUME NEW w \in Worlds, NEW from \in Addresses, NEW to \in Addresses
  PROVE  Moved(w, from, to, w.balance[from]) \in Worlds
  <1> DEFINE v == w.balance[from]
             b == [w.balance EXCEPT ![to] = @ + v]
  <1>1. w.balance \in [Addresses -> Int] /\ v \in Int
    BY DEF Worlds
  <1>. HIDE DEF v
  <1>2. b \in [Addresses -> Int]
    BY <1>1
  <1>. HIDE DEF b
  <1>3. [b EXCEPT ![from] = @ - v] \in [Addresses -> Int]
    BY <1>1, <1>2
  <1>4. [w EXCEPT !.balance = [b EXCEPT ![from] = @ - v]] \in Worlds
    BY <1>3 DEF Worlds
  <1>. QED
    BY <1>4 DEF Moved, v, b

LEMMA Selfdestruct == Inv /\ selfdestruct => Inv'
  <1> SUFFICES ASSUME Inv, selfdestruct PROVE Inv'
    OBVIOUS
  <1> DEFINE self == Top(x).self
             own == Top(y).self
             gone(target) == [x EXCEPT !.world.balance[target] = @ + x.world.balance[self],
                                       !.world.dead = {self}]
             moved(target) == Moved(y.world, own, target, y.world.balance[own])
             paid(target) == [y EXCEPT !.world = [moved(target) EXCEPT !.dead = @ \cup {own}]]
             nx(target) == IF Nested(x)
                           THEN [_end_message_call(FALSE, None) EXCEPT !.world = Copied(gone(target).world)]
                           ELSE Ended(gone(target), FALSE, None)
             ny(target) == Part(EvmEnd(paid(target), FALSE, 0), Nested(y) \/ y.world.balance[own] > 0)
  <1>1. PICK target \in {"B", "E"} :
          /\ Instruction
          /\ IF Top(x).static THEN Both(Exceptional(x), EvmExceptional(y))
             ELSE Both(nx(target), ny(target))
    BY DEF selfdestruct
  <1>2. x.status = "run" /\ x \in Machines /\ y \in Machines /\ Sound(x) /\ x.frames # <<>>
        /\ target \in Addresses /\ None \in Int /\ 0 \in Int /\ FALSE \in BOOLEAN
    BY <1>1 DEF Instruction, Inv, Sound, Addresses, None
  <1>3. CASE Top(x).static
    BY <1>1, <1>2, <1>3, ExceptionalSteps, BothInv
  <1>4. CASE ~Top(x).static
    <2> DEFINE w == gone(target).world
               u == [moved(target) EXCEPT !.dead = @ \cup {own}]
    <2>1. x.world \in Worlds /\ Top(x) \in Frames /\ Solvent(x.world) /\ self \in Addresses
          /\ x.world.balance \in [Addresses -> Int]
      BY <1>2, Parts DEF Sound, Frames, Worlds
    <2>2. /\ gone(target) = [x EXCEPT !.world = w]
          /\ w = [x.world EXCEPT !.balance = [x.world.balance EXCEPT ![target] = @ + x.world.balance[self]],
                                 !.dead = {self}]
      BY <1>2, <2>1 DEF Machines, Worlds
    <2>3. /\ w \in Worlds /\ w.storage = x.world.storage /\ w.exists = x.world.exists
          /\ w.balance = [x.world.balance EXCEPT ![target] = @ + x.world.balance[self]]
      <3> DEFINE b == [x.world.balance EXCEPT ![target] = @ + x.world.balance[self]]
      <3>1. b \in [Addresses -> Int] /\ {self} \in SUBSET Addresses
        <4>. HIDE DEF self, w, u, gone, moved, paid, nx, ny
        <4>1. x.world.balance[self] \in Int
          BY <2>1
        <4>2. b \in [Addresses -> Int]
          BY <1>2, <2>1, <4>1
        <4>. QED
          BY <2>1, <4>2
      <3>2. w = [x.world EXCEPT !.balance = b, !.dead = {self}]
        BY <2>2
      <3>. HIDE DEF w, b
      <3>3. /\ w \in Worlds /\ w.storage = x.world.storage /\ w.exists = x.world.exists
            /\ w.balance = b
        BY <2>1, <3>1, <3>2 DEF Worlds
      <3>. QED
        BY <3>3 DEF b
    <2>4. Solvent(w)
      BY <1>2, <2>1, <2>3 DEF Solvent
    <2>5. Copied(w) \in Worlds /\ Solvent(Copied(w)) /\ Unwritten(Copied(w), x.world)
      <3>1. Copied(w) \in Worlds /\ SameWorld(Copied(w), w)
        BY <2>3, CopiedWorld
      <3>. QED
        BY <2>3, <2>4, <3>1 DEF SameWorld, Solvent, Unwritten
    <2>6. ASSUME Nested(x) PROVE Sound(nx(target))
      <3> DEFINE e == _end_message_call(FALSE, None)
      <3>1. Sound(e)
        BY <1>2, <2>6, SoundEnd
      <3>2. e.frames # <<>> /\ e.world = Copied(x.world)
        <4>1. e = Returned(x, Copied(x.world), Learnt(Top(x).op, None), None)
          BY EndOfCall DEF WorldBehind
        <4>2. Learnt(Top(x).op, None) \in Int /\ Copied(x.world) \in Worlds
          BY <1>2, <2>1, AnswerTypes, CopiedWorld
        <4>3. PICK n : n = Len(x.frames) - 1
          OBVIOUS
        <4>. HIDE DEF e
        <4>. QED
          BY <1>2, <2>6, <4>1, <4>2, <4>3, ReturnedMachine
      <3>. HIDE DEF e, w
      <3>3. SameWorld(Copied(x.world), x.world)
        BY <2>1, CopiedWorld
      <3>4. Unwritten(Copied(w), e.world)
        BY <2>5, <3>2, <3>3 DEF Unwritten, SameWorld
      <3>5. Sound([e EXCEPT !.world = Copied(w)])
        BY <2>5, <3>1, <3>2, <3>4, SoundInWorld
      <3>. QED
        BY <2>6, <3>5 DEF e, w
    <2>7. ASSUME ~Nested(x) PROVE nx(target) = Closed(x, w)
      <3>1. gone(target) \in Machines /\ gone(target).frames = x.frames
        BY <1>2, <2>2, <2>3, InWorld
      <3>2. ~Nested(gone(target))
        BY <2>7, <3>1 DEF Nested
      <3>3. nx(target) = Closed(gone(target), w)
        <4>. HIDE DEF gone
        <4>1. nx(target) = Ended(gone(target), FALSE, None)
          BY <2>7
        <4>. QED
          BY <1>2, <3>1, <3>2, <4>1, EndedSteps
      <3>4. Closed([x EXCEPT !.world = w], w) = Closed(x, w)
        BY <1>2, <2>3 DEF Closed, Machines
      <3>. QED
        BY <2>2, <3>3, <3>4
    <2>8. ASSUME y.status = "run"
          PROVE  ny(target) \in Machines /\ Agree(nx(target), ny(target))
      <3>1. /\ SameWorld(x.world, y.world) /\ own = self /\ (Nested(x) <=> Nested(y))
            /\ y.world \in Worlds /\ Top(y) \in Frames /\ own \in Addresses /\ y.frames # <<>>
        BY <1>2, <2>8, TopsAgree DEF SameFrame, Frames
      <3>2. moved(target) \in Worlds
        BY <1>2, <3>1, EvmMoved
      <3>3. /\ u \in Worlds /\ SameWorld(u, moved(target))
        <4>. HIDE DEF moved
        <4>. QED
          BY <3>1, <3>2 DEF Worlds, SameWorld
      <3>4. paid(target) \in Machines /\ paid(target).frames = y.frames /\ paid(target).world = u
        <4>1. paid(target) = [y EXCEPT !.world = u]
          OBVIOUS
        <4>. HIDE DEF u, paid
        <4>. QED
          BY <1>2, <3>3, <4>1, InWorld
      <3>5. Closed(paid(target), u) = Closed(y, u)
        <4>1. paid(target) = [y EXCEPT !.world = u]
          OBVIOUS
        <4>. HIDE DEF u, paid
        <4>. QED
          BY <1>2, <3>3, <4>1 DEF Closed, Machines
      <3>6. ASSUME ~(Nested(y) \/ y.world.balance[own] > 0)
            PROVE  Agree(nx(target), EvmEnd(paid(target), FALSE, 0))
        <4>1. y.world.balance[own] = 0
          BY <2>1, <3>1, <3>6 DEF Solvent, SameWorld
        <4>2. SameWorld(moved(target), y.world)
          <5>1. SameWorld(Moved(y.world, own, target, 0), y.world)
            BY <1>2, <3>1, MovedWorld
          <5>. QED
            BY <4>1, <5>1
        <4>3. w.balance = x.world.balance
          BY <1>2, <2>1, <2>3, <3>1, <4>1 DEF SameWorld
        <4>. HIDE DEF w, u, moved, paid, nx
        <4>4. SameWorld(w, u)
          BY <2>3, <3>1, <3>3, <4>2, <4>3 DEF SameWorld
        <4>5. EvmEnd(paid(target), FALSE, 0) = Closed(paid(target), u)
          BY <1>2, <3>4, <3>6, EvmEndSteps DEF Nested
        <4>. QED
          <5>1. Agree(Closed(x, w), Closed(y, u))
            BY <1>2, <2>3, <3>3, <4>4, AgreeClose
          <5>. QED
            BY <2>7, <3>1, <3>5, <3>6, <4>5, <5>1
      <3>7. EvmEnd(paid(target), FALSE, 0) \in Machines
        <4>. HIDE DEF paid
        <4>. QED
          BY <1>2, <3>1, <3>4, EvmEndTypes
      <3>. HIDE DEF paid
      <3>. QED
        BY <3>6, <3>7, AgreePart
    <2>9. Sound(nx(target))
      <3>. HIDE DEF w
      <3>. QED
        BY <1>2, <2>3, <2>4, <2>6, <2>7, SoundClose
    <2>10. Both(nx(target), ny(target))
      BY <1>1, <1>4
    <2>. HIDE DEF nx, ny
    <2>. QED
      BY <1>1, <2>8, <2>9, <2>10, BothInv
  <1>. QED
    BY <1>3, <1>4

\* EvmCall for an account with code, one without, and where it fails.
Cost(op, value) == IF op \in Withvalue THEN value ELSE 0
EvmPaid(op, to, value) ==
  IF op = "CALL" THEN Moved(y.world, Top(y).self, to, Cost(op, value)) ELSE y.world
EvmFrame(op, to, value) ==
  Frame(op, IF op \in {"CALL", "STATICCALL"} THEN to ELSE Top(y).self,
        IF op = "DELEGATECALL" THEN Top(y).sender ELSE Top(y).self,
        IF op = "DELEGATECALL" THEN Top(y).value ELSE Cost(op, value),
        Top(y).static \/ op = "STATICCALL", y.world)

LEMMA EvmCallSteps ==
  ASSUME NEW op \in Ops, NEW to, NEW value
  PROVE  /\ op = "CALL" /\ Top(y).static /\ value > 0 => EvmCall(op, to, value) = EvmExceptional(y)
         /\ ~(op = "CALL" /\ Top(y).static /\ value > 0) /\ to \notin Coded =>
              EvmCall(op, to, value)
                = [Update(y, Told(Top(y), Operands(op), 1, 0)) EXCEPT !.world = EvmPaid(op, to, value)]
         /\ ~(op = "CALL" /\ Top(y).static /\ value > 0) /\ to \in Coded =>
              EvmCall(op, to, value) = Enter(y, EvmFrame(op, to, value), EvmPaid(op, to, value))
  <1>1. CASE op = "CALL" /\ Top(y).static /\ value > 0
    BY <1>1 DEF EvmCall
  <1>2. CASE ~(op = "CALL" /\ Top(y).static /\ value > 0) /\ to \notin Coded
    BY <1>2 DEF EvmCall, EvmPaid, Told, Cost
  <1>3. CASE ~(op = "CALL" /\ Top(y).static /\ value > 0) /\ to \in Coded
    BY <1>3 DEF EvmCall, EvmPaid, EvmFrame, Cost
  <1>. QED
    BY <1>1, <1>2, <1>3

LEMMA EvmCallTypes ==
  ASSUME y \in Machines, y.frames # <<>>, NEW op \in Ops, NEW to \in Addresses, NEW value \in 0..1
  PROVE  /\ EvmCall(op, to, value) \in Machines
         /\ EvmPaid(op, to, value) \in Worlds /\ EvmFrame(op, to, value) \in Frames
         /\ Told(Top(y), Operands(op), 1, 0) \in Frames
  <1>1. y.world \in Worlds /\ Top(y) \in Frames /\ Cost(op, value) \in 0..1 /\ Operands(op) \in Int
    BY Parts DEF Cost, Operands
  <1>2. /\ Top(y).self \in Addresses /\ Top(y).sender \in Addresses /\ Top(y).value \in 0..1
        /\ Top(y).static \in BOOLEAN /\ op \in Opened \cup {"TX"} /\ 0 \in Int /\ 1 \in Int
    BY <1>1 DEF Frames, Opened
  <1>3. EvmPaid(op, to, value) \in Worlds
    BY <1>1, <1>2, MovedWorld DEF EvmPaid
  <1>4. EvmFrame(op, to, value) \in Frames
    <2>1. (Top(y).static \/ op = "STATICCALL") \in BOOLEAN
      BY <1>2
    <2>. QED
      BY <1>1, <1>2, <2>1, NewFrame DEF EvmFrame
  <1>5. Told(Top(y), Operands(op), 1, 0) \in Frames
    BY <1>1, <1>2, AnsweredFrame
  <1>6. EvmExceptional(y) \in Machines
    <2>1. TRUE \in BOOLEAN
      OBVIOUS
    <2>. QED
      BY <1>2, <2>1, EvmEndTypes DEF EvmExceptional
  <1>7. [Update(y, Told(Top(y), Operands(op), 1, 0)) EXCEPT !.world = EvmPaid(op, to, value)] \in Machines
    BY <1>3, <1>5, UpdatedMachine, InWorld
  <1>8. Enter(y, EvmFrame(op, to, value), EvmPaid(op, to, value)) \in Machines
    BY <1>3, <1>4, EnteredMachine
  <1>. QED
    BY <1>3, <1>4, <1>5, <1>6, <1>7, <1>8, EvmCallSteps

\* A call without a new frame.
LEMMA AnsweredSteps ==
  ASSUME Inv, x.status = "run", NEW op \in Ops, NEW to \in {"E", "native", "symbolic", "missing"},
         NEW value \in 0..1, NEW symbolic \in BOOLEAN, symbolic => to \in {"E", "symbolic"},
         op \notin Withvalue => value = 0
  PROVE  /\ Sound(Answered(op, to, value, symbolic))
         /\ /\ y.status = "run" /\ to \in {"E", "native"}
            /\ ~(op = "CALL" /\ Top(x).static /\ value > 0)
            /\ to = "native" => value = 0 /\ Top(x).data = 0
            /\ op = "CALLCODE" => value = 0
            /\ symbolic => Top(x).data = Any
           => Agree(Answered(op, to, value, symbolic), EvmCall(op, "E", value))
  <1> DEFINE f == Top(x)
             n == Operands(op)
             receiver == IF to = "symbolic" THEN "E" ELSE to
             world == IF to \in {"E", "symbolic"} THEN Moved(x.world, f.self, receiver, value) ELSE x.world
             r == IF to = "native" THEN 1 ELSE Any
             d == IF to = "native" \/ symbolic THEN f.data ELSE Any
             short == to \in {"E", "symbolic"} /\ ~CanPay(x.world, f.self, value)
  <1>1. /\ x \in Machines /\ x.world \in Worlds /\ f \in Frames /\ x.frames # <<>> /\ Sound(x)
        /\ f.self \in Addresses /\ f.data \in Int /\ Solvent(x.world)
    BY Parts DEF Inv, Sound, Frames
  <1>2. n \in Int /\ r \in Int /\ d \in Int /\ value \in Nat
    BY <1>1 DEF Operands, Any
  <1>3. (IF to = "native" THEN Answer(f, n, 1) ELSE SymbolicReturn(Answer(f, n, Any), symbolic))
          = Told(f, n, r, d)
    <2>1. Any \in Int /\ 1 \in Int
      BY DEF Any
    <2>2. Answer(f, n, 1) = Told(f, n, 1, f.data) /\ Answer(f, n, Any) = Told(f, n, Any, f.data)
      BY <1>1, <1>2, <2>1, AnsweredFrame
    <2>3. [Answer(f, n, Any) EXCEPT !.data = Any] = Told(f, n, Any, Any)
      BY DEF Told
    <2>. QED
      BY <2>2, <2>3 DEF SymbolicReturn
  <1>4. Answered(op, to, value, symbolic)
          = IF short THEN Stop(x, "infeasible")
            ELSE [Update(x, Told(f, n, r, d)) EXCEPT !.world = Copied(world)]
    <2>. HIDE DEF r, d
    <2>. QED
      BY <1>3 DEF Answered
  <1>5. /\ world \in Worlds /\ Unwritten(world, x.world)
        /\ ~short => Solvent(world)
    <2>1. receiver \in Addresses \/ to \notin {"E", "symbolic"}
      BY DEF Addresses
    <2>2. Unwritten(x.world, x.world)
      BY DEF Unwritten
    <2>. QED
      BY <1>1, <1>2, <2>1, <2>2, MovedWorld
  <1>6. Copied(world) \in Worlds /\ SameWorld(Copied(world), world)
    BY <1>5, CopiedWorld
  <1>7. /\ Told(f, n, r, d) \in Frames /\ Told(f, n, r, d).op = f.op
        /\ Told(f, n, r, d).static = f.static /\ Told(f, n, r, d).saved = f.saved
    BY <1>1, <1>2, AnsweredFrame
  <1>8. Sound(Answered(op, to, value, symbolic))
    <2>1. Sound(Stop(x, "infeasible"))
      BY <1>1, SoundStop DEF Statuses
    <2>2. ~short => Solvent(Copied(world)) /\ Unwritten(Copied(world), x.world)
      BY <1>5, <1>6 DEF SameWorld, Solvent, Unwritten
    <2>. HIDE DEF f, n, r, d, world, short
    <2>3. ~short => Sound([Update(x, Told(f, n, r, d)) EXCEPT !.world = Copied(world)])
      BY <1>1, <1>6, <1>7, <2>2, SoundUpdate DEF f
    <2>. QED
      BY <1>4, <2>1, <2>3
  <1>9. ASSUME y.status = "run", to \in {"E", "native"},
               ~(op = "CALL" /\ Top(x).static /\ value > 0),
               to = "native" => value = 0 /\ Top(x).data = 0,
               op = "CALLCODE" => value = 0,
               symbolic => Top(x).data = Any
        PROVE  Agree(Answered(op, to, value, symbolic), EvmCall(op, "E", value))
    <2> DEFINE g == Top(y)
               u == EvmPaid(op, "E", value)
    <2>1. /\ y \in Machines /\ y.frames # <<>> /\ SameFrames(x.frames, y.frames)
          /\ SameWorld(x.world, y.world) /\ y.world \in Worlds /\ g \in Frames /\ SameFrame(f, g)
      BY <1>9, TopsAgree DEF Inv
    <2>2. "E" \in Addresses /\ "E" \notin Coded
      BY DEF Addresses, Coded
    <2>3. u \in Worlds /\ Told(g, n, 1, 0) \in Frames
      BY <2>1, <2>2, EvmCallTypes
    <2>4. EvmCall(op, "E", value) = [Update(y, Told(g, n, 1, 0)) EXCEPT !.world = u]
      BY <1>9, <2>1, <2>2, EvmCallSteps DEF SameFrame
    <2>5. SameFrame(Told(f, n, r, d), Told(g, n, 1, 0))
      <3>1. r \in {Any, 1} /\ (IF d = None THEN 0 ELSE d) \in {Any, IF 0 = None THEN 0 ELSE 0}
        BY <1>9 DEF None, Any
      <3>2. 0 \in Int /\ 1 \in Int
        OBVIOUS
      <3>. HIDE DEF f, g, n, r, d
      <3>. QED
        BY <1>1, <1>2, <2>1, <3>1, <3>2, AnsweredAlike
    <2>6. SameWorld(world, u)
      <3>1. CASE value = 0
        <4>1. SameWorld(world, x.world)
          <5>1. SameWorld(x.world, x.world)
            BY DEF SameWorld
          <5>. QED
            BY <1>1, <1>9, <2>2, <3>1, <5>1, MovedWorld
        <4>2. SameWorld(u, y.world)
          <5>1. SameWorld(y.world, y.world) /\ Cost(op, value) = 0 /\ g.self \in Addresses
            BY <2>1, <3>1 DEF SameWorld, Cost, Frames
          <5>. QED
            BY <2>1, <2>2, <5>1, MovedWorld DEF EvmPaid
        <4>. QED
          BY <2>1, <4>1, <4>2 DEF SameWorld
      <3>2. CASE value # 0
        <4>1. op = "CALL" /\ to = "E" /\ g.self = f.self /\ Cost(op, value) = value
          BY <1>9, <2>1, <3>2 DEF Ops, Withvalue, Cost, SameFrame
        <4>2. u = Moved(y.world, f.self, "E", value) /\ world = Moved(x.world, f.self, "E", value)
          BY <4>1 DEF EvmPaid
        <4>. QED
          BY <1>1, <2>1, <2>2, <4>2, PaidWorlds
      <3>. QED
        BY <3>1, <3>2
    <2>7. SameWorld(Copied(world), u)
      BY <1>6, <2>6 DEF SameWorld
    <2>8. CASE short
      <3>1. Stop(x, "infeasible").status = "infeasible"
        BY <1>1, StoppedMachine DEF Statuses
      <3>. QED
        BY <1>4, <2>8, <3>1, AgreeStopped
    <2>9. CASE ~short
      <3>. HIDE DEF f, n, r, d, world, short, g, u
      <3>1. Agree([Update(x, Told(f, n, r, d)) EXCEPT !.world = Copied(world)],
                  [Update(y, Told(g, n, 1, 0)) EXCEPT !.world = u])
        BY <1>1, <1>6, <1>7, <1>9, <2>1, <2>3, <2>5, <2>7, AgreeUpdate
      <3>. QED
        BY <1>4, <2>4, <2>9, <3>1
    <2>. QED
      BY <2>8, <2>9
  <1>. QED
    BY <1>8, <1>9

\* A call with a new frame.
LEMMA ContextFrames ==
  ASSUME NEW f \in Frames, NEW op \in Ops, NEW to \in Coded, NEW value \in 0..1,
         op \notin Withvalue => value = 0, NEW saved \in Worlds
  PROVE  /\ Context(op, f, to, value, saved) \in Frames
         /\ Context(op, f, to, value, saved).op = op
         /\ Context(op, f, to, value, saved).saved = saved
         /\ Context(op, f, to, value, saved).self = IF op \in {"CALL", "STATICCALL"} THEN to ELSE f.self
         /\ Context(op, f, to, value, saved).sender = IF op = "DELEGATECALL" THEN f.sender ELSE f.self
         /\ Context(op, f, to, value, saved).value = IF op = "DELEGATECALL" THEN f.value ELSE value
         /\ Context(op, f, to, value, saved).static = (f.static \/ op = "STATICCALL")
         /\ Context(op, f, to, value, saved)
              = Frame(op, IF op \in {"CALL", "STATICCALL"} THEN to ELSE f.self,
                      IF op = "DELEGATECALL" THEN f.sender ELSE f.self,
                      IF op = "DELEGATECALL" THEN f.value ELSE value, f.static \/ op = "STATICCALL", saved)
  <1>1. op \in {"CALL", "CALLCODE", "DELEGATECALL", "STATICCALL"}
    BY DEF Ops
  <1>2. /\ f.self \in Addresses /\ f.sender \in Addresses /\ f.value \in 0..1 /\ f.static \in BOOLEAN
        /\ to \in Addresses /\ op \in Opened \cup {"TX"}
    BY DEF Frames, Coded, Addresses, Opened
  <1>3. TRUE \in BOOLEAN /\ (f.static \/ FALSE) = f.static
    BY <1>2
  <1>4. Context(op, f, to, value, saved)
          = Frame(op, IF op \in {"CALL", "STATICCALL"} THEN to ELSE f.self,
                  IF op = "DELEGATECALL" THEN f.sender ELSE f.self,
                  IF op = "DELEGATECALL" THEN f.value ELSE value, f.static \/ op = "STATICCALL", saved)
    <2>1. CASE op = "CALL"
      BY <1>2, <1>3, <2>1 DEF Context
    <2>2. CASE op = "CALLCODE"
      BY <1>2, <1>3, <2>2 DEF Context, callcode_
    <2>3. CASE op = "DELEGATECALL"
      BY <1>2, <1>3, <2>3 DEF Context, delegatecall_
    <2>4. CASE op = "STATICCALL"
      BY <1>2, <1>3, <2>4 DEF Context, staticcall_, Withvalue
    <2>. QED
      BY <1>1, <2>1, <2>2, <2>3, <2>4
  <1> DEFINE self == IF op \in {"CALL", "STATICCALL"} THEN to ELSE f.self
             sender == IF op = "DELEGATECALL" THEN f.sender ELSE f.self
             paid == IF op = "DELEGATECALL" THEN f.value ELSE value
             static == f.static \/ op = "STATICCALL"
  <1>5. self \in Addresses /\ sender \in Addresses /\ paid \in 0..1 /\ static \in BOOLEAN
    BY <1>2
  <1>. HIDE DEF self, sender, paid, static
  <1>6. Frame(op, self, sender, paid, static, saved) \in Frames
    BY <1>2, <1>5, NewFrame
  <1>7. LET g == Frame(op, self, sender, paid, static, saved)
        IN  /\ g.op = op /\ g.saved = saved /\ g.self = self /\ g.sender = sender
            /\ g.value = paid /\ g.static = static
    BY DEF Frame
  <1>. QED
    BY <1>4, <1>6, <1>7 DEF self, sender, paid, static

LEMMA StartedSound ==
  ASSUME NEW s, Sound(s), s.frames # <<>>, NEW f \in Frames, f.op \in Opened,
         f.op = "STATICCALL" => f.static, Top(s).static => f.static,
         f.static => Unwritten(s.world, f.saved), Solvent(f.saved)
  PROVE  /\ Sound(Started(s, f))
         /\ ~CanPay(s.world, f.sender, f.value) => Started(s, f).status = "infeasible"
         /\ CanPay(s.world, f.sender, f.value) =>
              /\ Started(s, f) = Enter(s, f, Copied(Moved(s.world, f.sender, f.self, f.value)))
              /\ Copied(Moved(s.world, f.sender, f.self, f.value)) \in Worlds
              /\ SameWorld(Copied(Moved(s.world, f.sender, f.self, f.value)),
                           Moved(s.world, f.sender, f.self, f.value))
  <1> DEFINE m == Moved(s.world, f.sender, f.self, f.value)
  <1>1. /\ s \in Machines /\ s.world \in Worlds /\ Solvent(s.world)
        /\ f.sender \in Addresses /\ f.self \in Addresses /\ f.value \in 0..1
    BY Parts DEF Sound, Frames
  <1>2. /\ m \in Worlds /\ Unwritten(m, s.world)
        /\ CanPay(s.world, f.sender, f.value) => Solvent(m)
    <2>1. f.value \in Nat
      BY <1>1
    <2>. QED
      BY <1>1, <2>1, MovedWorld
  <1>. HIDE DEF m
  <1>3. Copied(m) \in Worlds /\ SameWorld(Copied(m), m)
    BY <1>2, CopiedWorld
  <1>4. Started(s, f) = IF ~CanPay(s.world, f.sender, f.value) THEN Stop(s, "infeasible")
                        ELSE Enter(s, f, Copied(m))
    BY DEF Started, m
  <1>5. Sound(Stop(s, "infeasible")) /\ Stop(s, "infeasible").status = "infeasible"
    BY <1>1, SoundStop, StoppedMachine DEF Statuses
  <1>6. CanPay(s.world, f.sender, f.value) => Sound(Enter(s, f, Copied(m)))
    <2>1. /\ Unwritten(Copied(m), s.world)
          /\ CanPay(s.world, f.sender, f.value) => Solvent(Copied(m))
      BY <1>2, <1>3 DEF SameWorld, Solvent, Unwritten
    <2>2. f.static => Unwritten(Copied(m), f.saved)
      BY <2>1 DEF Unwritten
    <2>. QED
      BY <1>3, <2>1, <2>2, SoundEnter
  <1>. QED
    BY <1>3, <1>4, <1>5, <1>6 DEF m

LEMMA StartedSteps ==
  ASSUME Inv, x.status = "run", NEW op \in Ops, NEW to \in Coded, NEW value \in 0..1,
         op \notin Withvalue => value = 0
  PROVE  /\ Sound(Started(x, Context(op, Top(x), to, value, x.world)))
         /\ /\ y.status = "run"
            /\ ~(op = "CALL" /\ Top(x).static /\ value > 0)
            /\ op = "DELEGATECALL" => Top(x).value = 0
           => Agree(Started(x, Context(op, Top(x), to, value, x.world)), EvmCall(op, to, value))
  <1> DEFINE f == Top(x)
             c == Context(op, f, to, value, x.world)
             m == Moved(x.world, c.sender, c.self, c.value)
  <1>1. /\ x \in Machines /\ x.world \in Worlds /\ f \in Frames /\ x.frames # <<>> /\ Sound(x)
        /\ Solvent(x.world)
    BY Parts DEF Inv, Sound
  <1>2. /\ c \in Frames /\ c.op = op /\ c.saved = x.world
        /\ c.self = (IF op \in {"CALL", "STATICCALL"} THEN to ELSE f.self)
        /\ c.sender = (IF op = "DELEGATECALL" THEN f.sender ELSE f.self)
        /\ c.value = (IF op = "DELEGATECALL" THEN f.value ELSE value)
        /\ c.static = (f.static \/ op = "STATICCALL")
        /\ c = Frame(op, IF op \in {"CALL", "STATICCALL"} THEN to ELSE f.self,
                     IF op = "DELEGATECALL" THEN f.sender ELSE f.self,
                     IF op = "DELEGATECALL" THEN f.value ELSE value, f.static \/ op = "STATICCALL", x.world)
    BY <1>1, ContextFrames
  <1>. HIDE DEF c
  <1>3. /\ Sound(Started(x, c))
        /\ ~CanPay(x.world, c.sender, c.value) => Started(x, c).status = "infeasible"
        /\ CanPay(x.world, c.sender, c.value) =>
             Started(x, c) = Enter(x, c, Copied(m)) /\ Copied(m) \in Worlds /\ SameWorld(Copied(m), m)
    <2>1. c.op \in Opened /\ (c.op = "STATICCALL" => c.static) /\ (f.static => c.static)
      BY <1>2 DEF Opened
    <2>2. Unwritten(x.world, c.saved) /\ Solvent(c.saved)
      BY <1>1, <1>2 DEF Unwritten
    <2>. QED
      BY <1>1, <1>2, <2>1, <2>2, StartedSound
  <1>4. ASSUME y.status = "run", ~(op = "CALL" /\ f.static /\ value > 0),
               op = "DELEGATECALL" => f.value = 0
        PROVE  Agree(Started(x, c), EvmCall(op, to, value))
    <2> DEFINE g == Top(y)
               u == EvmPaid(op, to, value)
               e == EvmFrame(op, to, value)
    <2>1. /\ y \in Machines /\ y.frames # <<>> /\ SameFrames(x.frames, y.frames)
          /\ SameWorld(x.world, y.world) /\ y.world \in Worlds /\ g \in Frames /\ SameFrame(f, g)
      BY <1>4, TopsAgree DEF Inv
    <2>2. to \in Addresses
      BY DEF Addresses, Coded
    <2>3. u \in Worlds /\ e \in Frames
      BY <2>1, <2>2, EvmCallTypes
    <2>4. EvmCall(op, to, value) = Enter(y, e, u)
      BY <1>4, <2>1, <2>2, EvmCallSteps DEF SameFrame
    <2>5. Cost(op, value) = value
      BY DEF Cost
    <2>6. SameFrame(c, e)
      <3>1. e = Frame(op, IF op \in {"CALL", "STATICCALL"} THEN to ELSE f.self,
                      IF op = "DELEGATECALL" THEN f.sender ELSE f.self,
                      IF op = "DELEGATECALL" THEN f.value ELSE value, f.static \/ op = "STATICCALL", y.world)
        BY <2>1, <2>5 DEF EvmFrame, SameFrame
      <3> DEFINE self == IF op \in {"CALL", "STATICCALL"} THEN to ELSE f.self
                 sender == IF op = "DELEGATECALL" THEN f.sender ELSE f.self
                 paid == IF op = "DELEGATECALL" THEN f.value ELSE value
                 static == f.static \/ op = "STATICCALL"
      <3>2. /\ self \in Addresses /\ sender \in Addresses /\ paid \in 0..1 /\ static \in BOOLEAN
            /\ op \in Opened \cup {"TX"}
        BY <1>1, <2>2 DEF Frames, Opened
      <3>3. c = Frame(op, self, sender, paid, static, x.world) /\ e = Frame(op, self, sender, paid, static, y.world)
        BY <1>2, <3>1
      <3>. HIDE DEF self, sender, paid, static, e
      <3>. QED
        BY <1>1, <2>1, <3>2, <3>3, NewFrame
    <2>7. ASSUME CanPay(x.world, c.sender, c.value) PROVE SameWorld(m, u)
      <3>1. c.sender \in Addresses /\ c.self \in Addresses /\ c.value \in 0..1 /\ c.value \in Nat
        BY <1>2 DEF Frames
      <3>2. CASE op = "CALL"
        <4>1. m = Moved(x.world, f.self, to, value) /\ u = Moved(y.world, f.self, to, value)
          BY <1>2, <2>1, <2>5, <3>2 DEF EvmPaid, SameFrame
        <4>2. f.self \in Addresses
          BY <1>1 DEF Frames
        <4>. QED
          BY <1>1, <2>1, <2>2, <4>1, <4>2, PaidWorlds
      <3>3. CASE op # "CALL"
        <4>1. c.value = 0 \/ c.sender = c.self
          BY <1>2, <1>4, <3>3 DEF Ops, Withvalue
        <4>2. SameWorld(m, x.world)
          BY <1>1, <3>1, <4>1, MovedWorld
        <4>3. u = y.world
          BY <3>3 DEF EvmPaid
        <4>. QED
          BY <2>1, <4>2, <4>3 DEF SameWorld
      <3>. QED
        BY <3>2, <3>3
    <2>8. CASE ~CanPay(x.world, c.sender, c.value)
      BY <1>3, <2>8, AgreeStopped
    <2>9. CASE CanPay(x.world, c.sender, c.value)
      <3>1. SameWorld(Copied(m), u)
        BY <1>3, <2>7, <2>9 DEF SameWorld
      <3>. HIDE DEF m, u, e
      <3>2. Agree(Enter(x, c, Copied(m)), Enter(y, e, u))
        BY <1>1, <1>2, <1>3, <1>4, <2>1, <2>3, <2>6, <2>9, <3>1, AgreeEnter
      <3>. QED
        BY <1>3, <2>4, <2>9, <3>2
    <2>. QED
      BY <2>8, <2>9
  <1>. QED
    BY <1>3, <1>4 DEF c

LEMMA Call == Inv /\ call => Inv'
  <1> SUFFICES ASSUME Inv, call PROVE Inv'
    OBVIOUS
  <1> DEFINE f == Top(x)
             receiver(to) == IF to = "native" THEN "E" ELSE to
             short(op, value) == op \in Withvalue /\ ~CanPay(y.world, Top(y).self, value)
             protected(op, to, value) == op = "CALL" /\ f.static /\ value > 0 /\ to \in Coded \cup {"native"}
             nx(op, to, value, symbolic, constant) ==
               IF protected(op, to, value) THEN (IF constant THEN Exceptional(x) ELSE Stop(x, "infeasible"))
               ELSE IF to \notin Coded THEN Answered(op, to, value, symbolic)
               ELSE Started(x, Context(op, f, to, value, x.world))
             apart(op, to, value, symbolic, constant) ==
               \/ protected(op, to, value) /\ ~constant
               \/ op = "DELEGATECALL" /\ to \in Coded /\ Top(y).value > 0
               \/ value > 0 /\ to = "native"
               \/ value > 0 /\ to = "E" /\ (op = "CALLCODE" \/ f.static)
               \/ to = "native" /\ f.data # 0
               \/ to = "E" /\ symbolic /\ f.data # Any
             ny(op, to, value, symbolic, constant) ==
               IF to \in {"symbolic", "missing"} \/ short(op, value) THEN Stop(y, "apart")
               ELSE Part(EvmCall(op, receiver(to), value), apart(op, to, value, symbolic, constant))
  <1>1. PICK op \in Ops, to \in Targets, value \in 0..1, symbolic \in BOOLEAN, constant \in BOOLEAN :
          /\ Instruction
          /\ op \notin Withvalue => value = 0
          /\ symbolic => to \in {"E", "symbolic"}
          /\ ~constant => op = "CALL" /\ Top(x).static /\ value > 0
          /\ to \in Coded => Len(x.frames) < MaxFrames
          /\ Both(IF op = "CALL" /\ Top(x).static /\ value > 0 /\ to \in Coded \cup {"native"}
                  THEN (IF constant THEN Exceptional(x) ELSE Stop(x, "infeasible"))
                  ELSE IF to \notin Coded THEN Answered(op, to, value, symbolic)
                  ELSE Started(x, Context(op, Top(x), to, value, x.world)),
                  IF \/ to \in {"symbolic", "missing"}
                     \/ op \in Withvalue /\ ~CanPay(y.world, Top(y).self, value)
                  THEN Stop(y, "apart")
                  ELSE Part(EvmCall(op, IF to = "native" THEN "E" ELSE to, value),
                         \/ (op = "CALL" /\ Top(x).static /\ value > 0 /\ to \in Coded \cup {"native"})
                            /\ ~constant
                         \/ op = "DELEGATECALL" /\ to \in Coded /\ Top(y).value > 0
                         \/ value > 0 /\ to = "native"
                         \/ value > 0 /\ to = "E" /\ (op = "CALLCODE" \/ Top(x).static)
                         \/ to = "native" /\ Top(x).data # 0
                         \/ to = "E" /\ symbolic /\ Top(x).data # Any))
    BY Zenon DEF call
  <1>6. Both(nx(op, to, value, symbolic, constant), ny(op, to, value, symbolic, constant))
    BY <1>1
  <1>2. /\ x.status = "run" /\ x \in Machines /\ y \in Machines /\ Sound(x) /\ x.frames # <<>>
        /\ f \in Frames /\ f.value \in 0..1
    BY <1>1, Parts DEF Instruction, Inv, Sound, Frames
  <1>3. to \in Coded \/ to \in {"E", "native", "symbolic", "missing"}
    BY DEF Targets
  <1>. HIDE DEF short, ny, nx
  <1>4. Sound(nx(op, to, value, symbolic, constant))
    <2>1. Sound(Stop(x, "infeasible"))
      BY <1>2, SoundStop DEF Statuses
    <2>2. Sound(Exceptional(x))
      BY <1>2, ExceptionalSteps
    <2>3. to \notin Coded => Sound(Answered(op, to, value, symbolic))
      BY <1>1, <1>2, <1>3, AnsweredSteps
    <2>4. to \in Coded => Sound(Started(x, Context(op, f, to, value, x.world)))
      BY <1>1, <1>2, StartedSteps
    <2>. QED
      BY <2>1, <2>2, <2>3, <2>4 DEF nx
  <1>5. ASSUME y.status = "run"
        PROVE  /\ ny(op, to, value, symbolic, constant) \in Machines
               /\ Agree(nx(op, to, value, symbolic, constant), ny(op, to, value, symbolic, constant))
    <2>1. /\ y.frames # <<>> /\ SameFrame(f, Top(y))
      BY <1>2, <1>5, TopsAgree
    <2>2. Stop(y, "apart") \in Machines /\ Stop(y, "apart").status = "apart"
      BY <1>2, StoppedMachine DEF Statuses
    <2>3. CASE to \in {"symbolic", "missing"} \/ short(op, value)
      <3>1. ny(op, to, value, symbolic, constant) = Stop(y, "apart")
        BY <2>3 DEF ny
      <3>. QED
        BY <2>2, <3>1, AgreeApart
    <2>4. CASE ~(to \in {"symbolic", "missing"} \/ short(op, value))
      <3>1. to \in Coded \/ to = "E" \/ to = "native"
        BY <1>3, <2>4
      <3>2. receiver(to) \in Addresses /\ (to \notin Coded => receiver(to) = "E")
            /\ (to \in Coded => receiver(to) = to)
        BY <3>1 DEF Addresses, Coded
      <3>. HIDE DEF receiver, apart
      <3>3. EvmCall(op, receiver(to), value) \in Machines
        BY <1>2, <2>1, <3>2, EvmCallTypes
      <3>4. ASSUME ~apart(op, to, value, symbolic, constant)
            PROVE  Agree(nx(op, to, value, symbolic, constant), EvmCall(op, receiver(to), value))
        <4>1. CASE protected(op, to, value)
          <5>1. nx(op, to, value, symbolic, constant) = Exceptional(x)
            BY <3>4, <4>1 DEF nx, apart
          <5>2. EvmCall(op, receiver(to), value) = EvmExceptional(y)
            BY <2>1, <4>1, EvmCallSteps DEF SameFrame
          <5>. QED
            BY <1>2, <1>5, <5>1, <5>2, ExceptionalSteps
        <4>2. CASE ~protected(op, to, value) /\ to \in Coded
          <5>1. nx(op, to, value, symbolic, constant) = Started(x, Context(op, f, to, value, x.world))
            BY <4>2 DEF nx
          <5>2. /\ ~(op = "CALL" /\ f.static /\ value > 0)
                /\ op = "DELEGATECALL" => f.value = 0
            BY <1>2, <2>1, <3>4, <4>2 DEF apart, SameFrame
          <5>. QED
            BY <1>1, <1>2, <1>5, <3>2, <4>2, <5>1, <5>2, StartedSteps
        <4>3. CASE ~protected(op, to, value) /\ to \notin Coded
          <5>1. nx(op, to, value, symbolic, constant) = Answered(op, to, value, symbolic)
            BY <4>3 DEF nx
          <5>2. to \in {"E", "native"}
            BY <3>1, <4>3
          <5>3. /\ ~(op = "CALL" /\ f.static /\ value > 0)
                /\ to = "native" => value = 0 /\ f.data = 0
                /\ op = "CALLCODE" => value = 0
                /\ symbolic => f.data = Any
            BY <1>1, <3>4, <4>3, <5>2 DEF apart
          <5>4. to \in {"E", "native", "symbolic", "missing"} /\ receiver(to) = "E"
            BY <3>2, <4>3, <5>2
          <5>. QED
            BY <1>1, <1>2, <1>5, <5>1, <5>2, <5>3, <5>4, AnsweredSteps
        <4>. QED
          BY <4>1, <4>2, <4>3
      <3>5. ny(op, to, value, symbolic, constant)
              = Part(EvmCall(op, receiver(to), value), apart(op, to, value, symbolic, constant))
        BY <2>4 DEF ny
      <3>. QED
        BY <3>3, <3>4, <3>5, AgreePart
    <2>. QED
      BY <2>3, <2>4
  <1>. QED
    BY <1>1, <1>4, <1>5, <1>6, BothInv

LEMMA Create == Inv /\ create => Inv'
  <1> SUFFICES ASSUME Inv, create PROVE Inv'
    OBVIOUS
  <1> DEFINE f == Top(x)
             own == Top(y)
             new(value) == Frame("CREATE", "N", f.self, value, FALSE, x.world)
             evmNew(value) == Frame("CREATE", "N", own.self, value, FALSE, y.world)
             w == [x.world EXCEPT !.exists = @ \cup {"N"}]
             u == [y.world EXCEPT !.exists = @ \cup {"N"}]
             s == [x EXCEPT !.world.exists = @ \cup {"N"}]
             nx(value, code) == IF code = "symbolic" THEN [Update(x, Answer(f, 3, 1)) EXCEPT !.world = Copied(@)]
                                ELSE Started(s, new(value))
             ny(value, code) == IF code = "symbolic" \/ ~CanPay(y.world, own.self, value) THEN Stop(y, "apart")
                                ELSE Enter(y, evmNew(value), Moved(u, own.self, "N", value))
  <1>1. PICK value \in 0..1, code \in {"constant", "symbolic"} :
          /\ Instruction
          /\ IF f.static THEN Both(Exceptional(x), EvmExceptional(y))
             ELSE Both(nx(value, code), ny(value, code))
    BY DEF create
  <1>2. /\ x.status = "run" /\ x \in Machines /\ y \in Machines /\ Sound(x) /\ x.frames # <<>>
        /\ f \in Frames /\ f.self \in Addresses /\ f.data \in Int
        /\ x.world \in Worlds /\ Solvent(x.world) /\ "N" \in Addresses
    BY <1>1, Parts DEF Instruction, Inv, Sound, Frames, Addresses
  <1>3. CASE f.static
    BY <1>1, <1>2, <1>3, ExceptionalSteps, BothInv
  <1>4. CASE ~f.static
    <2>1. Both(nx(value, code), ny(value, code))
      BY <1>1, <1>4
    <2>2. /\ w \in Worlds /\ Solvent(w) /\ w.balance = x.world.balance /\ w.storage = x.world.storage
          /\ w.exists = x.world.exists \cup {"N"}
      BY <1>2 DEF Worlds, Solvent
    <2>3. s = [x EXCEPT !.world = w]
      BY <1>2 DEF Machines, Worlds
    <2>. HIDE DEF w, s
    <2>4. s \in Machines /\ s.frames = x.frames /\ s.status = "run" /\ s.world = w
      BY <1>2, <2>2, <2>3, InWorld
    <2>5. Sound(s)
      BY <1>2, <1>4, <2>2, <2>3, SoundInWorld
    <2>6. /\ new(value) \in Frames /\ new(value).op = "CREATE" /\ new(value).saved = x.world
          /\ new(value).static = FALSE /\ new(value).sender = f.self /\ new(value).self = "N"
          /\ new(value).value = value
      <3>1. "CREATE" \in Opened \cup {"TX"} /\ FALSE \in BOOLEAN
        BY DEF Opened
      <3>2. new(value) \in Frames
        BY <1>2, <3>1, NewFrame
      <3>. QED
        BY <3>2 DEF Frame
    <2>7. /\ Sound(Started(s, new(value)))
          /\ ~CanPay(w, f.self, value) => Started(s, new(value)).status = "infeasible"
          /\ CanPay(w, f.self, value) =>
               /\ Started(s, new(value)) = Enter(s, new(value), Copied(Moved(w, f.self, "N", value)))
               /\ Copied(Moved(w, f.self, "N", value)) \in Worlds
               /\ SameWorld(Copied(Moved(w, f.self, "N", value)), Moved(w, f.self, "N", value))
      <3>. HIDE DEF new, f
      <3>1. "CREATE" \in Opened /\ Top(s) = f /\ s.frames # <<>>
        BY <1>2, <2>4 DEF Opened, Top, f
      <3>. QED
        BY <1>2, <1>4, <2>4, <2>5, <2>6, <3>1, StartedSound
    <2>8. Sound(nx(value, code))
      <3>1. CASE code = "symbolic"
        <4>1. 3 \in Int /\ 1 \in Int
          OBVIOUS
        <4> DEFINE g == Told(f, 3, 1, f.data)
        <4>2. /\ Answer(f, 3, 1) = g /\ g \in Frames /\ g.op = f.op /\ g.static = f.static
              /\ g.saved = f.saved
          BY <1>2, <4>1, AnsweredFrame
        <4>. HIDE DEF g
        <4>6. /\ Answer(f, 3, 1) \in Frames /\ Answer(f, 3, 1).op = f.op
              /\ Answer(f, 3, 1).static = f.static /\ Answer(f, 3, 1).saved = f.saved
          BY <4>2
        <4>3. Copied(x.world) \in Worlds /\ Solvent(Copied(x.world))
          BY <1>2, CopiedWorld DEF SameWorld, Solvent
        <4>4. Sound([Update(x, Answer(f, 3, 1)) EXCEPT !.world = Copied(x.world)])
          BY <1>2, <1>4, <4>6, <4>3, SoundUpdate
        <4>5. Update(x, Answer(f, 3, 1)).world = x.world
          BY <1>2, <4>6, UpdatedMachine
        <4>. QED
          BY <3>1, <4>4, <4>5
      <3>2. CASE code # "symbolic"
        BY <2>7, <3>2
      <3>. QED
        BY <3>1, <3>2
    <2>9. ASSUME y.status = "run"
          PROVE  ny(value, code) \in Machines /\ Agree(nx(value, code), ny(value, code))
      <3>1. /\ y.frames # <<>> /\ SameFrames(x.frames, y.frames) /\ SameWorld(x.world, y.world)
            /\ y.world \in Worlds /\ own.self = f.self
        BY <1>2, <2>9, TopsAgree DEF SameFrame
      <3>2. Stop(y, "apart") \in Machines /\ Stop(y, "apart").status = "apart"
        BY <1>2, StoppedMachine DEF Statuses
      <3>3. CASE code = "symbolic" \/ ~CanPay(y.world, own.self, value)
        <4>1. ny(value, code) = Stop(y, "apart")
          BY <3>3
        <4>. HIDE DEF nx, ny
        <4>. QED
          BY <3>2, <4>1, AgreeApart
      <3>4. CASE ~(code = "symbolic" \/ ~CanPay(y.world, own.self, value))
        <4> DEFINE m == Moved(w, f.self, "N", value)
                   mm == Moved(u, own.self, "N", value)
        <4>1. u \in Worlds /\ SameWorld(w, u)
          BY <1>2, <2>2, <3>1 DEF Worlds, SameWorld
        <4>. HIDE DEF u
        <4>2. CanPay(w, f.self, value)
          BY <2>2, <3>1, <3>4 DEF CanPay, SameWorld
        <4>3. mm \in Worlds /\ SameWorld(m, mm)
          <5>1. value \in Nat
            OBVIOUS
          <5>. QED
            BY <1>2, <2>2, <3>1, <4>1, <5>1, MovedWorld, PaidWorlds
        <4>4. evmNew(value) \in Frames /\ SameFrame(new(value), evmNew(value))
          <5>1. "CREATE" \in Opened \cup {"TX"} /\ FALSE \in BOOLEAN
            BY DEF Opened
          <5>2. evmNew(value) = Frame("CREATE", "N", f.self, value, FALSE, y.world)
            BY <3>1
          <5>. HIDE DEF evmNew
          <5>. QED
            BY <1>2, <3>1, <5>1, <5>2, NewFrame
        <4>5. nx(value, code) = Enter(s, new(value), Copied(m)) /\ ny(value, code) = Enter(y, evmNew(value), mm)
          BY <2>7, <3>4, <4>2
        <4>6. SameWorld(Copied(m), mm)
          BY <2>7, <4>2, <4>3 DEF SameWorld
        <4>. HIDE DEF m, mm, new, evmNew, nx, ny
        <4>7. Agree(Enter(s, new(value), Copied(m)), Enter(y, evmNew(value), mm))
          <5>1. Copied(m) \in Worlds
            BY <2>7, <4>2 DEF m
          <5>. QED
            BY <1>2, <2>4, <2>6, <2>9, <3>1, <4>3, <4>4, <4>6, <5>1, AgreeEnter
        <4>8. Enter(y, evmNew(value), mm) \in Machines
          BY <1>2, <4>3, <4>4, EnteredMachine
        <4>. QED
          BY <4>5, <4>7, <4>8
      <3>. QED
        BY <3>3, <3>4
    <2>. HIDE DEF nx, ny
    <2>. QED
      BY <1>1, <2>1, <2>8, <2>9, BothInv
  <1>. QED
    BY <1>3, <1>4

LEMMA Transaction == Inv /\ StartTransaction => Inv'
  <1> SUFFICES ASSUME Inv, StartTransaction PROVE Inv'
    OBVIOUS
  <1> DEFINE frame(value, world) == Frame("TX", "A", "S", value, FALSE, world)
             started(s, value, world) ==
               [s EXCEPT !.frames = <<frame(value, world)>>, !.world = Moved(world, "S", "A", value),
                         !.round = @ + 1, !.status = "run"]
  <1>1. PICK value \in 0..1 :
          /\ x.status = "open" /\ CanPay(x.world, "S", value)
          /\ x' = started(x, value, Copied(x.world))
          /\ y' = IF y.status # "open" THEN y
                  ELSE IF "A" \in y.world.dead THEN Stop(y, "ended")
                  ELSE started(y, value, y.world)
    BY DEF StartTransaction
  <1>2. /\ x \in Machines /\ y \in Machines /\ Sound(x) /\ x.world \in Worlds /\ Solvent(x.world)
        /\ y.world \in Worlds /\ "S" \in Addresses /\ "A" \in Addresses /\ value \in Nat
    BY Parts DEF Inv, Sound, Addresses
  <1>3. /\ Copied(x.world) \in Worlds /\ SameWorld(Copied(x.world), x.world)
        /\ Solvent(Copied(x.world)) /\ CanPay(Copied(x.world), "S", value)
    <2>1. Copied(x.world) \in Worlds /\ SameWorld(Copied(x.world), x.world)
      BY <1>2, CopiedWorld
    <2>. QED
      BY <1>1, <1>2, <2>1 DEF SameWorld, Solvent, CanPay
  <1>4. ASSUME NEW s \in Machines, NEW world \in Worlds
        PROVE  /\ frame(value, world) \in Frames
               /\ Moved(world, "S", "A", value) \in Worlds
               /\ started(s, value, world) \in Machines
               /\ started(s, value, world).frames = <<frame(value, world)>>
               /\ started(s, value, world).world = Moved(world, "S", "A", value)
               /\ started(s, value, world).status = "run"
    <2>1. frame(value, world) \in Frames
      <3>1. "TX" \in Opened \cup {"TX"} /\ FALSE \in BOOLEAN
        OBVIOUS
      <3>. QED
        BY <1>2, <3>1, NewFrame
    <2>2. Moved(world, "S", "A", value) \in Worlds
      BY <1>2, MovedWorld
    <2>. HIDE DEF frame
    <2>3. <<frame(value, world)>> \in Seq(Frames)
      BY <2>1
    <2>4. s.round + 1 \in Nat
      BY DEF Machines
    <2>5. started(s, value, world)
            = [s EXCEPT !.frames = <<frame(value, world)>>, !.world = Moved(world, "S", "A", value),
                        !.round = s.round + 1, !.status = "run"]
      OBVIOUS
    <2> DEFINE n == s.round + 1
               t == started(s, value, world)
               m == Moved(world, "S", "A", value)
    <2>6. t = [s EXCEPT !.frames = <<frame(value, world)>>, !.world = m, !.round = n, !.status = "run"]
      BY <2>5
    <2>. HIDE DEF n, t, m
    <2>7. t \in Machines /\ t.frames = <<frame(value, world)>> /\ t.world = m /\ t.status = "run"
      BY <2>2, <2>3, <2>4, <2>6 DEF Machines, Statuses, n, m
    <2>. QED
      BY <2>1, <2>2, <2>7 DEF t, m
  <1>5. Sound(x')
    <2> DEFINE w == Copied(x.world)
               g == frame(value, w)
               m == Moved(w, "S", "A", value)
    <2>1. g.op = "TX" /\ g.static = FALSE /\ g.saved = w
      BY DEF Frame
    <2>2. Solvent(m)
      BY <1>2, <1>3, MovedWorld
    <2>3. x' \in Machines /\ x'.frames = <<g>> /\ x'.world = m
      <3>. HIDE DEF started
      <3>. QED
        BY <1>1, <1>2, <1>3, <1>4
    <2>. HIDE DEF w, g, m
    <2>4. \A i \in DOMAIN x'.frames : i = 1 /\ x'.frames[i] = g
      BY <2>3
    <2>5. Solvent(g.saved)
      BY <1>3, <2>1 DEF w
    <2>6. x'.frames # <<>>
      BY <2>3
    <2>. QED
      BY <2>1, <2>2, <2>3, <2>4, <2>5, <2>6 DEF Sound
  <1>6. y' \in Machines /\ Agree(x', y')
    <2>1. CASE y.status # "open"
      <3>1. y.status \notin {"run", "open"}
        BY <1>1, <2>1 DEF Inv, Agree
      <3>. QED
        BY <1>1, <1>2, <2>1, <3>1, AgreeApart
    <2>2. CASE y.status = "open" /\ "A" \in y.world.dead
      <3>1. y' = Stop(y, "ended")
        BY <1>1, <2>2
      <3>. QED
        BY <1>2, <3>1, StoppedMachine, AgreeApart DEF Statuses
    <2>3. CASE y.status = "open" /\ "A" \notin y.world.dead
      <3> DEFINE w == Copied(x.world)
                 u == y.world
      <3>1. x' = started(x, value, w) /\ y' = started(y, value, u)
        BY <1>1, <2>3
      <3>2. SameWorld(w, u)
        BY <1>1, <1>3, <2>3 DEF Inv, Agree, SameWorld
      <3>3. w \in Worlds /\ u \in Worlds
        BY <1>2, <1>3
      <3>. HIDE DEF w, u
      <3>4. SameFrame(frame(value, w), frame(value, u))
        <4>1. "TX" \in Opened \cup {"TX"} /\ FALSE \in BOOLEAN
          OBVIOUS
        <4>. QED
          BY <1>2, <3>2, <3>3, <4>1, NewFrame
      <3>5. SameWorld(Moved(w, "S", "A", value), Moved(u, "S", "A", value))
        BY <1>2, <3>2, <3>3, PaidWorlds
      <3>. HIDE DEF frame, started
      <3>6. SameFrames(x'.frames, y'.frames)
        <4>1. x'.frames = <<frame(value, w)>> /\ y'.frames = <<frame(value, u)>>
          BY <1>2, <1>4, <3>1, <3>3
        <4>. QED
          BY <3>4, <4>1 DEF SameFrames
      <3>7. y' \in Machines /\ SameWorld(x'.world, y'.world) /\ x'.status = "run" /\ y'.status = "run"
        BY <1>2, <1>4, <3>1, <3>3, <3>5
      <3>. QED
        BY <3>6, <3>7 DEF Agree
    <2>. QED
      BY <2>1, <2>2, <2>3
  <1>. QED
    BY <1>5, <1>6 DEF Inv

-------------------------------------------------------------------------------
(* The invariant holds *)

LEMMA InitInv == Init => Inv
  <1> SUFFICES ASSUME Init PROVE Inv
    OBVIOUS
  <1> DEFINE balance == [a \in Addresses |-> IF a = "S" THEN 2 ELSE IF a = "A" THEN 1 ELSE 0]
             world == [storage |-> [a \in Addresses |-> 0], balance |-> balance,
                       exists |-> Addresses \ {"N"}, dead |-> {}]
             s == [frames |-> <<>>, world |-> world, round |-> 0, status |-> "open"]
  <1>1. x = s /\ y = s
    BY DEF Init
  <1>2. balance \in [Addresses -> Int] /\ \A a \in Addresses : balance[a] >= 0
    OBVIOUS
  <1>. HIDE DEF balance
  <1>3. world \in Worlds /\ world.balance = balance
    BY <1>2 DEF Worlds
  <1>4. Solvent(world)
    BY <1>2, <1>3 DEF Solvent
  <1>. HIDE DEF world
  <1>5. s \in Machines /\ s.frames = <<>> /\ s.world = world /\ s.status = "open"
    <2>1. <<>> \in Seq(Frames)
      OBVIOUS
    <2>. QED
      BY <1>3, <2>1 DEF Machines, Statuses
  <1>. HIDE DEF s
  <1>6. Sound(s) /\ Agree(s, s)
    BY <1>4, <1>5 DEF Sound, Agree, SameWorld
  <1>. QED
    BY <1>1, <1>5, <1>6 DEF Inv

LEMMA NextInv == Inv /\ [Next]_vars => Inv'
  <1>1. Inv /\ UNCHANGED vars => Inv'
    BY DEF vars, Inv
  <1>. QED
    BY <1>1, Transaction, StopReturnRevert, HandleVmException, AddWorldState, Selfdestruct, Sstore,
       Call, Create DEF Next

LEMMA Invariant == Spec => []Inv
  BY InitInv, NextInv, PTL DEF Spec

-------------------------------------------------------------------------------
(* What follows *)

\* What a static frame, or a frame inside of one, does is not seen in any storage nor in the
\* set of accounts: staticcall_ and the instructions marked is_state_mutation_instruction
\* (instructions.py), for call stacks of any height.
THEOREM StaticFramesWriteNothing == Spec => []StaticWritesNothing
  <1>1. Inv => StaticWritesNothing
    BY DEF Inv, Sound, Unwritten, StaticWritesNothing
  <1>. QED
    BY <1>1, Invariant, PTL

\* While the path is followed the symbolic machine has the storage, the balances and the
\* accounts of the Ethereum machine (the copies of WorldState and Account, transfer_ether and
\* _end_message_call), through any nesting of calls, reverts, creations and transactions.
THEOREM WorldsAgree == Spec => []WorldAgrees
  <1>1. Inv => WorldAgrees
    BY DEF Inv, Agree, SameWorld, WorldAgrees, Together
  <1>. QED
    BY <1>1, Invariant, PTL

\* Each frame on the call stack has the account, the sender, the value, the static flag and
\* the number of words on its stack that the Ethereum machine gives it (call_, callcode_,
\* delegatecall_, staticcall_ and _end_message_call).
THEOREM ContextsAgree == Spec => []ContextAgrees
  <1>1. Inv => ContextAgrees
    BY DEF Inv, Agree, SameFrames, SameFrame, ContextAgrees, Together
  <1>. QED
    BY <1>1, Invariant, PTL

\* No frame is told something of its last call that excludes what happened there: the
\* post handlers and the return data (call_post, callcode_post, delegatecall_post,
\* _handle_create_type_post, returndatasize_).
THEOREM AnswersAllowed == Spec => []AnswersAgree
  <1>1. Inv => AnswersAgree
    BY DEF Inv, Agree, SameFrames, SameFrame, AnswersAgree, Together
  <1>. QED
    BY <1>1, Invariant, PTL
===============================================================================
