--------------------------------- MODULE Calls ---------------------------------
(***************************************************************************)
(* Calls, creations and the world they change: the call, create and halting  *)
(* instructions (mythril/laser/ethereum/instructions.py), their parameters   *)
(* (call.py), the frames they start (transaction_models.py, environment.py), *)
(* the end of a frame (svm.py) and the accounts (account.py, world_state.py).*)
(*                                                                           *)
(* One path is followed, with values for its symbols.  x is the symbolic     *)
(* machine and y the Ethereum machine on the same program; y.status becomes  *)
(* "apart" where a handler is known to do otherwise.                         *)
(***************************************************************************)
EXTENDS Integers, Sequences, FiniteSets, Functions

CONSTANTS
  MaxSteps,   \* instructions of a path
  MaxFrames,  \* frames of a call stack
  MaxRounds   \* transactions

ASSUME BoundAssumption == MaxSteps \in Nat /\ MaxFrames \in Nat \ {0} /\ MaxRounds \in Nat

VARIABLES
  x,      \* the symbolic machine: frames, world, round, status
  y,      \* the Ethereum machine: frames, world, status
  steps   \* instructions so far

vars == <<x, y, steps>>

\* S sends the transactions, A is the contract under analysis and B another one, E has no
\* code, N is the account that a creation adds.
Addresses == {"S", "A", "B", "E", "N"}
Coded == {"A", "B"}
Ops == {"CALL", "CALLCODE", "DELEGATECALL", "STATICCALL"}
Withvalue == {"CALL", "CALLCODE"}
Operands(op) == IF op \in Withvalue THEN 7 ELSE 6

None == -1         \* no return data, no result
Any  == -2         \* a fresh symbol: every value
NewAddress == -3   \* what a creation answers

Top(s) == s.frames[Len(s.frames)]
Caller(s) == s.frames[Len(s.frames) - 1]
Nested(s) == Len(s.frames) > 1

Frame(op, self, sender, value, static, saved) ==
  [op |-> op, self |-> self, sender |-> sender, value |-> value, static |-> static,
   saved |-> saved, height |-> 0, result |-> None, data |-> None]

Init ==
  LET world == [storage |-> [a \in Addresses |-> 0],
                balance |-> [a \in Addresses |-> IF a = "S" THEN 2 ELSE IF a = "A" THEN 1 ELSE 0],
                exists |-> Addresses \ {"N"}, dead |-> {}]
  IN  /\ x = [frames |-> <<>>, world |-> world, round |-> 0, status |-> "open"]
      /\ y = [frames |-> <<>>, world |-> world, round |-> 0, status |-> "open"]
      /\ steps = 0

-------------------------------------------------------------------------------
(* Worlds *)

Moved(world, from, to, value) ==
  LET received == [world.balance EXCEPT ![to] = @ + value]
  IN  [world EXCEPT !.balance = [received EXCEPT ![from] = @ - value]]

\* transfer_ether, initial_global_state_from_environment: what cannot be paid is excluded
\* by a constraint, the call does not fail.
CanPay(world, from, value) == world.balance[from] >= value

\* WorldState.__copy__, Account.__copy__: done for every instruction, and what is deleted
\* is not copied.
Copied(world) == [world EXCEPT !.dead = {}]

WriteStorage(world, a, v) == [world EXCEPT !.storage[a] = v]

-------------------------------------------------------------------------------
(* Steps *)

Stop(s, why) == [s EXCEPT !.status = why]
Part(s, cond) == IF cond /\ s.status \in {"run", "open"} THEN Stop(s, "apart") ELSE s
Update(s, f) == [s EXCEPT !.frames[Len(s.frames)] = f]
Enter(s, f, world) == [s EXCEPT !.frames = Append(@, f), !.world = world]

Both(newx, newy) ==
  /\ x' = newx
  /\ y' = IF y.status = "run" THEN newy ELSE y

\* A path is followed up to where it is known to differ.
Instruction == x.status = "run" /\ y.status # "apart" /\ steps < MaxSteps /\ steps' = steps + 1

\* What RETURNDATASIZE pushes.
returndatasize_(f) == IF f.data = None THEN 0 ELSE f.data

\* An instruction took n words and left one.
Answer(f, n, result) == [f EXCEPT !.height = @ - n + 1, !.result = result]

\* execute_message_call: a round runs from the open states, but not into a dead contract.
StartTransaction == \E value \in 0..1 :
  /\ x.status = "open" /\ x.round < MaxRounds
  /\ "A" \notin x.world.dead
  /\ CanPay(x.world, "S", value)
  /\ LET Started(s, world) ==
           [s EXCEPT !.frames = <<Frame("TX", "A", "S", value, FALSE, world)>>,
                     !.world = Moved(world, "S", "A", value), !.round = @ + 1, !.status = "run"]
     IN  /\ x' = Started(x, Copied(x.world))
         /\ y' = IF y.status # "open" THEN y
                 ELSE IF "A" \in y.world.dead THEN Stop(y, "ended")
                 ELSE Started(y, y.world)
  /\ UNCHANGED steps

-------------------------------------------------------------------------------
(* The end of a frame *)

\* What the caller learns of the end of a frame.  A constraint on the result follows from
\* the return data alone.
_handle_create_type_post(data) == IF data = None THEN 0 ELSE NewAddress
post_handler(data) == IF data = None THEN Any ELSE 1
callcode_post(data) == IF data = None THEN 0 ELSE 1
delegatecall_post(data) == IF data = None THEN 0 ELSE 1

Learnt(op, data) ==
  CASE op = "CREATE"       -> _handle_create_type_post(data)
    [] op = "CALLCODE"     -> callcode_post(data)
    [] op = "DELEGATECALL" -> delegatecall_post(data)
    [] OTHER               -> post_handler(data)

\* Mutant: the world of the callee is kept when it reverts.
_end_message_call_kept(revert, data) ==
  LET f == Top(x)  n == IF f.op = "CREATE" THEN 3 ELSE Operands(f.op)
      back == [x EXCEPT !.frames = SubSeq(@, 1, Len(@) - 1), !.world = Copied(@)]
  IN  Update(back, [Answer(Top(back), n, Learnt(f.op, data)) EXCEPT !.data = data])

\* Mutant: the operands that the call left on the stack stay there.
_end_message_call_unpopped(revert, data) ==
  LET f == Top(x)  n == 0
      back == [x EXCEPT !.frames = SubSeq(@, 1, Len(@) - 1),
                        !.world = IF revert THEN f.saved ELSE Copied(@)]
  IN  Update(back, [Answer(Top(back), n, Learnt(f.op, data)) EXCEPT !.data = data])

\* Mutant: the return data of an earlier call stays.
_end_message_call_stale(revert, data) ==
  LET f == Top(x)  n == IF f.op = "CREATE" THEN 3 ELSE Operands(f.op)
      back == [x EXCEPT !.frames = SubSeq(@, 1, Len(@) - 1),
                        !.world = IF revert THEN f.saved ELSE Copied(@)]
  IN  Update(back, Answer(Top(back), n, Learnt(f.op, data)))

\* The caller goes on in the world of the callee or, when it reverted, in its own; it
\* takes the operands off its stack a second time, the call worked on a copy.
_end_message_call(revert, data) ==
  LET f == Top(x)  n == IF f.op = "CREATE" THEN 3 ELSE Operands(f.op)
      back == [x EXCEPT !.frames = SubSeq(@, 1, Len(@) - 1),
                        !.world = IF revert THEN f.saved ELSE Copied(@)]
  IN  Update(back, [Answer(Top(back), n, Learnt(f.op, data)) EXCEPT !.data = data])

\* execute_state on TransactionEndSignal, for a frame that ends in s.
Ended(s, revert, data) ==
  IF Nested(s) THEN _end_message_call(revert, data)
  ELSE IF revert THEN Stop(s, "dropped") ELSE [s EXCEPT !.status = "open", !.frames = <<>>]

EvmEnd(s, revert, data) ==
  LET f == Top(s)
      world == IF revert THEN f.saved ELSE s.world
      n == IF f.op = "CREATE" THEN 3 ELSE Operands(f.op)
      back == [s EXCEPT !.frames = SubSeq(@, 1, Len(@) - 1), !.world = world]
      result == IF f.op = "CREATE" THEN (IF revert THEN 0 ELSE NewAddress)
                ELSE IF revert THEN 0 ELSE 1
  IN  IF Nested(s) THEN Update(back, [Answer(Top(back), n, result) EXCEPT !.data = data])
      ELSE IF revert THEN Stop(s, "dropped") ELSE [s EXCEPT !.status = "open", !.frames = <<>>]

\* The result the caller is told contradicts what happened: a revert is a success because
\* it has return data, and a regular end of a delegated call without any is a failure.
Contradicts(op, revert, data) ==
  \/ revert /\ data # None /\ op \in Ops
  \/ ~revert /\ data = None /\ op \in {"CALLCODE", "DELEGATECALL", "CREATE"}

Creating(s) == Top(s).op = "CREATE"

\* STOP, RETURN and REVERT.  A creation that returns code adds it to its account and
\* answers with the address; nothing returned is no answer.
stop_return_revert == \E end \in {"STOP", "RETURN", "REVERT"}, size \in 0..1 :
  /\ Instruction
  /\ end = "STOP" => size = 0
  /\ LET revert == end = "REVERT"
         data == IF Creating(x) THEN (IF size = 0 \/ revert THEN None ELSE NewAddress)
                 ELSE IF end = "STOP" THEN None ELSE size
         edata == IF Creating(y) /\ ~revert THEN 0 ELSE size
     IN  Both(Ended(x, revert, data),
              Part(EvmEnd(y, revert, edata),
                   /\ Nested(y)
                   /\ \/ Contradicts(Top(y).op, revert, data)
                      \/ Creating(y) /\ size > 0))

\* handle_vm_exception: all changes are discarded, and there is no return data.
Exceptional(s) == IF Nested(s) THEN _end_message_call(TRUE, None) ELSE Stop(s, "dropped")
EvmExceptional(s) == EvmEnd(s, TRUE, 0)

handle_vm_exception == Instruction /\ Both(Exceptional(x), EvmExceptional(y))

\* Behind the end of its code the path ends with its world, in a callee, too.
_add_world_state ==
  /\ Instruction
  /\ Both([x EXCEPT !.status = "open", !.frames = <<>>], Part(EvmEnd(y, FALSE, 0), Nested(y)))

\* The balance is added to the target; it is taken off a copy of the balances.
selfdestruct == \E target \in {"B", "E"} :
  /\ Instruction
  /\ IF Top(x).static THEN Both(Exceptional(x), EvmExceptional(y))
     ELSE LET self == Top(x).self
              own == Top(y).self
              gone == [x EXCEPT !.world.balance[target] = @ + x.world.balance[self],
                                !.world.dead = {self}]
              moved == Moved(y.world, own, target, y.world.balance[own])
              paid == [y EXCEPT !.world = [moved EXCEPT !.dead = @ \cup {own}]]
          IN  Both(IF Nested(x)
                   THEN [_end_message_call(FALSE, None) EXCEPT !.world = Copied(gone.world)]
                   ELSE Ended(gone, FALSE, None),
                   Part(EvmEnd(paid, FALSE, 0),
                        \/ Nested(y) \/ y.world.balance[own] > 0))

-------------------------------------------------------------------------------
(* Instructions of a frame *)

\* StateTransition(is_state_mutation_instruction=True)
sstore == \E v \in 0..1 :
  /\ Instruction
  /\ IF Top(x).static THEN Both(Exceptional(x), EvmExceptional(y))
     ELSE Both([x EXCEPT !.world = WriteStorage(Copied(@), Top(x).self, v)],
               [y EXCEPT !.world = WriteStorage(@, Top(y).self, v)])

\* Where the call goes: an account with code, one without, a precompiled contract, a
\* symbolic address, or one that get_call_parameters cannot find (ValueError).
Targets == Coded \cup {"E", "native", "symbolic", "missing"}

\* _write_symbolic_returndata: nothing where the output is symbolic.
SymbolicReturn(f, symbolic) == IF symbolic THEN f ELSE [f EXCEPT !.data = Any]

\* A call without a new frame: ether for an account without code, a precompiled contract,
\* or no parameters.
Answered(op, to, value, symbolic) ==
  LET f == Top(x)
      n == Operands(op)
      receiver == IF to = "symbolic" THEN "E" ELSE to
      world == IF to \in {"E", "symbolic"} THEN Moved(x.world, f.self, receiver, value) ELSE x.world
  IN  IF to \in {"E", "symbolic"} /\ ~CanPay(x.world, f.self, value) THEN Stop(x, "infeasible")
      ELSE [Update(x, IF to = "native" THEN Answer(f, n, 1)
                      ELSE SymbolicReturn(Answer(f, n, Any), symbolic))
              EXCEPT !.world = Copied(world)]

\* Mutant: a call inside of a static frame is not static.
Context_static(op, f, to, value, saved) ==
  CASE op = "CALL"         -> Frame(op, to, f.self, value, FALSE, saved)
    [] op = "CALLCODE"     -> Frame(op, f.self, f.self, value, FALSE, saved)
    [] op = "DELEGATECALL" -> Frame(op, f.self, f.sender, f.value, FALSE, saved)
    [] op = "STATICCALL"   -> Frame(op, to, f.self, 0, TRUE, saved)

\* The transaction that each of the instructions starts.
callcode_(f, value, saved) == Frame("CALLCODE", f.self, f.self, value, f.static, saved)
delegatecall_(f, saved) == Frame("DELEGATECALL", f.self, f.sender, f.value, f.static, saved)
staticcall_(f, to, saved) == Frame("STATICCALL", to, f.self, 0, TRUE, saved)

Context(op, f, to, value, saved) ==
  CASE op = "CALL"         -> Frame(op, to, f.self, value, f.static, saved)
    [] op = "CALLCODE"     -> callcode_(f, value, saved)
    [] op = "DELEGATECALL" -> delegatecall_(f, saved)
    [] op = "STATICCALL"   -> staticcall_(f, to, saved)

\* Every frame is paid for by its sender, a delegated one a second time.
Started(s, f) ==
  IF ~CanPay(s.world, f.sender, f.value) THEN Stop(s, "infeasible")
  ELSE Enter(s, f, Copied(Moved(s.world, f.sender, f.self, f.value)))

EvmCall(op, to, value) ==
  LET f == Top(y)
      pays == IF op \in Withvalue THEN value ELSE 0
      world == IF op = "CALL" THEN Moved(y.world, f.self, to, pays) ELSE y.world
      new == [self |-> IF op \in {"CALL", "STATICCALL"} THEN to ELSE f.self,
              sender |-> IF op = "DELEGATECALL" THEN f.sender ELSE f.self,
              value |-> IF op = "DELEGATECALL" THEN f.value ELSE pays,
              static |-> f.static \/ op = "STATICCALL"]
  IN  IF op = "CALL" /\ f.static /\ value > 0 THEN EvmExceptional(y)
      ELSE IF to \notin Coded THEN [Update(y, [Answer(f, Operands(op), 1) EXCEPT !.data = 0]) EXCEPT !.world = world]
      ELSE Enter(y, Frame(op, new.self, new.sender, new.value, new.static, y.world), world)

call == \E op \in Ops, to \in Targets, value \in 0..1, symbolic, constant \in BOOLEAN :
  /\ Instruction
  /\ op \notin Withvalue => value = 0
  /\ symbolic => to \in {"E", "symbolic"}
  /\ ~constant => op = "CALL" /\ Top(x).static /\ value > 0
  /\ to \in Coded => Len(x.frames) < MaxFrames
  /\ LET f == Top(x)
         short == op \in Withvalue /\ ~CanPay(y.world, Top(y).self, value)
         protected == op = "CALL" /\ f.static /\ value > 0 /\ to \in Coded \cup {"native"}
     IN  Both(IF protected THEN (IF constant THEN Exceptional(x) ELSE Stop(x, "infeasible"))
              ELSE IF to \notin Coded THEN Answered(op, to, value, symbolic)
              ELSE Started(x, Context(op, f, to, value, x.world)),
              IF to \in {"symbolic", "missing"} \/ short THEN Stop(y, "apart")
              ELSE Part(EvmCall(op, IF to = "native" THEN "E" ELSE to, value),
                     \/ protected /\ ~constant
                     \/ op = "DELEGATECALL" /\ to \in Coded /\ Top(y).value > 0
                     \/ value > 0 /\ to = "native"
                     \/ value > 0 /\ to = "E" /\ (op = "CALLCODE" \/ f.static)
                     \/ to = "native" /\ f.data # 0
                     \/ to = "E" /\ symbolic /\ f.data # Any))

\* _create_transaction_helper: without constant code the answer is 1.
create == \E value \in 0..1, code \in {"constant", "symbolic"} :
  /\ Instruction
  /\ Len(x.frames) < MaxFrames
  /\ "N" \notin x.world.exists
  /\ LET f == Top(x)
         new == Frame("CREATE", "N", f.self, value, FALSE, x.world)
         own == Top(y)
         added == [y.world EXCEPT !.exists = @ \cup {"N"}]
     IN  IF f.static THEN Both(Exceptional(x), EvmExceptional(y))
         ELSE Both(IF code = "symbolic" THEN [Update(x, Answer(f, 3, 1)) EXCEPT !.world = Copied(@)]
                   ELSE Started([x EXCEPT !.world.exists = @ \cup {"N"}], new),
                   IF code = "symbolic" \/ ~CanPay(y.world, own.self, value) THEN Stop(y, "apart")
                   ELSE Enter(y, Frame("CREATE", "N", own.self, value, FALSE, y.world),
                              Moved(added, own.self, "N", value)))

Next ==
  \/ StartTransaction \/ stop_return_revert \/ handle_vm_exception \/ _add_world_state
  \/ selfdestruct \/ sstore \/ call \/ create

Spec == Init /\ [][Next]_vars

-------------------------------------------------------------------------------
(* Properties *)

Together == y.status \in {"run", "open"} /\ x.status = y.status

\* Through any nesting of calls, reverts and creations the storage, the balances and the
\* accounts are those of the Ethereum machine.
WorldAgrees ==
  Together => /\ x.world.storage = y.world.storage
              /\ x.world.balance = y.world.balance
              /\ x.world.exists = y.world.exists

\* Every frame knows its account, its sender, its value and whether it is static, and has
\* as many words on its stack as its instructions left there, whatever way a call went.
ContextAgrees ==
  Together /\ x.status = "run" =>
    /\ Len(x.frames) = Len(y.frames)
    /\ \A i \in DOMAIN x.frames :
         \A k \in {"op", "self", "sender", "value", "static", "height"} :
           x.frames[i][k] = y.frames[i][k]

\* What a frame is told of its last call, the result and the size of the return data, does
\* not exclude what happened.
AnswersAgree ==
  Together /\ x.status = "run" =>
    \A i \in DOMAIN x.frames :
      /\ x.frames[i].result \in {Any, y.frames[i].result}
      /\ returndatasize_(x.frames[i]) \in {Any, returndatasize_(y.frames[i])}

\* What a static frame, or one inside of it, does is not seen in any storage, nor in the
\* set of accounts.
StaticWritesNothing ==
  x.status = "run" =>
    \A i \in DOMAIN x.frames :
      x.frames[i].op = "STATICCALL" =>
        /\ x.world.storage = x.frames[i].saved.storage
        /\ x.world.exists = x.frames[i].saved.exists

\* "then we'll transfer the balance to the indicated contract" (instructions.py:1982): no
\* instruction makes ether.
EtherConserved ==
  LET Sum(b) == FoldFunction(LAMBDA a, s : a + s, 0, b) IN Sum(x.world.balance) = 3
===============================================================================
