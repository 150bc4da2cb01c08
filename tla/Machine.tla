-------------------------------- MODULE Machine --------------------------------
(***************************************************************************)
(* One path of the symbolic machine (mythril/laser/ethereum/instructions.py, *)
(* state/machine_state.py, state/memory.py) beside the Ethereum machine that *)
(* it stands for.                                                            *)
(*                                                                           *)
(* The symbols of the path have values: a word is what its term evaluates to *)
(* and whether it is symbolic (an operand of Words).  m is the state that    *)
(* the handlers compute, following at a fork the successor whose condition   *)
(* these values satisfy; e is the state of the machine of the yellow paper   *)
(* on the same values.  e.status becomes "apart" where a handler is known to *)
(* approximate; the properties say that it is exact everywhere else.         *)
(***************************************************************************)
EXTENDS Words, Sequences

CONSTANTS
  Programs,    \* each a sequence of sets of opcodes that may stand at its positions
  PushValues,  \* what a PUSH may push
  Symbols,     \* values a fresh symbol may have
  CodeBytes,   \* the bytes that CODECOPY reads
  Data,        \* the bytes of the call data
  SymbolicSize,\* SYMBOLIC_CALLDATA_SIZE, copied when the size is symbolic (320)
  GasLimits,   \* gas limits of a transaction
  StackLimit   \* STACK_LIMIT (1024)

ASSUME MachineAssumption ==
  /\ PushValues \subseteq Word /\ Symbols \subseteq Word
  /\ SymbolicSize \in Nat /\ GasLimits \subseteq Nat /\ StackLimit \in Nat
  /\ Programs \subseteq Seq(SUBSET STRING)
  /\ CodeBytes \in Seq(0..(TwoTo[B] - 1)) /\ Len(CodeBytes) < Size
  /\ Data \in Seq(0..(TwoTo[B] - 1)) /\ Len(Data) < Size \div 2

VARIABLES
  program,   \* the template being executed
  kind,      \* "creation", or the form of the code that a call runs
  code,      \* the instructions met so far, by their index
  world,     \* the values of the symbols met so far, by the opcode that pushes them
  m,         \* the path of the symbolic machine
  e          \* the Ethereum machine

vars == <<program, kind, code, world, m, e>>

Const(n) == [v |-> n, sym |-> FALSE]
Term(n)  == [v |-> n, sym |-> TRUE]
Values(s) == [i \in DOMAIN s |-> s[i].v]
Over(f, g) == [k \in DOMAIN f \cup DOMAIN g |-> IF k \in DOMAIN f THEN f[k] ELSE g[k]]

\* What a constructor does otherwise than a call.
Constructors == {"CALLDATACOPY", "CODECOPY", "CODESIZE"}

\* Disassembly.bytecode: the digits of a string, digits behind "0x" as the chain gives
\* them, or the tuple of bytes that a creation leaves.
Forms == {"digits", "prefixed", "bytes"}

Init ==
  /\ program \in Programs
  /\ kind \in Forms \cup {"creation"}
  /\ kind = "creation" => \E i \in DOMAIN program : program[i] \cap Constructors # {}
  /\ kind \in {"prefixed", "bytes"} => \E i \in DOMAIN program : "CODESIZE" \in program[i]
  /\ code = <<>>
  /\ world = <<>>
  /\ \E limit \in GasLimits :
       m = [pc |-> 1, stack |-> <<>>, mem |-> <<>>, aside |-> {}, msize |-> 0, subs |-> <<>>,
            min |-> 0, max |-> 0, paid |-> 0, limit |-> limit, depth |-> 0, status |-> "run"]
  /\ e = [pc |-> 1, stack |-> <<>>, mem |-> <<>>, msize |-> 0, subs |-> <<>>, status |-> "run"]

-------------------------------------------------------------------------------
(* Code *)

Address(p, i) ==
  LET to[n \in 0..Len(p)] ==
        IF n = 0 THEN 0 ELSE to[n - 1] + (IF "PUSH" \in p[n] THEN 2 ELSE 1)
  IN  to[i - 1]

Holds(p, i, op) == i \in DOMAIN p /\ p[i] = {op}

\* Mutant: the first instruction behind the address.
get_instruction_index_behind(p, address) ==
  LET at == {i \in DOMAIN p : Address(p, i) > address}
  IN  IF at = {} THEN 0 ELSE CHOOSE i \in at : \A j \in at : i <= j

\* The first instruction at or behind the address; 0 is None.
get_instruction_index(p, address) ==
  LET at == {i \in DOMAIN p : Address(p, i) >= address}
  IN  IF at = {} THEN 0 ELSE CHOOSE i \in at : \A j \in at : i <= j

\* Behind the last instruction the code goes on with STOP.
get_current_instruction ==
  IF m.pc \in DOMAIN code THEN {code[m.pc]}
  ELSE IF m.pc \notin DOMAIN program THEN {[op |-> "STOP", arg |-> 0]}
  ELSE UNION {[op : {o}, arg : IF o = "PUSH" THEN PushValues ELSE {0}] : o \in program[m.pc]}

-------------------------------------------------------------------------------
(* Gas and memory *)

Decided == {"CALLVALUE", "CALLER", "ORIGIN", "TIMESTAMP", "GAS"}

OPCODES_gas(op) ==
  CASE op \in {"STOP", "EMPTY", "INVALID"} -> <<0, 0>>
    [] op = "JUMPDEST" -> <<1, 1>>
    [] op \in {"CALLDATASIZE", "ADDRESS", "PC", "MSIZE", "POP", "CODESIZE", "BEGINSUB"} \cup Decided -> <<2, 2>>
    [] op \in {"CALLDATACOPY", "CODECOPY"} -> <<2, 2306>>
    [] op \in {"PUSH", "DUP1", "DUP2", "SWAP1", "CALLDATALOAD"} \cup Unary -> <<3, 3>>
    [] op = "MLOAD" -> <<3, 96>>
    [] op \in {"MSTORE", "MSTORE8"} -> <<3, 98>>
    [] op \in {"MUL", "DIV", "SDIV", "MOD", "SMOD", "SIGNEXTEND", "RETURNSUB"} -> <<5, 5>>
    [] op \in Ternary \cup {"JUMP"} -> <<8, 8>>
    [] op = "EXP" -> <<10, 340>>
    [] op \in {"JUMPI", "JUMPSUB"} -> <<10, 10>>
    [] op = "BLOCKHASH" -> <<20, 20>>
    [] op \in {"BALANCE", "EXTCODESIZE", "EXTCODEHASH"} -> <<700, 700>>
    [] op = "EXTCODECOPY" -> <<700, 3004>>
    [] op = "LOG1" -> <<750, 1006>>
    [] OTHER -> <<3, 3>>

Stop(s, why) == [s EXCEPT !.status = why]
Charge(s, gas) == [s EXCEPT !.min = @ + gas[1], !.max = @ + gas[2]]

check_gas_usage_limit(s) ==
  IF s.status = "run" /\ s.min >= s.limit THEN Stop(s, "OutOfGas") ELSE s

accumulate_gas(s, op) ==
  IF s.status = "run" THEN check_gas_usage_limit(Charge(s, OPCODES_gas(op))) ELSE s

Ceil(n) == (n + Bytes - 1) \div Bytes
Fee(words) == 3 * words + (words * words) \div 512

\* Mutant: the size is rounded down.
extend_down(s, start, size) ==
  IF start.sym \/ size.sym \/ s.msize > start.v + size.v THEN s
  ELSE LET words == (start.v + size.v) \div Bytes
           fee == Fee(words) - Fee(s.msize \div Bytes)
       IN  IF words * Bytes <= s.msize THEN s
           ELSE [s EXCEPT !.min = @ + fee, !.max = @ + fee, !.paid = @ + fee, !.msize = words * Bytes]

\* Mutant: the whole of the new size is paid for.
extend_paid(s, start, size) ==
  IF start.sym \/ size.sym \/ s.msize > start.v + size.v THEN s
  ELSE LET words == Ceil(start.v + size.v)
           fee == Fee(words)
       IN  IF words * Bytes = s.msize THEN s
           ELSE [s EXCEPT !.min = @ + fee, !.max = @ + fee, !.paid = @ + fee, !.msize = words * Bytes]

mem_extend(s, start, size) ==
  IF start.sym \/ size.sym \/ s.msize > start.v + size.v THEN s
  ELSE LET words == Ceil(start.v + size.v)
           fee == Fee(words) - Fee(s.msize \div Bytes)
           paid == [s EXCEPT !.min = @ + fee, !.max = @ + fee, !.paid = @ + fee]
       IN  IF words * Bytes = s.msize THEN s
           ELSE IF paid.min > s.limit THEN Stop(s, "OutOfGas")
           ELSE [paid EXCEPT !.msize = words * Bytes]

ByteAt(mem, i, none) == IF i \in DOMAIN mem THEN mem[i] ELSE none
Put(mem, start, bytes) ==
  Over([i \in start..(start + Len(bytes) - 1) |-> bytes[i - start + 1]], mem)
Joined(bytes) == LET to[n \in 0..Len(bytes)] == IF n = 0 THEN 0 ELSE to[n - 1] * TwoTo[B] + bytes[n]
                 IN  to[Len(bytes)]
Split(n) == [i \in 1..Bytes |-> (n \div TwoTo[B * (Bytes - i)]) % TwoTo[B]]
Slice(mem, start, n, none) == [i \in 1..n |-> ByteAt(mem, start + i - 1, none)]

\* Memory.__setitem__: what lies behind the end of the memory is dropped.
setitem(s, start, bytes) ==
  IF s.status # "run" THEN s
  ELSE [s EXCEPT !.mem = Over([i \in {k \in start..(start + Len(bytes) - 1) : k < s.msize} |->
                                 bytes[i - start + 1]], @)]

\* Memory.__getitem__ of a slice with a constant start.
Read(s, start, n) == Slice(s.mem, start, n, Const(0))

\* get_word_at: symbolic as soon as one byte is.  Keys are terms: a symbolic offset finds
\* nothing but what was written at such an offset.
get_word_at(s, offset) ==
  IF offset.sym THEN {Const(0)} \cup s.aside
  ELSE LET bytes == Read(s, offset.v, Bytes)
       IN  {[v |-> Joined(Values(bytes)), sym |-> \E i \in DOMAIN bytes : bytes[i].sym]}

write_word_at(s, offset, word) ==
  IF offset.sym THEN [s EXCEPT !.aside = @ \cup {word}]
  ELSE setitem(s, offset.v, [i \in 1..Bytes |-> [v |-> Split(word.v)[i], sym |-> word.sym]])

-------------------------------------------------------------------------------
(* Steps *)

Arg(n)  == m.stack[Len(m.stack) - n + 1]
EArg(n) == e.stack[Len(e.stack) - n + 1]
Pop(s, n) == [s EXCEPT !.stack = SubSeq(@, 1, Len(@) - n)]

Push(s, word) ==
  IF s.status # "run" THEN s
  ELSE IF Len(s.stack) >= StackLimit THEN Stop(s, "failed")
  ELSE [s EXCEPT !.stack = Append(@, word)]

Advance(s) == IF s.status = "run" THEN [s EXCEPT !.pc = @ + 1] ELSE s
Part(x, cond) == IF cond THEN Stop(x, "apart") ELSE x

\* StateTransition.__call__ around a handler that needs n words and leaves s, while the
\* Ethereum machine goes to x.
Perform(i, n, s, x) ==
  /\ code' = Over([pc \in {m.pc} |-> i], code)
  /\ m' = IF Len(m.stack) < n THEN Stop(m, "failed") ELSE s
  /\ e' = IF e.status # "run" THEN e ELSE IF Len(e.stack) < n THEN Stop(e, "failed") ELSE x
  /\ UNCHANGED <<program, kind>>

Running(ops, i) == m.status = "run" /\ i \in get_current_instruction /\ i.op \in ops

\* The usual handler: it is charged for, and the next instruction follows.
Straight(i, n, s, x) == Perform(i, n, Advance(accumulate_gas(s, i.op)), Advance(x))

EvmExtend(x, start, size) ==
  LET end == Ceil(start + size) * Bytes
  IN  IF size = 0 \/ end <= x.msize THEN x ELSE [x EXCEPT !.msize = end]
EvmWrite(x, start, bytes) ==
  LET y == EvmExtend(x, start, Len(bytes)) IN [y EXCEPT !.mem = Put(@, start, bytes)]

Stacks == \E i \in get_current_instruction :
  /\ Running({"PUSH", "DUP1", "DUP2", "SWAP1", "POP", "JUMPDEST", "EMPTY"}, i)
  /\ UNCHANGED world
  /\ LET k == CASE i.op \in {"DUP1", "POP"} -> 1 [] i.op \in {"DUP2", "SWAP1"} -> 2 [] OTHER -> 0
         Moved(s, lit) ==
           CASE i.op = "PUSH" -> Push(s, lit)
             [] i.op \in {"DUP1", "DUP2"} -> Push(s, s.stack[Len(s.stack) - k + 1])
             [] i.op = "SWAP1" -> [s EXCEPT !.stack[Len(s.stack)] = s.stack[Len(s.stack) - 1],
                                            !.stack[Len(s.stack) - 1] = s.stack[Len(s.stack)]]
             [] i.op = "POP" -> Pop(s, 1)
             [] OTHER -> s
     IN  Straight(i, k, Moved(m, Const(i.arg)), Moved(e, i.arg))

Arithmetic == \E i \in get_current_instruction :
  /\ Running(Unary \cup Binary \cup Ternary, i)
  /\ UNCHANGED world
  /\ LET n == IF i.op \in Unary THEN 1 ELSE IF i.op \in Binary THEN 2 ELSE 3
         x == Arg(1)
         y == Arg(IF n > 1 THEN 2 ELSE 1)
         z == Arg(n)
         true == Evm(i.op, EArg(1), EArg(IF n > 1 THEN 2 ELSE 1), EArg(n))
         got == Results(i.op, x, y, z)
         r == IF e.status = "run" /\ true \in got THEN true
              ELSE IF got # {} THEN CHOOSE v \in got : TRUE ELSE 0
         sym == x.sym \/ y.sym \/ z.sym
     IN  Straight(i, n, Push(Pop(m, n), [v |-> r, sym |-> sym]),
                  Part(Push(Pop(e, n), true), Differs(i.op, x, y, z)))

pc_    == Const(Wrap(Address(program, m.pc)))
msize_ == Const(Wrap(m.msize))

\* len(bytecode) // 2 of code of n bytes.
half_length(n, form) ==
  Wrap(CASE form = "digits" -> n [] form = "prefixed" -> n + 1 [] OTHER -> n \div 2)

\* What a message or a block decides is a symbol, one for each opcode; what the frame knows
\* is a constant.  The gas left is one symbol, too, which cannot stand for two readings.  In
\* a constructor CODESIZE fixes the size of the call data to that of the code and more.
Environment == \E i \in get_current_instruction :
  /\ Running({"PC", "MSIZE", "CODESIZE", "ADDRESS", "CALLDATASIZE"}, i)
  /\ UNCHANGED world
  /\ CASE i.op = "PC" -> Straight(i, 0, Push(m, pc_), Push(e, Wrap(Address(program, e.pc))))
       [] i.op = "MSIZE" -> Straight(i, 0, Push(m, msize_), Part(Push(e, Wrap(e.msize)), m.msize # e.msize))
       [] i.op = "CODESIZE" ->
            IF kind = "creation" THEN Straight(i, 0, Stop(m, "infeasible"), Stop(e, "apart"))
            ELSE Straight(i, 0, Push(m, Const(half_length(Len(CodeBytes), kind))),
                          Part(Push(e, Len(CodeBytes)), kind # "digits"))
       [] i.op = "ADDRESS" -> Straight(i, 0, Push(m, Const(1)), Push(e, 1))
       [] OTHER -> Straight(i, 0, Push(m, Term(Len(Data))), Push(e, Len(Data)))

new_bitvec == \E i \in get_current_instruction :
  /\ Running(Decided, i)
  /\ \E v \in IF i.op \in DOMAIN world THEN {world[i.op]} ELSE Symbols :
       /\ world' = Over([op \in {i.op} |-> v], world)
       /\ Straight(i, 0, Push(m, Term(v)), Part(Push(e, v), i.op = "GAS" /\ "GAS" \in DOMAIN world))

\* Of an account that is known the balance is a number that was read from the chain, or a
\* term; an address among no known accounts is taken to have none.
balance_(v, address, known, read) ==
  [v |-> IF known THEN v ELSE 0, sym |-> address.sym \/ (known /\ ~read)]

extcodesize_(v, address, known, form) ==
  IF address.sym \/ ~known THEN Term(v) ELSE Const(half_length(v, form))

\* The hash of the code at a symbolic address is taken to be that of no code.
extcodehash_(v, address) == IF address.sym THEN Const(0) ELSE Const(v)
blockhash_(v) == Term(v)

Accounts == \E i \in get_current_instruction, v \in Symbols, known, read \in BOOLEAN, form \in Forms :
  /\ Running({"BALANCE", "EXTCODESIZE", "EXTCODEHASH", "BLOCKHASH"}, i)
  /\ UNCHANGED world
  /\ LET a == Arg(1)
         r == CASE i.op = "BALANCE"     -> balance_(v, a, known, read)
                [] i.op = "EXTCODESIZE" -> extcodesize_(v, a, known, form)
                [] i.op = "EXTCODEHASH" -> extcodehash_(v, a)
                [] i.op = "BLOCKHASH"   -> blockhash_(v)
     IN  Straight(i, 1, Push(Pop(m, 1), r),
           Part(Push(Pop(e, 1), v),
                \/ i.op = "BALANCE" /\ ~known /\ v # 0
                \/ i.op = "EXTCODESIZE" /\ ~a.sym /\ known /\ form # "digits"
                \/ i.op = "EXTCODEHASH" /\ a.sym))

-------------------------------------------------------------------------------
(* Memory *)

LoadStore == \E i \in get_current_instruction :
  /\ Running({"MLOAD", "MSTORE", "MSTORE8"}, i)
  /\ UNCHANGED world
  /\ LET offset == Arg(1)
         word == Arg(2)
         low == [v |-> word.v % TwoTo[B], sym |-> word.sym]
         s == mem_extend(Pop(m, IF i.op = "MLOAD" THEN 1 ELSE 2), offset,
                         Const(IF i.op = "MSTORE8" THEN 1 ELSE Bytes))
         far == EArg(1)
     IN  CASE i.op = "MLOAD" ->
                \E w \in IF m.stack = <<>> THEN {Const(0)} ELSE get_word_at(s, offset) :
                  Straight(i, 1, Push(s, w),
                    Part(Push(EvmExtend(Pop(e, 1), far, Bytes), Joined(Slice(e.mem, far, Bytes, 0))),
                         offset.sym))
           [] i.op = "MSTORE" ->
                Straight(i, 2, IF s.status = "run" THEN write_word_at(s, offset, word) ELSE s,
                  Part(EvmWrite(Pop(e, 2), far, Split(EArg(2))), offset.sym))
           [] OTHER ->
                Straight(i, 2, IF offset.sym THEN [s EXCEPT !.aside = @ \cup {low}]
                               ELSE setitem(s, offset.v, <<low>>),
                  Part(EvmWrite(Pop(e, 2), far, <<EArg(2) % TwoTo[B]>>), offset.sym))

-------------------------------------------------------------------------------
(* Copies *)

At(bytes, i) == IF i + 1 \in DOMAIN bytes THEN bytes[i + 1] ELSE 0
Range0(bytes, start, n) == [i \in 1..n |-> At(bytes, start + i - 1)]

\* SymbolicCalldata._load: the index is compared with the size as a signed number, and
\* behind the largest one no data is known to be missing.
_load(item) == IF Signed(item) < Signed(Len(Data)) THEN At(Data, item) ELSE 0

calldataload == \E i \in get_current_instruction :
  /\ Running({"CALLDATALOAD"}, i)
  /\ UNCHANGED world
  /\ Straight(i, 1, Push(Pop(m, 1), Term(Joined([j \in 1..Bytes |-> _load(Wrap(Arg(1).v + j - 1))]))),
       Part(Push(Pop(e, 1), Joined(Range0(Data, EArg(1), Bytes))), EArg(1) + Bytes > Size \div 2))

_calldata_copy_helper(s, mstart, dstart, size) ==
  LET n == IF size.sym THEN SymbolicSize ELSE size.v
      taken == Range0(Data, dstart.v, n)
  IN  IF mstart.sym \/ n = 0 THEN s
      ELSE setitem(mem_extend(s, mstart, Const(n)), mstart.v, [i \in 1..n |-> Term(taken[i])])

\* true are the bytes a fresh symbol stands for.  Behind the end of the code nothing is
\* written.
_code_copy_helper(s, bytes, true, mo, co, size) ==
  LET n == IF co.v >= Len(bytes) THEN 0
           ELSE IF co.v + size.v > Len(bytes) THEN Len(bytes) - co.v ELSE size.v
      t == mem_extend(s, mo, size)
  IN  IF mo.sym THEN s
      ELSE IF size.sym THEN setitem(mem_extend(s, mo, Const(1)), mo.v, <<Term(At(true, co.v))>>)
      ELSE IF co.sym THEN setitem(t, mo.v, [i \in 1..size.v |-> Term(At(true, co.v + i - 1))])
      ELSE setitem(t, mo.v, [i \in 1..n |-> Const(At(bytes, co.v + i - 1))])

calldatacopy == \E i \in get_current_instruction :
  /\ Running({"CALLDATACOPY"}, i)
  /\ UNCHANGED world
  /\ LET a == Arg(1)  d == Arg(2)  n == Arg(3)
     IN  Straight(i, 3, IF kind = "creation" THEN Pop(m, 3)
                        ELSE _calldata_copy_helper(Pop(m, 3), a, d, n),
           Part(EvmWrite(Pop(e, 3), EArg(1), Range0(Data, EArg(2), EArg(3))),
                \/ EArg(3) > 0 /\ (a.sym \/ kind = "creation")
                \/ n.sym))

\* extcodecopy_: nothing is copied of code that is not known.
extcodecopy_unknown(loaded) == Arg(1).sym \/ ~loaded

\* In a constructor the arguments follow the code.
codecopy == \E i \in get_current_instruction, loaded \in BOOLEAN :
  /\ Running({"CODECOPY", "EXTCODECOPY"}, i)
  /\ UNCHANGED world
  /\ LET ext == i.op = "EXTCODECOPY"
         k == IF ext THEN 1 ELSE 0
         a == Arg(1 + k)  c == Arg(2 + k)  n == Arg(3 + k)
         true == IF kind = "creation" /\ ~ext THEN CodeBytes \o Data ELSE CodeBytes
         skipped == ext /\ extcodecopy_unknown(loaded)
         arguments == kind = "creation" /\ ~ext /\ ~c.sym /\ Signed(c.v) >= Len(CodeBytes)
         bytes == Range0(true, EArg(2 + k), EArg(3 + k))
         s == Pop(m, 3 + k)
     IN  Straight(i, 3 + k,
           IF skipped THEN s
           ELSE IF arguments THEN _calldata_copy_helper(s, a, Const(c.v - Len(CodeBytes)), n)
           ELSE _code_copy_helper(s, CodeBytes, true, a, c, n),
           Part(EvmWrite(Pop(e, 3 + k), EArg(1 + k), bytes),
                \/ n.sym
                \/ EArg(3 + k) > 0 /\ (skipped \/ a.sym)
                \/ ~arguments /\ ~c.sym /\ \E j \in DOMAIN bytes :
                     /\ EArg(2 + k) + j > Len(CodeBytes)
                     /\ bytes[j] # ByteAt(e.mem, EArg(1 + k) + j - 1, 0)))

Hash(bytes) == Wrap(7 * Joined(bytes) + Len(bytes))

\* A symbolic length is assumed to be that of two words.  The memory is read behind
\* the charge for the words hashed.
sha3 == \E i \in get_current_instruction :
  /\ Running({"SHA3"}, i)
  /\ UNCHANGED world
  /\ LET index == Arg(1)  size == Arg(2)
         n == IF size.sym THEN 2 * Bytes ELSE size.v
         gas == 30 + 6 * Ceil(n)
         s == mem_extend(check_gas_usage_limit(Charge(Pop(m, 2), <<gas, gas>>)), index, Const(n))
         bytes == IF index.sym THEN [j \in 1..n |-> Const(0)] ELSE Read(s, index.v, n)
         other == size.sym /\ size.v # n
     IN  Perform(i, 2,
           IF other THEN Stop(s, "infeasible")
           ELSE Advance(Push(s, [v |-> Hash(Values(bytes)), sym |-> \E j \in DOMAIN bytes : bytes[j].sym])),
           Part(Advance(Push(EvmExtend(Pop(e, 2), EArg(1), EArg(2)),
                             Hash(Slice(e.mem, EArg(1), EArg(2), 0)))), index.sym \/ other))

-------------------------------------------------------------------------------
(* Jumps and ends *)

EvmJump(x, address) ==
  LET at == {j \in DOMAIN program : Holds(program, j, "JUMPDEST") /\ Address(program, j) = address}
  IN  IF at = {} THEN Stop(x, "failed") ELSE [x EXCEPT !.pc = CHOOSE j \in at : TRUE]

jump == \E i \in get_current_instruction :
  /\ Running({"JUMP"}, i)
  /\ UNCHANGED world
  /\ LET index == get_instruction_index(program, Arg(1).v)
     IN  Perform(i, 1,
           IF Arg(1).sym \/ index = 0 \/ ~Holds(program, index, "JUMPDEST") THEN Stop(m, "failed")
           ELSE [Charge(Pop(m, 1), OPCODES_gas("JUMP")) EXCEPT !.pc = index],
           Part(EvmJump(Pop(e, 1), EArg(1)), Arg(1).sym))

\* A successor is made for a condition that is not false; a symbolic target leaves the
\* fall-through alone, whatever the condition is.
jumpi == \E i \in get_current_instruction :
  /\ Running({"JUMPI"}, i)
  /\ UNCHANGED world
  /\ LET target == Arg(1)  condition == Arg(2)
         index == get_instruction_index(program, target.v)
         s == Charge(Pop(m, 2), OPCODES_gas("JUMPI"))
         deeper == [s EXCEPT !.depth = @ + 1]
         taken == condition.v # 0
     IN  Perform(i, 2,
           IF target.sym THEN Advance(s)
           ELSE IF ~taken THEN Advance(deeper)
           ELSE IF index = 0 \/ ~Holds(program, index, "JUMPDEST") THEN Stop(s, "pruned")
           ELSE [deeper EXCEPT !.pc = index],
           Part(IF EArg(2) = 0 THEN Advance(Pop(e, 2)) ELSE EvmJump(Pop(e, 2), EArg(1)),
                target.sym /\ taken))

\* What accumulate_gas charges for: the instruction at the new counter.
Landing(pc) ==
  IF pc \in DOMAIN code THEN {code[pc].op} ELSE IF pc \in DOMAIN program THEN program[pc] ELSE {"STOP"}

\* jumpsub_ continues behind the instruction whose INDEX is the address; with no
\* instruction at or behind the address it fails on None.
jumpsub == \E i \in get_current_instruction :
                  \E op \in IF m.stack = <<>> THEN {"STOP"} ELSE Landing(Arg(1).v + 1) :
  /\ Running({"JUMPSUB"}, i)
  /\ UNCHANGED world
  /\ LET index == get_instruction_index(program, Arg(1).v)
         at == {j \in DOMAIN program :
                  Holds(program, j, "BEGINSUB") /\ Address(program, j) = EArg(1)}
         s == [Pop(m, 1) EXCEPT !.subs = Append(@, m.pc + 1), !.pc = Arg(1).v + 1]
     IN  Perform(i, 1,
           IF Arg(1).sym \/ ~Holds(program, index, "BEGINSUB")
           THEN Stop(m, IF ~Arg(1).sym /\ index = 0 THEN "crash" ELSE "failed")
           ELSE Advance(accumulate_gas(s, op)),
           IF at = {} THEN Stop(e, "failed")
           ELSE Part([Pop(e, 1) EXCEPT !.subs = Append(@, e.pc + 1), !.pc = (CHOOSE j \in at : TRUE) + 1],
                     Arg(1).sym \/ index # Arg(1).v + 1))

returnsub == \E i \in get_current_instruction :
                    \E op \in IF m.subs = <<>> THEN {"STOP"} ELSE Landing(m.subs[Len(m.subs)]) :
  /\ Running({"RETURNSUB"}, i)
  /\ UNCHANGED world
  /\ LET Back(s) == IF s.subs = <<>> THEN Stop(s, "failed")
                    ELSE [s EXCEPT !.pc = s.subs[Len(s.subs)], !.subs = SubSeq(@, 1, Len(@) - 1)]
     IN  Perform(i, 0, accumulate_gas(Back(m), op), Back(e))

\* LOG drops its operands; the others end the path.
Ends == \E i \in get_current_instruction :
  /\ Running({"STOP", "INVALID", "BEGINSUB", "LOG1"}, i)
  /\ UNCHANGED world
  /\ CASE i.op = "STOP" -> Perform(i, 0, Stop(m, "stopped"), Stop(e, "stopped"))
       [] i.op = "LOG1" ->
            Straight(i, 3, Pop(m, 3), EvmExtend(Pop(e, 3), EArg(1), EArg(2)))
       [] OTHER -> Perform(i, 0, Stop(m, "failed"), Stop(e, "failed"))

Next ==
  \/ Stacks \/ Arithmetic \/ Environment \/ new_bitvec \/ Accounts \/ LoadStore
  \/ calldataload \/ calldatacopy \/ codecopy \/ sha3 \/ jump \/ jumpi \/ jumpsub \/ returnsub \/ Ends

Spec == Init /\ [][Next]_vars

-------------------------------------------------------------------------------
(* Properties *)

Together == m.status = "run" /\ e.status = "run"

\* After any sequence of instructions in which no handler approximates, the path is at the
\* instruction the Ethereum machine is at, with the same words on its stacks.
StackAgrees ==
  Together => m.pc = e.pc /\ Values(m.stack) = e.stack /\ m.subs = e.subs

\* On such a path every byte of the memory has the value the Ethereum machine stored last,
\* and nothing is stored behind the end of the memory.
MemoryAgrees ==
  Together => /\ \A i \in 0..(e.msize - 1) : ByteAt(m.mem, i, Const(0)).v = ByteAt(e.mem, i, 0)
              /\ \A i \in DOMAIN m.mem : i < m.msize

\* A path is given up only where the Ethereum machine gives up: as long as no handler has
\* approximated, what that machine executes to its end is not lost, but for the gas limit.
\* That a path goes on where the machine has failed is not excluded here (NeverTaken).
NeverLost ==
  /\ e.status = "run" => m.status \in {"run", "OutOfGas"}
  /\ e.status = "stopped" => m.status \in {"stopped", "OutOfGas"}

\* InvalidJumpDestination: "A VM exception regarding JUMPs to invalid destinations": where
\* the Ethereum machine fails, by a jump to no JUMPDEST or otherwise, the path ends, too.
NeverTaken == e.status = "failed" => m.status # "run"

\* However the memory has grown, by reads, writes, copies or hashes, in whatever order, the
\* path has paid exactly what its present size costs.
MemoryPaid == m.paid = Fee(m.msize \div Bytes) /\ m.msize % Bytes = 0
===============================================================================
