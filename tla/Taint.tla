---------------------------------- MODULE Taint ----------------------------------
(***************************************************************************)
(* The detection modules that follow values: IntegerArithmetics, TxOrigin and *)
(* PredictableVariables (mythril/analysis/module/modules), over the words of   *)
(* the symbolic machine and their annotations (mythril/laser/smt).             *)
(*                                                                           *)
(* A word is a value for every valuation of the inputs and a reference to the *)
(* set of its annotations.  Sets are shared, by DUP, by the words of the      *)
(* environment, by the states of a fork; a hook that annotates a word changes *)
(* the set in place.                                                         *)
(***************************************************************************)
EXTENDS Integers, Sequences, SequencesExt

CONSTANTS
  Programs,  \* each a sequence of instructions [op, arg]
  Size       \* a word is one of 0 .. Size - 1; a power of 2

\* Number, the number of the block, is a word.
ASSUME SizeAssumption == Size \in Nat \ {0, 1, 2}

\* arg is what PUSH pushes, and the target of a JUMPI.
ASSUME ProgramsAssumption ==
  \A p \in Programs : /\ p \in Seq([op : STRING, arg : Nat])
                      /\ \A n \in DOMAIN p : p[n].op = "PUSH" => p[n].arg < Size

VARIABLES
  program,   \* the code being executed
  paths,     \* the states of the symbolic machine
  notes,     \* the annotation sets, by reference
  issues     \* what the modules have reported

vars == <<program, paths, notes, issues>>

\* The inputs: the value sent and the sender.
Models == [sent : 0..(Size - 1), sender : 0..1]
Number == 2   \* the number of the block

\* The references of the words that live in the environment: the sender of a transaction
\* is one object, given as its origin and as its caller.
Sender == 1
Callvalue == 2
BlockNumber == 3

Constant(n) == [i \in Models |-> n]
Clean == Constant({})

\* over and from are what the value really depends on, which no code reads: the operations
\* that overflowed on its way, by valuation, and the kinds of instructions it comes from.
Word(f, set, over, from) == [f |-> f, set |-> set, bool |-> FALSE, over |-> over, from |-> from]

\* used and decided are, in the same way, the overflows that have reached a sink and the
\* decisions that were made on an origin or a block.
Init ==
  /\ program \in Programs
  /\ paths = <<[pc |-> 1, stack |-> <<>>, mem |-> <<>>, models |-> Models, over |-> {}, old |-> FALSE,
                used |-> Clean, decided |-> {}, status |-> "run"]>>
  /\ notes = <<{}, {}, {}>>
  /\ issues = {}

-------------------------------------------------------------------------------
(* Words *)

Arithmetic == {"ADD", "SUB", "MUL", "EXP"}

Exact(op, a, b) ==
  CASE op = "ADD" -> a + b
    [] op = "SUB" -> a - b
    [] op = "MUL" -> a * b
    [] op = "EXP" -> IF b = 0 THEN 1 ELSE a^b
    [] op = "LT"  -> IF a < b THEN 1 ELSE 0
    [] op = "EQ"  -> IF a = b THEN 1 ELSE 0

Overflows(op, a, b) == Exact(op, a, b) \notin 0..(Size - 1)

IsConst(w) == \E n \in 0..(Size - 1) : w.f = Constant(n)
Of(w) == w.f[CHOOSE i \in Models : TRUE]

\* ceil(256 / log2(base)) and 2 ** ceil(256 / exponent)
ExponentBound(n) == CHOOSE k \in 1..Size : n^k >= Size /\ (k > 1 => n^(k - 1) < Size)
BaseBound(k) == LET bits == CHOOSE n \in 0..Size : 2^n = Size IN 2^((bits + k - 1) \div k)

\* A power that overflows has an exponent of the bound or more, for every size of a word.
ASSUME PowerAssumption ==
  \A n, k \in 0..(Size - 1) :
    /\ Exact("EXP", n, k) \in Nat
    /\ n > 1 /\ Overflows("EXP", n, k) => k >= ExponentBound(n)

\* Mutant: a sum that just overflows is left out.
ConstraintOneOff(op, x, y) ==
  {i \in Models : IF op = "ADD" THEN x.f[i] + y.f[i] > Size ELSE Overflows(op, x.f[i], y.f[i])}

\* _handle_add, _handle_sub, _handle_mul, _handle_exp: the condition of the annotation.
Constraint(op, x, y) ==
  {i \in Models :
     CASE op # "EXP"                              -> Overflows(op, x.f[i], y.f[i])
       [] op = "EXP" /\ ~IsConst(x) /\ ~IsConst(y) -> y.f[i] > Size /\ x.f[i] > 1
       [] op = "EXP" /\ ~IsConst(x) /\ IsConst(y)  -> x.f[i] >= BaseBound(Of(y))
       [] op = "EXP" /\ IsConst(x)                 -> y.f[i] >= ExponentBound(Of(x))}

\* Nothing is noted of a power that cannot overflow, nor of an operand that a comparison
\* has left as a Bool: the annotation is made on a temporary.
Unnoted(op, x, y) ==
  \/ op \notin Arithmetic \/ x.bool
  \/ op = "EXP" /\ IsConst(y) /\ Of(y) = 0
  \/ op = "EXP" /\ IsConst(x) /\ Of(x) < 2

\* Overflows that go unnoticed: unnoted ones, and those of a symbolic base that the
\* condition leaves out.
Overlooked(op, x, y) == Unnoted(op, x, y) \/ (op = "EXP" /\ ~IsConst(x))

-------------------------------------------------------------------------------
(* Steps *)

Instr(k) == program[paths[k].pc]

\* get_required_stack_elements, of the operands that are modelled
Required(op) ==
  CASE op \in Arithmetic \cup {"LT", "EQ"} -> 2
    [] op \in {"DUP1", "POP", "MSTORE", "BLOCKHASH", "SSTORE", "CALL", "JUMPI"} -> 1
    [] OTHER -> 0

\* Behind the end of the code, and where the stack is too short, a path ends before a hook.
Running(k, ops) ==
  /\ paths[k].status = "run" /\ paths[k].pc \in DOMAIN program
  /\ Instr(k).op \in ops /\ Len(paths[k].stack) >= Required(Instr(k).op)

Arg(k, n) == paths[k].stack[Len(paths[k].stack) - n + 1]
Popped(s, n) == SubSeq(s, 1, Len(s) - n)
Next1(s, n, pushed) == [s EXCEPT !.pc = @ + 1, !.stack = Popped(@, n) \o pushed]

\* DetectionModule.execute: a module does nothing at an address it has an issue for.
Cached(module, pc) == [module |-> module, pc |-> pc] \in issues

\* MSTORE takes a word apart, MLOAD puts its bytes together: a set that is not empty is
\* shared by the bytes, and their union is a new one.  What was not written is zero.
Moves == \E k \in DOMAIN paths :
  /\ Running(k, {"PUSH", "DUP1", "POP", "MSTORE", "MLOAD"})
  /\ LET op == Instr(k).op
         s == paths[k]
         fresh == Len(notes) + 1
         written == op = "MLOAD" /\ s.mem # <<>>
         copied == IF written THEN [s.mem[1] EXCEPT !.set = fresh]
                   ELSE Word(Constant(IF op = "PUSH" THEN Instr(k).arg ELSE 0), fresh, Clean, {})
     IN  /\ paths' = [paths EXCEPT ![k] =
              CASE op = "DUP1" -> Next1(s, 0, <<Arg(k, 1)>>)
                [] op = "POP" -> Next1(s, 1, <<>>)
                [] op = "MSTORE" ->
                     [Next1(s, 1, <<>>) EXCEPT !.mem =
                        <<[Arg(k, 1) EXCEPT !.set = IF notes[@] = {} THEN fresh ELSE @]>>]
                [] OTHER -> Next1(s, 0, <<copied>>)]
         /\ notes' = CASE op = "PUSH" \/ (op = "MSTORE" /\ notes[Arg(k, 1).set] = {}) -> Append(notes, {})
                       [] op = "MLOAD" -> Append(notes, IF written THEN notes[s.mem[1].set] ELSE {})
                       [] OTHER -> notes
  /\ UNCHANGED <<program, issues>>

\* The post hooks of ORIGIN, NUMBER and TIMESTAMP annotate the word that was pushed.
Reads == \E k \in DOMAIN paths :
  /\ Running(k, {"CALLVALUE", "CALLER", "ORIGIN", "NUMBER", "TIMESTAMP"})
  /\ LET op == Instr(k).op
         set == CASE op \in {"CALLER", "ORIGIN"} -> Sender
                  [] op = "CALLVALUE" -> Callvalue
                  [] op = "NUMBER" -> BlockNumber
                  [] OTHER -> Len(notes) + 1
         f == CASE op \in {"CALLER", "ORIGIN"} -> [i \in Models |-> i.sender]
                [] op = "CALLVALUE" -> [i \in Models |-> i.sent]
                [] OTHER -> Constant(Number)
         from == CASE op = "ORIGIN" -> {"origin"} [] op \in {"NUMBER", "TIMESTAMP"} -> {"block"} [] OTHER -> {}
         note == {[kind |-> c] : c \in from}
     IN  /\ paths' = [paths EXCEPT ![k] = Next1(@, 0, <<Word(f, set, Clean, from)>>)]
         /\ notes' = IF set > Len(notes) THEN Append(notes, note) ELSE [notes EXCEPT ![set] = @ \cup note]
  /\ UNCHANGED <<program, issues>>

\* Whether an old block can be meant is decided in the pre hook of BLOCKHASH, and the post
\* hook annotates; once an old one can have been asked for, every hash is annotated.
Blockhash == \E k \in DOMAIN paths :
  /\ Running(k, {"BLOCKHASH"})
  /\ LET possible == \E i \in paths[k].models : Arg(k, 1).f[i] < Number
         old == paths[k].old \/ possible
         from == IF possible THEN {"block"} ELSE {}
     IN  /\ paths' = [paths EXCEPT ![k] =
              [Next1(@, 1, <<Word([i \in Models |-> i.sender], Len(notes) + 1, Clean, from)>>)
                 EXCEPT !.old = old]]
         /\ notes' = Append(notes, IF old THEN {[kind |-> "block"]} ELSE {})
  /\ UNCHANGED <<program, issues>>

\* The upper operand is annotated in place; the result has the annotations of both.
Operation == \E k \in DOMAIN paths :
  /\ Running(k, Arithmetic \cup {"LT", "EQ"})
  /\ LET op == Instr(k).op
         pc == paths[k].pc
         x == Arg(k, 1)
         y == Arg(k, 2)
         note == IF Unnoted(op, x, y) \/ Cached("integer", pc) THEN {}
                 ELSE {[kind |-> "over", pc |-> pc, state |-> paths[k].models, bad |-> Constraint(op, x, y)]}
         noted == [notes EXCEPT ![x.set] = @ \cup note]
         over == [i \in Models |-> x.over[i] \cup y.over[i] \cup
                    IF Overflows(op, x.f[i], y.f[i]) /\ ~Overlooked(op, x, y) THEN {pc} ELSE {}]
         result == [Word([i \in Models |-> Exact(op, x.f[i], y.f[i]) % Size], Len(notes) + 1, over, x.from \cup y.from)
                      EXCEPT !.bool = op \in {"LT", "EQ"}]
     IN  /\ notes' = Append(noted, noted[x.set] \cup noted[y.set])
         /\ paths' = [paths EXCEPT ![k] = Next1(@, 2, <<result>>)]
  /\ UNCHANGED <<program, issues>>

\* Mutant: what the words already used carry is replaced.
SinkReplaced(s, words) ==
  [s EXCEPT !.over = {a \in UNION {notes[w.set] : w \in words} : a.kind = "over"},
            !.used = [i \in Models |-> @[i] \cup UNION {w.over[i] : w \in words}]]

\* _handle_sstore, _handle_jumpi, _handle_call, _handle_return: what the words carry, the
\* path carries from now on.
Sink(s, words) ==
  [s EXCEPT !.over = @ \cup {a \in UNION {notes[w.set] : w \in words} : a.kind = "over"},
            !.used = [i \in Models |-> @[i] \cup UNION {w.over[i] : w \in words}]]

Sinks == \E k \in DOMAIN paths :
  /\ Running(k, {"SSTORE", "CALL"})
  /\ paths' = [paths EXCEPT ![k] = Next1(Sink(@, {Arg(k, 1)}), 1, <<>>)]
  /\ UNCHANGED <<program, notes, issues>>

\* Mutant: only the first annotation of a condition is looked at.
DecidedFirst(k, w) == IF notes[w.set] = {} THEN {} ELSE {(CHOOSE a \in notes[w.set] : TRUE).kind} \ {"over"}

\* TxOrigin and PredictableVariables: an issue if the path is possible.
Decided(k, w) == {a.kind : a \in notes[w.set]} \ {"over"}

Jumpi == \E k \in DOMAIN paths :
  /\ Running(k, {"JUMPI"})
  /\ LET w == Arg(k, 1)
         pc == paths[k].pc
         possible == paths[k].models # {}
         s == [Next1(Sink(paths[k], {w}), 1, <<>>)
                 EXCEPT !.decided = IF possible THEN @ \cup {[module |-> c, pc |-> pc] : c \in w.from} ELSE @]
         taken == [s EXCEPT !.pc = Instr(k).arg, !.models = {i \in @ : w.f[i] # 0}]
         falls == [s EXCEPT !.models = {i \in @ : w.f[i] = 0}]
     IN  /\ paths' = IF IsConst(w) THEN [paths EXCEPT ![k] = IF Of(w) # 0 THEN taken ELSE falls]
                     ELSE Append([paths EXCEPT ![k] = taken], falls)
         /\ issues' = issues \cup {[module |-> c, pc |-> pc] :
                                     c \in {d \in Decided(k, w) : possible /\ ~Cached(d, pc)}}
  /\ UNCHANGED <<program, notes>>

\* Mutant: an overflow that is impossible at the end hides the others.
Found_break(s) ==
  IF \E a \in s.over : s.models \cap a.bad = {} THEN {} ELSE {a.pc : a \in s.over}

\* _handle_transaction_end: an overflow is reported if it was possible where it was noted
\* and still is.
Found(s) == {a.pc : a \in {b \in s.over : b.state \cap b.bad # {} /\ s.models \cap b.bad # {}}}

Ends == \E k \in DOMAIN paths :
  /\ Running(k, {"STOP", "RETURN", "REVERT"})
  /\ LET op == Instr(k).op
         s == IF op = "RETURN" THEN Sink(paths[k], Range(paths[k].mem)) ELSE paths[k]
     IN  /\ paths' = [paths EXCEPT ![k] = [s EXCEPT !.status = IF op = "REVERT" THEN "reverted" ELSE "stopped"]]
         /\ issues' = IF op = "REVERT" THEN issues
                      ELSE issues \cup {[module |-> "integer", pc |-> pc] : pc \in Found(s)}
  /\ UNCHANGED <<program, notes>>

Next == Moves \/ Reads \/ Blockhash \/ Operation \/ Sinks \/ Jumpi \/ Ends

Spec == Init /\ [][Next]_vars

-------------------------------------------------------------------------------
(* Properties *)

\* Whatever way a value has taken through the stack, the memory, other operations and the
\* forks of the path, an overflow that a path makes use of and commits is reported.
OverflowsReported ==
  \A k \in DOMAIN paths : paths[k].status = "stopped" =>
    \A i \in paths[k].models : \A pc \in paths[k].used[i] : Cached("integer", pc)

\* Every decision that a possible path makes on the origin or on the block is reported.
DecisionsReported ==
  \A k \in DOMAIN paths : \A d \in paths[k].decided : Cached(d.module, d.pc)
===============================================================================
