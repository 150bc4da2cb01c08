-------------------------------- MODULE Dispatch --------------------------------
(***************************************************************************)
(* The function dispatcher of a contract and its modification:                *)
(* fdg/instruction_modification.py.  The dispatcher compares the selector of   *)
(* the call data with those of the functions, one after the other or in a      *)
(* search tree (GT), and falls through to the revert block.  An instruction is  *)
(* [address, op, arg]; arg is the tuple of bytes of a PUSH.  positions are      *)
(* counted from 0 in the code and from 1 here.                               *)
(***************************************************************************)
EXTENDS Integers, Sequences, FiniteSets, SequencesExt, FiniteSetsExt

Push == {"PUSH1", "PUSH2", "PUSH3", "PUSH4"}

\* get_address_from_argument
Value(bytes) == FoldLeft(LAMBDA v, b : 256 * v + b, 0, bytes)

\* get_back_functin_signature: the compiler drops the leading zero byte of a selector.
Signature(bytes) == IF Len(bytes) = 3 THEN <<0>> \o bytes ELSE bytes

EMPTY(i) == [address |-> i.address, op |-> "EMPTY", arg |-> <<>>]

-------------------------------------------------------------------------------
(* Grouping *)

NoGroups == [stop |-> FALSE, flag |-> 0, groups |-> <<<<>>>>, functions_to_positions |-> <<>>,
             positions_contain_GT |-> {}, jumpdest_in_dispatcher |-> <<>>, revert |-> 0, offset |-> 0]

\* A function's group starts at the PUSH of its selector, behind the DUP1.
StartsFunction(d, i) ==
  /\ d.flag = 2
  /\ Signature(i.arg) # <<255, 255, 255, 255>>
  /\ i.op \in {"PUSH4", "PUSH3"}
  /\ Last(d.groups) # <<>>
  /\ Last(Last(d.groups)).op = "DUP1"

Positions(d, key) == IF key \in DOMAIN d.functions_to_positions THEN d.functions_to_positions[key] ELSE {}

Note(d, i) ==
  LET next == Len(d.groups) + 1
      opened == [d EXCEPT !.groups = Append(@, <<>>)]
      key == Signature(i.arg)
  IN  CASE i.op = "CALLDATASIZE" -> [d EXCEPT !.flag = 1]
        [] i.op \in Push ->
             IF d.flag = 1 /\ Value(i.arg) > 0 THEN [d EXCEPT !.revert = Value(i.arg)]
             ELSE IF StartsFunction(d, i)
             THEN [opened EXCEPT !.functions_to_positions =
                     [k \in DOMAIN @ \cup {key} |-> Positions(d, k) \cup IF k = key THEN {next} ELSE {}]]
             ELSE d
        [] i.op = "JUMPDEST" /\ d.flag = 2 ->
             IF i.address = d.revert THEN [d EXCEPT !.stop = TRUE]
             ELSE [opened EXCEPT !.jumpdest_in_dispatcher = Append(@, d.offset)]
        [] i.op = "CALLDATALOAD" -> [d EXCEPT !.flag = 2]
        [] i.op = "GT" /\ d.flag = 2 -> [d EXCEPT !.positions_contain_GT = @ \cup {Len(d.groups)}]
        [] OTHER -> d

Feed(d, i) ==
  LET noted == Note(d, i)
  IN  IF d.stop \/ noted.stop THEN noted
      ELSE [noted EXCEPT !.groups[Len(noted.groups)] = Append(@, i), !.offset = @ + 1]

\* Behind the groups of the dispatcher, the rest of the code.
_feed_instructions_update(instruction_list) ==
  LET d == FoldLeft(Feed, NoGroups, instruction_list)
  IN  [d EXCEPT !.groups = Append(@, SubSeq(instruction_list, d.offset + 1, Len(instruction_list)))]

-------------------------------------------------------------------------------
(* Modification *)

\* Mutant: the positions with a GT are not kept.
Kept_noGT(d, selectors) == UNION {Positions(d, s) : s \in selectors}

Kept(d, selectors) == d.positions_contain_GT \cup UNION {Positions(d, s) : s \in selectors}

\* A group without its function is emptied, not removed: addresses stay indices.
Combined(d, selectors) ==
  LET functions == UNION {Positions(d, s) : s \in DOMAIN d.functions_to_positions}
      Group(p) == IF p \in functions \ Kept(d, selectors)
                  THEN [n \in DOMAIN d.groups[p] |-> EMPTY(d.groups[p][n])]
                  ELSE d.groups[p]
  IN  FlattenSeq([p \in 1..Len(d.groups) - 1 |-> Group(p)])

\* The last instruction up to n that is left; when it is a DUP1 nobody compares its copy.
WithoutDup(code, n, first) ==
  LET left == {i \in first..n : code[i].op # "EMPTY"}
  IN  IF left # {} /\ code[Max(left)].op = "DUP1"
      THEN [code EXCEPT ![Max(left)] = EMPTY(@)]
      ELSE code

\* Mutant: the DUP1 before a JUMPDEST of the search tree stays.
Repaired_last(d, code) == WithoutDup(code, Len(code), 2)

Repaired(d, code) ==
  FoldLeft(LAMBDA c, offset : WithoutDup(c, offset, 1), WithoutDup(code, Len(code), 2), d.jumpdest_in_dispatcher)

_get_modified_instructions_1(d, selectors) == Repaired(d, Combined(d, selectors)) \o Last(d.groups)

-------------------------------------------------------------------------------
(* What a dispatcher does: the place where a call with this selector leaves it, and the    *)
(* height of the stack there.                                                             *)

Places(code, revert) == {i \in revert..Len(code) : code[i].op = "JUMPDEST"}
Top(s) == Head(s)

Leaves(code, sel, size, revert) ==
  LET Bool(b) == IF b THEN 1 ELSE 0
      from[pc \in Nat, stack \in Seq(Nat)] ==
        LET i == code[pc]
            Next(s) == from[pc + 1, s]
            two == Tail(Tail(stack))
        IN  IF pc \in Places(code, revert) THEN [at |-> pc, height |-> Len(stack)]
            ELSE CASE i.op \in Push -> Next(<<Value(i.arg)>> \o stack)
                   [] i.op \in {"EMPTY", "JUMPDEST"} -> Next(stack)
                   [] i.op = "DUP1" -> Next(<<Top(stack)>> \o stack)
                   [] i.op = "CALLDATASIZE" -> Next(<<size>> \o stack)
                   [] i.op = "CALLDATALOAD" -> Next(<<Value(sel)>> \o Tail(stack))
                   [] i.op = "EQ" -> Next(<<Bool(stack[1] = stack[2])>> \o two)
                   [] i.op = "GT" -> Next(<<Bool(stack[1] > stack[2])>> \o two)
                   [] i.op = "LT" -> Next(<<Bool(stack[1] < stack[2])>> \o two)
                   [] i.op = "JUMPI" -> IF stack[2] # 0 THEN from[stack[1], two] ELSE Next(two)
                   [] i.op = "JUMP" -> from[stack[1], Tail(stack)]
  IN  from[1, <<>>]
===============================================================================
