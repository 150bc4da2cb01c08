-------------------------------- MODULE MCTaint --------------------------------
(* Code for the detection modules that follow values: JUMPI has its target as argument. *)
EXTENDS Taint

I(op) == [op |-> op, arg |-> 0]
Push(n) == [op |-> "PUSH", arg |-> n]
If(n) == [op |-> "JUMPI", arg |-> n]

Input == {I("CALLVALUE"), I("CALLER"), I("ORIGIN"), I("NUMBER"), I("TIMESTAMP"), Push(3)}

MCPrograms ==
  \* a result that is stored, sent or returned, behind a check or not
  {<<a, b, [op |-> op, arg |-> 0], I("DUP1"), I(sink), I("DUP1"), c, I("LT"), If(11), I("STOP"), I(end)>> :
     a \in {I("CALLVALUE"), Push(3)}, b \in {I("CALLVALUE"), I("CALLER"), Push(2)}, op \in Arithmetic,
     sink \in {"SSTORE", "POP", "MSTORE"}, c \in {I("CALLVALUE"), Push(1)}, end \in {"RETURN", "REVERT"}}
  \cup
  \* two operations, the second on the result of the first, behind a fork
  {<<I("CALLVALUE"), a, I("EQ"), If(c), I("CALLVALUE"), b, [op |-> op, arg |-> 0], I("CALLVALUE"), I("ADD"), I("CALL"), I("STOP")>> :
     a \in {I("CALLER"), Push(2)}, b \in {I("ORIGIN"), Push(1)}, op \in {"ADD", "SUB", "EQ"}, c \in {5, 11}}
  \cup
  \* a result that goes through the memory, or is not in it; a stack that is too short
  {<<I("CALLVALUE"), a, [op |-> op, arg |-> 0], b, I("MLOAD"), I("DUP1"), If(c), I("SSTORE"), I("STOP")>> :
     a \in {I("CALLER"), Push(3), I("POP")}, op \in {"ADD", "MUL", "LT"}, b \in {I("MSTORE"), I("DUP1")}, c \in {8, 9}}
  \cup
  \* decisions on what the block and the origin give
  {<<a, b, I("EQ"), If(5), c, I("BLOCKHASH"), d, I("EQ"), If(10), I("STOP")>> :
     a \in Input, b \in Input, c \in {I("CALLVALUE"), I("NUMBER"), Push(1)}, d \in {I("ORIGIN"), I("CALLER")}}
===============================================================================
