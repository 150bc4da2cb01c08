------------------------------ MODULE MCMachine -------------------------------
(* Program templates for the symbolic machine. *)
EXTENDS Machine

P == {"PUSH"}
V == {"PUSH", "CALLVALUE"}

MCCode == <<1, 2, 3>>
MCData == <<2, 1>>

MCPrograms == {
  \* operations on constants and symbols
  <<V, V, Unary \cup Binary, {"DIV", "ISZERO", "STOP"}>>,
  <<P, V, {"CALLER"}, Ternary>>,
  \* what is written, and what is read of it, word by word and byte by byte
  <<V, P, V, {"MSTORE", "MSTORE8"}, V, {"MLOAD", "MSIZE"}, {"MSIZE", "MSTORE"}>>,
  <<P, {"DUP1"}, {"MSTORE"}, V, V, P, {"CALLDATACOPY", "CODECOPY"}, P, {"MLOAD"}>>,
  <<P, {"DUP1"}, {"MSTORE"}, P, V, P, V, {"EXTCODECOPY"}, P, {"MLOAD"}>>,
  <<P, {"CALLVALUE"}, P, {"CALLDATACOPY"}, P, P, {"SHA3"}, {"MSIZE"}>>,
  <<V, P, {"MSTORE"}, V, V, {"SHA3"}, P, {"MLOAD"}>>,
  \* a loop, a jump forward and a jump into the data of a PUSH
  <<P, {"JUMPDEST"}, V, V, {"JUMPI"}, {"JUMPDEST"}, V, {"JUMP"}>>,
  <<P, {"JUMPSUB"}, {"BEGINSUB"}, {"BEGINSUB"}, {"MSIZE"}, {"RETURNSUB"}>>,
  \* the stack at both of its ends
  <<P, {"PUSH", "DUP1", "POP", "EMPTY"}>> \o
    [i \in 1..3 |-> {"DUP1", "DUP2", "SWAP1", "POP", "LOG1"}],
  \* what is known of the world
  <<V, {"BALANCE", "EXTCODESIZE", "EXTCODEHASH", "BLOCKHASH"},
    {"GAS", "TIMESTAMP", "CALLDATASIZE", "ADDRESS", "PC", "CODESIZE"}, {"GAS", "CALLDATALOAD", "INVALID", "BEGINSUB"}>>
}
===============================================================================
