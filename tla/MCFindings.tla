------------------------------ MODULE MCFindings ------------------------------
(* Code for the detection modules that follow calls. *)
EXTENDS Findings

I(op, to, gas, third, n) == [op |-> op, to |-> to, gas |-> gas, third |-> third, n |-> n]
Plain(op) == I(op, "fixed", "low", 0, 0)
Require(n) == I("JUMPI", "fixed", "low", 0, n)
Skip(n) == I("JUMPI", "user", "low", 0, n)

Some(n) == {I("CALL", "user", "high", 0, n), I("CALL", "fixed", "high", 1, n), I("DELEGATECALL", "user", "high", 0, n),
            I("CALL", "loaded", "low", 0, n), I("STATICCALL", "fixed", "high", 0, n)}

MCCodes ==
  \* two calls, the first skipped or checked, and an access to the state
  {<<Skip(c), a, b, d, Require(c), Plain("STOP"), Plain("REVERT")>> :
     c \in 0..2, a \in Some(1), b \in Some(2) \cup {I("CALL", "user", "high", 1, 2), I("CALLCODE", "precompile", "high", 0, 2)},
     d \in {I("SSTORE", "user", "low", 0, 0), Plain("SLOAD"), Plain("CREATE"), Require(1)}}
  \cup {<<Skip(1), a, Skip(2), I("CALL", "fixed", "high", 0, 2), I("CALL", "user", "low", 1, 3), Plain("RETURN")>> : a \in Some(1)}
  \* a call on which the paths of a fork agree, and end one by one
  \cup {<<a, Skip(c), b, Plain("STOP")>> : a \in Some(1), c \in 0..1, b \in {Plain("SSTORE"), Plain("SLOAD"), Plain("CREATE")}}
  \cup {<<Require(c), I("JUMP", t, "low", 0, 3), I("LOG1", t, "low", 0, 0), Skip(1), Plain("INVALID"), Plain("SELFDESTRUCT")>> :
          c \in 0..1, t \in {"user", "fixed"}}

\* One contract, or two with the same or with other code.
Two == {<<a, Skip(c), Plain("SSTORE"), Plain("STOP")>> : a \in Some(1), c \in 0..1}
MCSessions == {<<c>> : c \in MCCodes} \cup {<<c, d>> : c \in Two, d \in Two}
===============================================================================
