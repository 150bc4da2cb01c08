--------------------------------- MODULE Words ---------------------------------
(***************************************************************************)
(* The arithmetic, comparison and bit instructions of the symbolic machine   *)
(* (mythril/laser/ethereum/instructions.py), on words of W bits and bytes of *)
(* B bits.                                                                   *)
(*                                                                           *)
(* An operand is the value a term has on the path under consideration, and   *)
(* whether the term is symbolic: a handler may look at the value of a        *)
(* constant only.  A result is the set of values the path condition leaves.  *)
(***************************************************************************)
EXTENDS Integers

CONSTANTS
  W,   \* bits of a word: 256
  B    \* bits of a byte: 8

ASSUME WidthAssumption == B \in Nat \ {0} /\ W \in Nat /\ W > B /\ W % B = 0

TwoTo[n \in Nat] == IF n = 0 THEN 1 ELSE 2 * TwoTo[n - 1]

Size  == TwoTo[W]
Bytes == W \div B
Word  == 0..(Size - 1)
Operands == [v : Word, sym : BOOLEAN]

Wrap(n) == n % Size
Signed(a) == IF a < Size \div 2 THEN a ELSE a - Size
Bit(cond) == IF cond THEN 1 ELSE 0
Truncated(a, b) ==
  LET Magnitude(n) == IF n < 0 THEN -n ELSE n
      q == Magnitude(a) \div Magnitude(b)
  IN  IF (a < 0) = (b < 0) THEN q ELSE -q

Digit(a, n) == (a \div TwoTo[n]) % 2
And(a, b) ==
  LET low[n \in 0..W] == IF n = 0 THEN 0
                         ELSE low[n - 1] + Digit(a, n - 1) * Digit(b, n - 1) * TwoTo[n - 1]
  IN  low[W]
Or(a, b)  == a + b - And(a, b)
Xor(a, b) == a + b - 2 * And(a, b)

-------------------------------------------------------------------------------
(* The operators of the solver: division by zero is total. *)

UDiv(a, b) == IF b = 0 THEN Size - 1 ELSE a \div b
URem(a, b) == IF b = 0 THEN a ELSE a % b
SDiv(a, b) == IF b = 0 THEN Bit(Signed(a) < 0) + (Size - 1) * Bit(Signed(a) >= 0)
              ELSE Wrap(Truncated(Signed(a), Signed(b)))
SRem(a, b) == IF b = 0 THEN a
              ELSE Wrap(Signed(a) - Signed(b) * Truncated(Signed(a), Signed(b)))
ShiftLeft(a, n)  == IF n >= W THEN 0 ELSE Wrap(a * TwoTo[n])
ShiftRight(a, n) == IF n >= W THEN 0 ELSE a \div TwoTo[n]
ArithmeticShift(a, n) ==
  IF Signed(a) >= 0 THEN ShiftRight(a, n)
  ELSE IF n >= W THEN Size - 1 ELSE (Size - 1) - ((Size - 1 - a) \div TwoTo[n])

-------------------------------------------------------------------------------
(* The handlers.  x is the top of the stack, y and z are below it. *)

IsZero(y) == ~y.sym /\ y.v = 0

div(x, y)  == IF IsZero(y) THEN 0 ELSE UDiv(x.v, y.v)

\* Mutant: the signed handler divides as the unsigned one.
sdivUnsigned(x, y) == IF IsZero(y) THEN 0 ELSE UDiv(x.v, y.v)

sdiv(x, y) == IF IsZero(y) THEN 0 ELSE SDiv(x.v, y.v)
mod(x, y)  == IF IsZero(y) THEN 0 ELSE URem(x.v, y.v)
smod(x, y) == IF IsZero(y) THEN 0 ELSE SRem(x.v, y.v)

addmod(x, y, z) == URem(Wrap(URem(x.v, z.v) + URem(y.v, z.v)), z.v)
mulmod(x, y, z) == URem(Wrap(URem(x.v, z.v) * URem(y.v, z.v)), z.v)

signextend(x, y) ==
  LET bit == ShiftLeft(1, Wrap(x.v * B + (B - 1)))
  IN  IF Signed(x.v) > Bytes - 1 THEN y.v
      ELSE IF And(y.v, bit) # 0 THEN Or(y.v, Wrap(-bit)) ELSE And(y.v, Wrap(bit - 1))

\* byte_: a symbolic index gives a fresh symbol.
byte(x, y) ==
  IF x.sym THEN Word
  ELSE {IF x.v < Bytes THEN (y.v \div TwoTo[B * (Bytes - 1 - x.v)]) % TwoTo[B] ELSE 0}

Power(a, b) == LET to[n \in 0..b] == IF n = 0 THEN 1 ELSE Wrap(to[n - 1] * a) IN to[b]

\* create_condition: the power is an uninterpreted function unless both are constants.  It is positive,
\* and known for the base 2^B and exponents below the number of bytes; with that base
\* constant, exponents are reduced modulo that number.
exp(x, y) ==
  IF ~x.sym /\ ~y.sym THEN {Power(x.v, y.v)}
  ELSE LET e == IF x.sym THEN y.v ELSE y.v % Bytes
       IN  IF x.v = TwoTo[B] /\ e < Bytes THEN {v \in {Power(x.v, e)} : Signed(v) > 0}
           ELSE {v \in Word : Signed(v) > 0}

Binary == {"ADD", "SUB", "MUL", "DIV", "SDIV", "MOD", "SMOD", "EXP", "SIGNEXTEND", "LT",
           "GT", "SLT", "SGT", "EQ", "AND", "OR", "XOR", "BYTE", "SHL", "SHR", "SAR"}
Unary == {"ISZERO", "NOT"}
Ternary == {"ADDMOD", "MULMOD"}

Simple(op, x, y, z) ==
  CASE op = "ADD"  -> Wrap(x.v + y.v)
    [] op = "SUB"  -> Wrap(x.v - y.v)
    [] op = "MUL"  -> Wrap(x.v * y.v)
    [] op = "DIV"  -> div(x, y)
    [] op = "SDIV" -> sdiv(x, y)
    [] op = "MOD"  -> mod(x, y)
    [] op = "SMOD" -> smod(x, y)
    [] op = "ADDMOD" -> addmod(x, y, z)
    [] op = "MULMOD" -> mulmod(x, y, z)
    [] op = "SIGNEXTEND" -> signextend(x, y)
    [] op = "LT"  -> Bit(x.v < y.v)
    [] op = "GT"  -> Bit(x.v > y.v)
    [] op = "SLT" -> Bit(Signed(x.v) < Signed(y.v))
    [] op = "SGT" -> Bit(Signed(x.v) > Signed(y.v))
    [] op = "EQ"  -> Bit(x.v = y.v)
    [] op = "AND" -> And(x.v, y.v)
    [] op = "OR"  -> Or(x.v, y.v)
    [] op = "XOR" -> Xor(x.v, y.v)
    [] op = "SHL" -> ShiftLeft(y.v, x.v)
    [] op = "SHR" -> ShiftRight(y.v, x.v)
    [] op = "SAR" -> ArithmeticShift(y.v, x.v)
    [] op = "ISZERO" -> Bit(x.v = 0)
    [] op = "NOT" -> Wrap(Size - 1 - x.v)

Results(op, x, y, z) ==
  CASE op = "EXP"  -> exp(x, y)
    [] op = "BYTE" -> byte(x, y)
    [] OTHER       -> {Simple(op, x, y, z)}

-------------------------------------------------------------------------------
(* What the instructions are, over the integers *)

Evm(op, a, b, c) ==
  LET s == Signed(a)  t == Signed(b)
  IN  CASE op = "ADD"  -> (a + b) % Size
        [] op = "SUB"  -> (a - b) % Size
        [] op = "MUL"  -> (a * b) % Size
        [] op = "DIV"  -> IF b = 0 THEN 0 ELSE a \div b
        [] op = "SDIV" -> IF b = 0 THEN 0 ELSE Truncated(s, t) % Size
        [] op = "MOD"  -> IF b = 0 THEN 0 ELSE a % b
        [] op = "SMOD" -> IF b = 0 THEN 0 ELSE (s - t * Truncated(s, t)) % Size
        [] op = "ADDMOD" -> IF c = 0 THEN 0 ELSE (a + b) % c
        [] op = "MULMOD" -> IF c = 0 THEN 0 ELSE (a * b) % c
        [] op = "EXP" -> Power(a, b)
        [] op = "SIGNEXTEND" ->
             IF a >= Bytes THEN b
             ELSE LET m == TwoTo[B * (a + 1)]
                      low == b % m
                  IN  IF 2 * low >= m THEN Size - m + low ELSE low
        [] op = "BYTE" -> IF a >= Bytes THEN 0 ELSE (b \div TwoTo[B * (Bytes - 1 - a)]) % TwoTo[B]
        [] op = "LT"  -> Bit(a < b)
        [] op = "GT"  -> Bit(b < a)
        [] op = "SLT" -> Bit(s < t)
        [] op = "SGT" -> Bit(t < s)
        [] op = "EQ"  -> Bit(a = b)
        [] op = "AND" -> And(a, b)
        [] op = "OR"  -> Or(a, b)
        [] op = "XOR" -> Xor(a, b)
        [] op = "SHL" -> IF a >= W THEN 0 ELSE (b * TwoTo[a]) % Size
        [] op = "SHR" -> IF a >= W THEN 0 ELSE b \div TwoTo[a]
        [] op = "SAR" -> (IF a >= W THEN (IF t < 0 THEN -1 ELSE 0) ELSE t \div TwoTo[a]) % Size
        [] op = "ISZERO" -> Bit(a = 0)
        [] op = "NOT" -> Size - 1 - a

\* Where the handlers are known to differ: a symbolic divisor that is zero, a modulus of
\* zero, an intermediate sum or product that needs more than a word, an index of
\* SIGNEXTEND whose sign bit is set, and a symbolic EXP.
Differs(op, x, y, z) ==
  \/ op \in {"DIV", "SDIV", "MOD", "SMOD"} /\ y.sym /\ y.v = 0
  \/ op \in Ternary /\ z.v = 0
  \/ op = "ADDMOD" /\ z.v # 0 /\ (x.v % z.v) + (y.v % z.v) >= Size
  \/ op = "MULMOD" /\ z.v # 0 /\ (x.v % z.v) * (y.v % z.v) >= Size
  \/ op = "SIGNEXTEND" /\ Signed(x.v) < 0
  \/ op = "EXP" /\ (x.sym \/ y.sym) /\ Signed(Power(x.v, y.v)) <= 0

\* Outside of these cases the values a path can hold after an instruction include the
\* value the Ethereum machine computes, for every pair or triple of operands, constant or
\* symbolic.
Exact(op, x, y, z) ==
  Differs(op, x, y, z) \/ Evm(op, x.v, y.v, z.v) \in Results(op, x, y, z)
===============================================================================
