------------------------------ MODULE MCPreparation ------------------------------
(* Contracts for the preprocessing, the graph and the dispatcher. *)
EXTENDS Preparation

-------------------------------------------------------------------------------
(* Dispatchers: the functions are tested one after the other, or in a search tree whose leaves *)
(* have at most leaf functions, with the larger selectors first.                              *)

PUSH(bytes) == [op |-> CHOOSE p \in Push : p = <<"PUSH1", "PUSH2", "PUSH3", "PUSH4">>[Len(bytes)], arg |-> bytes]
I(op) == [op |-> op, arg |-> <<>>]
To(address) == PUSH(<<0, address>>)
Compare(sel, op, to) == <<I("DUP1"), PUSH(Pushed(sel)), I(op), To(to), I("JUMPI")>>

RECURSIVE Tests(_, _, _, _, _, _)
Tests(sels, fs, leaf, at, last, end) ==
  LET half == Len(fs) \div 2
      up == Tests(sels, SubSeq(fs, half + 1, Len(fs)), leaf, at + 5, FALSE, end)
      tag == at + 5 + Len(up)
  IN  IF Len(fs) <= leaf
      THEN FlattenSeq([n \in DOMAIN fs |-> Compare(sels[fs[n]], "EQ", end + 2 * fs[n])])
             \o (IF last THEN <<>> ELSE <<To(end), I("JUMP")>>)
      ELSE Compare(sels[fs[half + 1]], "GT", tag) \o up \o <<I("JUMPDEST")>>
             \o Tests(sels, SubSeq(fs, 1, half), leaf, tag + 1, last, end)

Prologue(end) == <<PUSH(<<4>>), I("CALLDATASIZE"), I("LT"), To(end), I("JUMPI"), PUSH(<<0>>), I("CALLDATALOAD")>>

Compiled(sels, leaf) ==
  LET fs == [n \in DOMAIN sels |-> n]
      Begin(end) == Prologue(end) \o Tests(sels, fs, leaf, 8, TRUE, end)
      end == Len(Begin(0)) + 1
      list == Begin(end) \o <<I("JUMPDEST"), I("REVERT")>> \o FlattenSeq([n \in DOMAIN fs |-> <<I("JUMPDEST"), I("STOP")>>])
  IN  [n \in DOMAIN list |-> [address |-> n, op |-> list[n].op, arg |-> list[n].arg]]

-------------------------------------------------------------------------------
(* Functions *)

Loc(s, form, keys) == [slot |-> s, form |-> form, keys |-> keys]
Plain(s) == Loc(s, "plain", {})
Mapping(s) == Loc(s, "mapping", {})
Keyed(s, k) == Loc(s, "mapping", {k})
S(op, locs, reads, shape, to) == [op |-> op, locs |-> locs, reads |-> reads, shape |-> shape, to |-> to]
SSTORE(locs) == S("SSTORE", locs, {}, "compared", 0)
SLOAD(l) == S("SLOAD", <<l>>, {}, "compared", 0)
JUMPI(reads, to) == S("JUMPI", <<>>, reads, "compared", to)
Op(op) == S(op, <<>>, {}, "compared", 0)

\* require(reads); write
Guarded(reads, locs) == <<JUMPI(reads, 3), Op("REVERT"), Op("JUMPDEST")>> \o [n \in DOMAIN locs |-> SSTORE(<<locs[n]>>)] \o <<Op("STOP")>>

Sels == <<<<0, 0, 1, 2>>, <<0, 3, 1, 1>>, <<2, 0, 0, 0>>, <<3, 1, 1, 1>>, <<9, 9, 9, 9>>>>

\* The conditional jumps to each of n functions.
RECURSIVE Jumps(_, _)
Jumps(n, leaf) ==
  LET half == n \div 2
  IN  IF n <= leaf THEN [f \in 1..n |-> f]
      ELSE [f \in 1..n |-> 1 + IF f <= half THEN Jumps(half, leaf)[f] ELSE Jumps(n - half, leaf)[f - half]]

Contract(bodies, leaf, stores, guided) ==
  [guided |-> guided, functions |-> bodies,
   entry |-> [f \in DOMAIN bodies |-> 1 + Jumps(Len(bodies), leaf)[f]], selectors |-> SubSeq(Sels, 1, Len(bodies)), code |-> Compiled(SubSeq(Sels, 1, Len(bodies)), leaf), stores |-> stores]

Nothing == <<Op("STOP")>>
Dispatchers == {Contract([f \in 1..n |-> Nothing], leaf, <<>>, FALSE) : n \in 1..5, leaf \in {1, 2, 5}}

\* A loop that writes another slot each time, and conditions of all kinds.
Loop(reads) ==
  <<Op("JUMPDEST"), JUMPI(reads, 5), SSTORE(<<Plain(1), Mapping(2)>>), S("JUMP", <<>>, {}, "compared", 1), Op("JUMPDEST"),
    SLOAD(Mapping(3)), S("JUMPI", <<>>, {Plain(1)}, "long", 9), SSTORE(<<Loc(7, "unknown", {})>>),
    Op("JUMPDEST"), SSTORE(<<Mapping(3)>>), Op("STOP")>>
ReadSets == {{Plain(1)}, {Mapping(2)}, {Plain(4), Plain(5)}, {Plain(1), Mapping(2)}, {}}
Loops == {Contract(<<Loop(c), Guarded(d, <<Plain(1)>>), Nothing>>, 5, s, TRUE) :
            c \in ReadSets, d \in ReadSets, s \in {<<>>, <<Plain(1)>>, <<Mapping(2), Plain(1)>>}}

\* Functions that wait for the slots of others; the last one is deep.
Guards(r) == IF r = 0 THEN {} ELSE {Plain(r)}
Sets(w) == IF w = 0 THEN <<>> ELSE <<Plain(w)>>
Chains == {Contract([f \in 1..4 |-> IF f = 4 THEN Guarded({Plain(3)}, <<>>) ELSE Guarded(Guards(r[f]), Sets(w[f]))], 5, <<Plain(9)>>, TRUE) :
             r \in [1..3 -> 0..2], w \in {<<1, 2, 3>>, <<1, 3, 2>>, <<2, 1, 1>>}}

\* Two ways to the last function.
Both(a, b, c, d) ==
  Contract(<<Guarded({}, <<Plain(1)>>), Guarded(a, <<Plain(2)>>), Guarded(b, <<Plain(3)>>), Guarded(c, <<Plain(4)>>),
             Guarded(d, <<>>)>>, 2, <<Plain(9)>>, TRUE)
Ways == {Both(a, b, c, d) : a \in {{Plain(1)}, {Plain(1), Plain(4)}}, b \in {{Plain(1)}, {Plain(2)}, {Plain(3)}},
                           c \in {{Plain(1)}, {Plain(1), Plain(3)}}, d \in {{Plain(3), Plain(4)}, {Plain(2), Plain(4)}}}

\* Keys that read the storage, conditions that are nothing but a read, and a function with so many
\* conditional jumps that max_depth cuts it off.
Bare(l, to) == S("JUMPI", <<>>, {l}, "bare", to)
Asking(jump, l) == <<jump, Op("REVERT"), Op("JUMPDEST"), SSTORE(<<l>>), Op("STOP")>>
Keys == {Contract(<<Asking(JUMPI({l}, 3), l), Asking(Bare(l, 3), k)>>, 5, <<Plain(1)>>, TRUE) :
           l \in {Keyed(2, 1), Mapping(2)}, k \in {Keyed(3, 1), Plain(3)}}
Steep(n) == [k \in 1..n |-> JUMPI({Plain(k)}, k + 1)] \o <<SSTORE(<<Plain(1)>>), Op("STOP")>>
Deeps == {Contract(<<Steep(n), Guarded({Plain(1)}, <<Plain(2)>>)>>, 5, <<Plain(9)>>, TRUE) : n \in 3..5}

MCContracts == Dispatchers \cup Loops \cup Chains \cup Ways \cup Keys \cup Deeps
MCInterruptible == Loops

\* Within the bound, every loop meets the locations of its second iteration, too.
ASSUME LoopsAssumption ==
  \A c \in MCContracts : \A f \in DOMAIN c.functions : \A pc \in Reachable(c.functions[f]) :
    c.functions[f][pc].op = "SSTORE" =>
      \A n \in 2..Len(c.functions[f][pc].locs) : Visits(c, f, pc, n, <<1, 2, 3, 4, 1, 2, 3>>)
===============================================================================
