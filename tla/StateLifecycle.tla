---------------------------- MODULE StateLifecycle ----------------------------
(***************************************************************************)
(* What the guided search promises about the world states it finds,        *)
(* whatever the strategy: a state waits, and is executed or dropped; it is  *)
(* executed once, alone, and never comes back.                             *)
(***************************************************************************)
EXTENDS Naturals

VARIABLES
  waiting,   \* found and not yet executed
  executed,  \* executed
  dropped,   \* given up without being executed
  halted     \* the search is over

vars == <<waiting, executed, dropped, halted>>

Init ==
  /\ waiting = {} /\ executed = {} /\ dropped = {}
  /\ halted = FALSE

\* States are found, some are given up, at most one is executed.
Advance ==
  /\ ~halted
  /\ halted' \in BOOLEAN
  /\ executed \subseteq executed' /\ dropped \subseteq dropped'
  /\ waiting \subseteq waiting' \cup executed' \cup dropped'
  /\ \A s, t \in executed' \ executed : s = t
  /\ waiting' \cap executed' = {}
  /\ waiting' \cap dropped' = {}
  /\ dropped' \cap executed' = {}

Spec == Init /\ [][Advance]_vars
=============================================================================
