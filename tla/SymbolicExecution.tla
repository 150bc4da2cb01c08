--------------------------- MODULE SymbolicExecution ---------------------------
(***************************************************************************)
(* The symbolic virtual machine LaserEVM (mythril/laser/ethereum/svm.py):  *)
(* the worklist loop exec, execute_state, the frames of nested calls       *)
(* (handle_vm_exception, _end_message_call), the creation transaction and   *)
(* the rounds of _execute_transactions, with the two plugins that drop      *)
(* states, MutationPruner and CallDepthLimit.                               *)
(*                                                                         *)
(* An instruction is reduced to what it does to the path: a JUMPI forks it  *)
(* with a fresh literal and its negation, a call pushes the state object    *)
(* that executed it, which all paths of the callee then share by reference. *)
(* Frames therefore live in a heap, and a path holds their indices.         *)
(***************************************************************************)
EXTENDS Integers, Sequences, FiniteSets

CONSTANTS
  Search,            \* the search strategy: "dfs", "bfs" or "random"
  TransactionCount,  \* LaserEVM.transaction_count
  MaxDepth,          \* --max-depth
  CallDepthLimit,    \* --call-depth-limit
  CallKinds,         \* the call opcodes the contract uses
  Events,            \* the events that can happen, see AllEvents
  MaxForks,          \* bound on the forks of a run
  MaxCalls           \* bound on the calls of a run

AllEvents == {
  "create_timeout",    \* the creation takes longer than create_timeout
  "execution_timeout", \* the execution timeout passes
  "callee_failure",    \* a nested call ends in a VmException
  "callee_off_code",   \* a nested call runs off its code
  "solver_timeout",    \* the solver gives up on a satisfiable path condition
  "loop_bound",        \* a path is in a loop for too long
  "selfdestruct",      \* the contract destroys itself
  "unimplemented"}     \* an instruction raises NotImplementedError

ASSUME SearchAssumption ==
  /\ Search \in {"dfs", "bfs", "random"}
  /\ CallKinds \subseteq {"CALL", "STATICCALL", "DELEGATECALL"}
  /\ Events \subseteq AllEvents
ASSUME BoundAssumption ==
  /\ TransactionCount \in Nat
  /\ MaxDepth \in Nat
  /\ CallDepthLimit \in Nat
  /\ MaxForks \in Nat
  /\ MaxCalls \in Nat

VARIABLES
  phase,      \* "creation", "message" (exec is running), "between" rounds, "done"
  round,      \* the loop counter of _execute_transactions
  work,       \* work_list
  openStates, \* open_states
  frames,     \* the heap of caller states
  expired,    \* the execution timeout has passed
  forks,      \* forks so far: the source of fresh literals
  lostWrites  \* history: the mutation pruner dropped a state whose storage changed

vars == <<phase, round, work, openStates, frames, expired, forks, lostWrites>>

-------------------------------------------------------------------------------
(* Paths *)

Literals == [fork : 1..MaxForks, side : BOOLEAN]

\* A global state.
\*   cond      the path condition (world_state.constraints)
\*   callers   transaction_stack without its first element, as heap indices
\*   mutation  it carries a MutationAnnotation
\*   wrote     the storage really changed in this transaction
\*   static    it is inside a STATICCALL
\*   issued    history: the round that issued its transaction, 0 for the creation
\*   mixed     history: for a caller, a failing callee has resumed it; for a path, it has
\*             gone on from such a caller
Paths == [cond : SUBSET Literals, callers : Seq(1..MaxCalls), depth : Nat, mutation : BOOLEAN,
          wrote : BOOLEAN, static : BOOLEAN, issued : Nat, creation : BOOLEAN,
          mixed : BOOLEAN]

\* A world state in open_states.
OpenStates == [cond : SUBSET Literals, issued : Nat, dead : BOOLEAN, mixed : BOOLEAN]

Consistent(cond) == \A l \in cond : [l EXCEPT !.side = ~@] \notin cond

Incompatible(c, d) == \E l \in c : [l EXCEPT !.side = ~@] \in d

Last(s) == s[Len(s)]
Front(s) == SubSeq(s, 1, Len(s) - 1)
Without(s, k) == SubSeq(s, 1, k - 1) \o SubSeq(s, k + 1, Len(s))

\* pop() and pop(0) of the work list; the random strategies take any state.
Positions ==
  CASE Search = "dfs"    -> {Len(work)} \ {0}
    [] Search = "bfs"    -> {1} \cap DOMAIN work
    [] Search = "random" -> DOMAIN work

\* The global state with which a transaction of a round starts on a world state.
Transaction(ws, issued) ==
  [cond |-> ws.cond, callers |-> <<>>, depth |-> 0, mutation |-> FALSE, wrote |-> FALSE,
   static |-> FALSE, issued |-> issued, creation |-> issued = 0, mixed |-> ws.mixed]

EmptyWorld == [cond |-> {}, issued |-> 0, dead |-> FALSE, mixed |-> FALSE]

-------------------------------------------------------------------------------
(* One turn of the loop of exec *)

Init ==
  /\ phase = "creation" /\ round = 0
  /\ work = <<Transaction(EmptyWorld, 0)>>
  /\ openStates = <<>> /\ frames = <<>>
  /\ expired = FALSE /\ forks = 0 /\ lostWrites = FALSE

Executing == phase \in {"creation", "message"}

\* exec has returned: on to the next transaction.
Returned == phase' = "between"

\* The states BasicSearchStrategy and BoundedLoopsStrategy pop and do not return.
Discard ==
  /\ Executing
  /\ \E k \in Positions :
       /\ work[k].depth >= MaxDepth \/ "loop_bound" \in Events
       /\ work' = Without(work, k)
  /\ UNCHANGED <<phase, round, openStates, frames, expired, forks, lostWrites>>

ExecDone ==
  /\ Executing
  /\ work = <<>>
  /\ Returned
  /\ UNCHANGED <<round, work, openStates, frames, expired, forks, lostWrites>>

\* _check_create_termination, _check_execution_termination
TimedOut ==
  IF phase = "creation" /\ openStates # <<>>
  THEN "create_timeout" \in Events
  ELSE "execution_timeout" \in Events

\* Mutant: the time starts anew with each round.
TimeoutOfRound ==
  /\ Executing
  /\ TimedOut
  /\ \E k \in Positions : work[k].depth < MaxDepth /\ work' = Without(work, k)
  /\ expired' = FALSE
  /\ Returned
  /\ UNCHANGED <<round, openStates, frames, forks, lostWrites>>

\* The popped state is gone, the others stay in the work list.  _execute_transactions
\* starts the time anew: what a timeout leaves of the creation is executed in round 1.
Timeout ==
  /\ Executing
  /\ TimedOut
  /\ \E k \in Positions : work[k].depth < MaxDepth /\ work' = Without(work, k)
  /\ expired' = (phase = "message")
  /\ Returned
  /\ UNCHANGED <<round, openStates, frames, forks, lostWrites>>

\* The state the loop executes.
Popped(k) == /\ Executing
             /\ ~expired
             /\ work[k].depth < MaxDepth

\* new_states are appended.
Push(k, states) == work' = Without(work, k) \o states

\* add_world_state: the mutation pruner drops the state of a message call without an
\* annotation when its call value is zero.
AddWorldState(s, dead) ==
  LET ws == [cond |-> s.cond, issued |-> s.issued, dead |-> dead, mixed |-> s.mixed]
  IN  \/ /\ openStates' = Append(openStates, ws)
         /\ UNCHANGED lostWrites
      \/ /\ ~s.creation \/ s.callers # <<>>
         /\ ~s.mutation
         /\ UNCHANGED openStates
         /\ lostWrites' = (lostWrites \/ s.wrote)

Unimplemented ==
  /\ "unimplemented" \in Events
  /\ \E k \in Positions : Popped(k) /\ Push(k, <<>>)
  /\ UNCHANGED <<phase, round, openStates, frames, expired, forks, lostWrites>>

\* Mutant: both branches get the condition of the jump.
SideNotNegated(s, side) == [s EXCEPT !.depth = @ + 1,
                                     !.cond = @ \cup {[fork |-> forks + 1, side |-> TRUE]}]

\* jumpi_: the condition or its negation joins the path condition.
Side(s, side) == [s EXCEPT !.depth = @ + 1,
                           !.cond = @ \cup {[fork |-> forks + 1, side |-> side]}]

\* A fork: the fall-through first.  At the rate of the pruning factor both branches are
\* asked for a solution.
Jumpi ==
  /\ forks < MaxForks
  /\ \E k \in Positions :
       /\ Popped(k)
       /\ LET states == <<Side(work[k], FALSE), Side(work[k], TRUE)>>
          IN  \/ Push(k, states)
              \/ ~Consistent(work[k].cond) /\ Push(k, <<>>)
              \/ /\ "solver_timeout" \in Events
                 /\ \E b \in 1..2 : Push(k, <<states[b]>>)
  /\ forks' = forks + 1
  /\ UNCHANGED <<phase, round, openStates, frames, expired, lostWrites>>

\* Mutant: the depth is not counted.
SameDepth(s) == s

Deeper(s) == [s EXCEPT !.depth = @ + 1]

\* jumpi_ with a condition that is constant: one branch, no literal to tell it by.
JumpiConstant ==
  /\ \E k \in Positions : Popped(k) /\ Push(k, <<Deeper(work[k])>>)
  /\ UNCHANGED <<phase, round, openStates, frames, expired, forks, lostWrites>>

\* sstore_, with the pre-hook of the mutation pruner.
Store ==
  /\ \E k \in Positions :
       /\ Popped(k)
       /\ ~work[k].static
       /\ ~(work[k].mutation /\ work[k].wrote)
       /\ Push(k, <<[work[k] EXCEPT !.mutation = TRUE, !.wrote = TRUE]>>)
  /\ UNCHANGED <<phase, round, openStates, frames, expired, forks, lostWrites>>

-------------------------------------------------------------------------------
(* Nested calls *)

\* Mutant: one call too many.
TooDeepLate(kind, s) == kind = "CALL" /\ Len(s.callers) = CallDepthLimit + 1

\* Only CALL is hooked by CallDepthLimit.
TooDeep(kind, s) == kind = "CALL" /\ Len(s.callers) = CallDepthLimit

\* CALL and STATICCALL are hooked by the mutation pruner.
Annotated(kind, s) == [s EXCEPT !.mutation = @ \/ kind \in {"CALL", "STATICCALL"}]

SkipCall ==
  /\ \E k \in Positions, kind \in CallKinds :
       Popped(k) /\ TooDeep(kind, work[k]) /\ Push(k, <<>>)
  /\ UNCHANGED <<phase, round, openStates, frames, expired, forks, lostWrites>>

\* TransactionStartSignal: the caller joins the heap, the callee starts without
\* annotations and at depth 0.
Call ==
  /\ Len(frames) < MaxCalls
  /\ \E k \in Positions, kind \in CallKinds :
       LET s == work[k]
       IN  /\ Popped(k)
           /\ ~TooDeep(kind, s)
           /\ frames' = Append(frames, Annotated(kind, s))
           /\ Push(k, <<[s EXCEPT !.callers = Append(@, Len(frames) + 1), !.depth = 0,
                                  !.mutation = FALSE, !.static = @ \/ kind = "STATICCALL"]>>)
  /\ UNCHANGED <<phase, round, openStates, expired, forks, lostWrites>>

\* Mutant: the annotations of the callee are not propagated.
ForgetAnnotation(frame, s) == frame

\* Mutant: _end_message_call works on the frame and not on a copy.
AnnotateAndConstrain(frame, s) ==
  [frame EXCEPT !.mutation = @ \/ s.mutation, !.cond = @ \cup s.cond]

\* return_global_state.add_annotations: the shared frame is annotated.
AddAnnotations(frame, s) == [frame EXCEPT !.mutation = @ \/ s.mutation]

\* _end_message_call on a copy of the frame, the changes kept.
Resume(frame, s) == [frame EXCEPT !.cond = s.cond, !.wrote = s.wrote, !.mixed = @ \/ s.mixed]

\* _end_message_call with revert_changes.
ResumeReverted(frame, s) == [frame EXCEPT !.cond = @ \cup s.cond, !.mixed = @ \/ s.mixed]

\* STOP, RETURN (and REVERT) in a callee.  The post handler of the call may itself
\* raise a VmException, which ends the path.
EndCall ==
  /\ \E k \in Positions :
       LET s     == work[k]
           f     == Last(s.callers)
           frame == AddAnnotations(frames[f], s)
       IN  /\ Popped(k)
           /\ s.callers # <<>>
           /\ frames' = [frames EXCEPT ![f] = frame]
           /\ \/ Push(k, <<Resume(frame, s)>>)
              \/ Push(k, <<ResumeReverted(frame, s)>>)
              \/ Push(k, <<>>)
  /\ UNCHANGED <<phase, round, openStates, expired, forks, lostWrites>>

\* handle_vm_exception in a callee: the frame itself, not a copy, gets the condition
\* of the failing path.
FailInCall ==
  /\ "callee_failure" \in Events
  /\ \E k \in Positions :
       LET s     == work[k]
           f     == Last(s.callers)
           frame == ResumeReverted(frames[f], s)
       IN  /\ Popped(k)
           /\ s.callers # <<>>
           /\ frames' = [frames EXCEPT ![f] = [frame EXCEPT !.mixed = TRUE]]
           /\ Push(k, <<frame>>) \/ Push(k, <<>>)
  /\ UNCHANGED <<phase, round, openStates, expired, forks, lostWrites>>

-------------------------------------------------------------------------------
(* The end of a transaction *)

\* STOP or RETURN; a creation must return code.  SELFDESTRUCT ends like STOP.
EndTransaction ==
  /\ \E k \in Positions :
       LET s == work[k]
       IN  /\ Popped(k)
           /\ s.callers = <<>>
           /\ Push(k, <<>>)
           /\ \/ \E dead \in {FALSE, ~s.creation /\ "selfdestruct" \in Events} : AddWorldState(s, dead)
              \/ s.creation /\ UNCHANGED <<openStates, lostWrites>>
  /\ UNCHANGED <<phase, round, frames, expired, forks>>

\* REVERT or a VmException in the transaction itself: nothing is left of it.
FailTransaction ==
  /\ \E k \in Positions : Popped(k) /\ work[k].callers = <<>> /\ Push(k, <<>>)
  /\ UNCHANGED <<phase, round, openStates, frames, expired, forks, lostWrites>>

\* The program counter is behind the last instruction: the world state is added,
\* wherever the path is.
OffCode ==
  /\ \E k \in Positions :
       LET s == work[k]
       IN  /\ Popped(k)
           /\ s.callers # <<>> => "callee_off_code" \in Events
           /\ Push(k, <<>>)
           /\ AddWorldState(s, FALSE)
  /\ UNCHANGED <<phase, round, frames, expired, forks>>

-------------------------------------------------------------------------------
(* The rounds *)

\* The open states the reachability check can leave, in their order.
Reachable ==
  {S \in SUBSET DOMAIN openStates :
     /\ \A j \in S : Consistent(openStates[j].cond)
     /\ "solver_timeout" \notin Events =>
          \A j \in DOMAIN openStates : Consistent(openStates[j].cond) => j \in S}

\* The transactions of a round, in the order of their open states: a dead contract is not
\* called.
Setup(S) ==
  LET live == {j \in S : ~openStates[j].dead}
      order == {t \in [1..Cardinality(live) -> live] : \A m, n \in DOMAIN t : m < n => t[m] < t[n]}
  IN  {[n \in DOMAIN t |-> Transaction(openStates[t[n]], round + 1)] : t \in order}

\* Mutant: one round too many.
NextRoundOnceMore ==
  /\ phase = "between"
  /\ round <= TransactionCount
  /\ openStates # <<>>
  /\ \E S \in Reachable : \E states \in Setup(S) : work' = work \o states
  /\ openStates' = <<>>
  /\ round' = round + 1
  /\ phase' = "message"
  /\ UNCHANGED <<frames, expired, forks, lostWrites>>

\* One turn of _execute_transactions up to exec.
NextRound ==
  /\ phase = "between"
  /\ round < TransactionCount
  /\ openStates # <<>>
  /\ \E S \in Reachable : \E states \in Setup(S) : work' = work \o states
  /\ openStates' = <<>>
  /\ round' = round + 1
  /\ phase' = "message"
  /\ UNCHANGED <<frames, expired, forks, lostWrites>>

Finish ==
  /\ phase = "between"
  /\ round >= TransactionCount \/ openStates = <<>>
  /\ phase' = "done"
  /\ UNCHANGED <<round, work, openStates, frames, expired, forks, lostWrites>>

Finished == phase = "done" /\ UNCHANGED vars

Next ==
  \/ Discard \/ ExecDone \/ Timeout \/ Unimplemented
  \/ Jumpi \/ JumpiConstant \/ Store
  \/ SkipCall \/ Call \/ EndCall \/ FailInCall
  \/ EndTransaction \/ FailTransaction \/ OffCode
  \/ NextRound \/ Finish \/ Finished

Spec == Init /\ [][Next]_vars

\* The loop never blocks: each instruction is executed in bounded time.
FairSpec == Spec /\ WF_vars(Next)

-------------------------------------------------------------------------------
(* Properties *)

\* The work list, the open states and the frames keep their types.
TypeOK ==
  /\ phase \in {"creation", "message", "between", "done"}
  /\ round \in 0..TransactionCount
  /\ work \in Seq(Paths) /\ openStates \in Seq(OpenStates)
  /\ frames \in Seq(Paths) /\ Len(frames) <= MaxCalls
  /\ expired \in BOOLEAN /\ lostWrites \in BOOLEAN
  /\ forks \in 0..MaxForks

\* No path is explored twice: any two states that are being executed or wait for the next
\* transaction differ in a branch, over all calls, returns, rounds and leftovers of a
\* timeout.
DistinctPaths ==
  /\ \A j, k \in DOMAIN work : j # k => Incompatible(work[j].cond, work[k].cond)
  /\ \A j, k \in DOMAIN openStates :
       j # k => Incompatible(openStates[j].cond, openStates[k].cond)
  /\ \A j \in DOMAIN work, k \in DOMAIN openStates :
       Incompatible(work[j].cond, openStates[k].cond)

\* "in the case of an exceptional halt all changes should be discarded"
\* (handle_vm_exception): no path condition holds a branch and its negation.  It does not
\* hold: a failing callee leaves its condition on the caller's own state object.
PathsConsistent ==
  /\ \A k \in DOMAIN work : Consistent(work[k].cond)
  /\ \A k \in DOMAIN openStates : Consistent(openStates[k].cond)

\* What _end_message_call keeps apart: the callees that share a caller may return, revert
\* or fail in any order, and only a path that goes on from a caller which a failing callee
\* has resumed before can hold a branch and its negation.
OnlyFailuresMix ==
  /\ \A k \in DOMAIN work : work[k].mixed \/ Consistent(work[k].cond)
  /\ \A k \in DOMAIN openStates : openStates[k].mixed \/ Consistent(openStates[k].cond)

\* MutationPruner: "In a situation where T does not execute any mutating instructions we
\* can safely abandon further analysis": no state whose storage changed is abandoned,
\* wherever in a tree of calls the change was made.
NoWriteLost == ~lostWrites

\* --call-depth-limit, "Maximum call depth limit for symbolic execution".
CallDepthWithinLimit == \A k \in DOMAIN work : Len(work[k].callers) <= CallDepthLimit

\* The rounds whose transactions may end in this one: itself, and for the first one the
\* creation (0) that its timeout had cut off.
Issuing == {round} \cup IF round = 1 /\ "create_timeout" \in Events THEN {0} ELSE {}

\* "Maximum number of transactions issued by laser": a world state that a round leaves comes
\* from a transaction of that round.  The states an execution timeout leaves in the work list,
\* which it shares with the later rounds, do not become world states of those.
RoundsDoNotMix == \A k \in DOMAIN openStates : openStates[k].issued \in Issuing

\* --create-timeout, "The amount of seconds to spend on the initial contract creation": no
\* creation ends in a round.  It does not hold: round 1 executes what the timeout left.
CreationEnds == phase = "message" => \A k \in DOMAIN openStates : openStates[k].issued # 0

\* The engine returns.
Terminates == <>(phase = "done")
===============================================================================
