---------------------------- MODULE GuidedExecution ----------------------------
(***************************************************************************)
(* The guided exploration loop: LaserEVM._execute_transactions_fdg         *)
(* (mythril/laser/ethereum/svm.py), the start and stop hooks of FDG_pruner *)
(* (fdg/fdg_pruner.py), the Guider (fdg/control/guider.py) and the bfs, dfs *)
(* and mine strategies (fdg/control/ftn_search_strategy.py, mine.py).       *)
(*                                                                         *)
(* One round of the loop is StartX ; AssignX* ; Execute ; StopX.  The       *)
(* program is single threaded: pc says which part runs next.  What the      *)
(* symbolic execution of a transaction finds (end states, coverage,         *)
(* timeouts) is a nondeterministic choice.                                  *)
(*                                                                         *)
(* A queue is a set of keys: keys are appended in the order of their index, *)
(* so the head of a FIFO queue is the least index and the top of a stack    *)
(* the greatest.                                                            *)
(***************************************************************************)
EXTENDS FunctionAssignment

CONSTANTS
  Strategy,          \* fdg.global_config.function_search_strategy
  P1DL,              \* fdg.global_config.p1_dl, the depth of Phase 1
  TransactionCount,  \* the initial fdg.global_config.transaction_count
  Threshold,         \* fdg.global_config.function_coverage_threshold
  CovLevels,         \* the percentages a coverage can have
  Measured,          \* the functions with a coverage: the preprocessing entered them
  Graphs,            \* the graphs the preprocessing can produce
  Efforts,           \* outcomes of the preprocessing: 0 complete, else timed out
                     \* and the tenths of functions a state is given at random
  SilentEnd,         \* functions that can end by running off their code
  MaxGenesis,        \* bound on the states the constructor ends in
  MaxOpen            \* bound on the states one round of execution ends in

ASSUME StrategyAssumption == Strategy \in {"bfs", "dfs", "mine"}
ASSUME BoundsAssumption ==
  /\ P1DL \in Nat \ {0}
  /\ TransactionCount \in Nat \ {0}
  /\ Threshold \in 0..100
  /\ MaxGenesis \in Nat
  /\ MaxOpen \in Nat
ASSUME DataAssumption ==
  /\ CovLevels \subseteq 0..100
  /\ 0 \in CovLevels
  /\ Measured \subseteq Ftns
  /\ Graphs \subseteq PartialGraphs
  /\ Efforts \subseteq {0, 1, 3, 5, 7}
  /\ SilentEnd \subseteq Ftns

VARIABLES
  pc,           \* what the engine does next
  i,            \* the loop counter of _execute_transactions_fdg
  iteration,    \* FDG_pruner._iteration_
  txCount,      \* fdg.global_config.transaction_count
  openStates,   \* LaserEVM.open_states
  dispatch,     \* the functions the installed instruction list can enter
  saved,        \* strategy.world_states (a key carries its state)
  queue,        \* strategy.queue or strategy.stack
  stateIndex,   \* Guider.state_index
  oneStart,     \* strategy.flag_one_start_function
  termination,  \* Guider.termination
  cov,          \* FunctionCoverage.function_coverage
  contractCov,  \* FunctionCoverage.coverage
  dk,           \* FDG_pruner.depth_k
  times,        \* FunctionAssignment.assignment_times
  graph,        \* UpdateFWRG.fwrg_targets_augmented
  unreachable,  \* UpdateFWRG.dk_not_reachable
  effort,       \* strategy.preprocess_timeout and preprocess_coverage
  timedOut,     \* the execution timeout has passed
  ran,          \* history: the keys whose state was executed
  assigned      \* history: the functions assigned last

loopVars   == <<i, iteration, txCount>>
searchVars == <<saved, queue, stateIndex, oneStart, termination>>
covVars    == <<cov, contractCov>>
assignVars == <<dk, times, graph, unreachable, effort>>
history    == <<ran, assigned>>
vars == <<pc, loopVars, openStates, dispatch, searchVars, covVars, assignVars,
          timedOut, history>>

-------------------------------------------------------------------------------
(* World states and keys *)

\* A world state: the function sequence its annotation records, and the
\* transactions that really produced it.
Genesis == [seq |-> <<>>, path |-> <<>>]
WorldStates == [seq : Seq(Ftns), path : Seq(Ftns)]

Key(ws, n) == [ws |-> ws, idx |-> n]
Keys == [ws : WorldStates, idx : Nat]

\* get_ftn_seq_from_key_1: the key of a state without sequence says constructor.
KeySeq(k) == IF k.ws.seq = <<>> THEN <<Constructor>> ELSE k.ws.seq

\* Mutant: the depth test lets states at the limit in.
KeptAtLimit == {j \in DOMAIN openStates : Len(openStates[j].seq) <= SeqLenLimit}

\* organize_states: states at the maximal depth get neither key nor index.
Kept == {j \in DOMAIN openStates : Len(openStates[j].seq) < SeqLenLimit}

\* Mutant: the index starts again in every round.
OrganizedKeysFromZero ==
  {Key(openStates[j], Cardinality({m \in Kept : m < j})) : j \in Kept}

OrganizedKeys ==
  {Key(openStates[j], stateIndex + Cardinality({m \in Kept : m < j})) : j \in Kept}

\* The part of assign_states that saves new states: bfs and dfs measure the
\* sequence again, mine leaves the genesis states out.
SavedKeys(new) ==
  IF Strategy = "mine"
  THEN {k \in new : Constructor # KeySeq(k)[1]}
  ELSE {k \in new : Len(KeySeq(k)) < SeqLenLimit}

\* Mutant: a state reached by the fallback alone is dropped too.
FallbackTailAnyDepth(seq) == seq[Len(seq)] = Fallback /\ seq[1] = Fallback

\* Sequences of two or more functions mine.filter_states drops.
FallbackTail(seq) ==
  /\ Len(seq) >= 2
  /\ seq[Len(seq)] = Fallback
  /\ seq[1] = Fallback \/ seq[Len(seq) - 1] = Fallback

\* mine.filter_states: of the states of one sequence at least three survive, the
\* others only when their recent writes differ (abstracted to a choice).
Filtered(keys) ==
  LET live    == {k \in keys : ~FallbackTail(KeySeq(k))}
      Group(k) == {l \in live : KeySeq(l) = KeySeq(k)}
  IN  {Q \in SUBSET live :
         \A k \in live : \/ Cardinality(Group(k)) <= 3 /\ Group(k) \subseteq Q
                         \/ Cardinality(Group(k) \cap Q) >= 3}

\* Mutant: pop() in place of pop(0).
CandidatesLast(keys) == {k \in keys : \A l \in keys : l.idx <= k.idx}

\* pop(0) of the queue, pop() of the stack, or the key mine ranks highest
\* (the ranking is abstracted to a choice).
Candidates(keys) ==
  CASE Strategy = "bfs"  -> {k \in keys : \A l \in keys : k.idx <= l.idx}
    [] Strategy = "dfs"  -> {k \in keys : \A l \in keys : l.idx <= k.idx}
    [] Strategy = "mine" -> keys

\* Mutant: the constructor is measured like a function.
DeepFunctionsWithConstructor(c) ==
  {f \in Ftns : c[f] # 0 /\ c[f] < Threshold} \cup {Constructor}

\* compute_deep_functions: a function that was never entered is left out.
DeepFunctions(c) == {f \in Ftns : c[f] # 0 /\ c[f] < Threshold}

\* modity_on_multiple_states: as many functions as selectors restores the original
\* dispatcher; otherwise the selectors of the others are removed, and what matches
\* no selector enters the fallback.
Dispatcher(fs) ==
  IF OriginalInstructions \in fs \/ Cardinality(fs) >= Cardinality(Functions)
  THEN Ftns
  ELSE (fs \cap Functions) \cup {Fallback}

LastOf(seq) == seq[Len(seq)]

\* get_start_sequence and the last functions of its sequences.
StartFunctions ==
  {LastOf(openStates[j].seq) :
     j \in {m \in DOMAIN openStates : openStates[m].seq # <<>>}}

\* Mutant: a round without new states ends the search at any depth.
StrategyTerminationAlways == openStates = <<>>

\* The termination() methods; dfs and mine have the 2 written in.
StrategyTermination ==
  /\ openStates = <<>>
  /\ iteration <= (IF Strategy = "bfs" THEN P1DL + 1 ELSE 2)

-------------------------------------------------------------------------------
(* The guided loop *)

\* The engine after the creation transaction.
Init ==
  /\ pc = "loop"
  /\ i = 0 /\ iteration = 0 /\ txCount = TransactionCount
  /\ \E n \in 0..MaxGenesis : openStates = [j \in 1..n |-> Genesis]
  /\ dispatch = Ftns
  /\ saved = {} /\ queue = {} /\ stateIndex = 0
  /\ oneStart = FALSE /\ termination = FALSE
  /\ cov = [f \in Ftns |-> 0] /\ contractCov = 0
  /\ dk = {} /\ times = [f \in Ftns |-> 0]
  /\ graph = [f \in {} |-> {}] /\ unreachable = {} /\ effort = 0
  /\ timedOut = FALSE
  /\ ran = {} /\ assigned = {}

\* i == 0: both hooks run on a copy of the engine whose plugin is this one, so the
\* iteration and the genesis states of the guider are the only things that stay.
Preprocess ==
  /\ pc = "loop" /\ i = 0 /\ i < txCount
  /\ iteration' = iteration + 1
  /\ i' = i + 1
  /\ IF openStates = <<>>
     THEN /\ txCount' = iteration'
          /\ UNCHANGED <<stateIndex, effort>>
     ELSE /\ stateIndex' = IF Strategy = "mine" THEN stateIndex + Len(openStates)
                                                ELSE stateIndex
          /\ effort' \in Efforts
          /\ UNCHANGED txCount
  /\ UNCHANGED <<pc, openStates, dispatch, saved, queue, oneStart, termination, covVars,
                 dk, times, graph, unreachable, timedOut, history>>

\* The start hook in Phase 1 leaves the open states as they are.
StartPhase1 ==
  /\ pc = "loop" /\ i > 0 /\ i < txCount
  /\ iteration + 1 <= P1DL + 1
  /\ iteration' = iteration + 1
  /\ pc' = "execute"
  /\ UNCHANGED <<i, txCount, openStates, dispatch, searchVars, covVars, assignVars,
                 timedOut, history>>

\* Guider.start_iteration without a state to run, and the hook that called it.
NothingToRun ==
  /\ termination' = TRUE
  /\ txCount' = iteration'
  /\ openStates' = <<>>
  /\ pc' = "execute"
  /\ UNCHANGED <<dispatch, times, history>>

\* Mutant: the executed state is not deleted.
RunKeepsState(k, fs, q, s) ==
  /\ openStates' = <<k.ws>>
  /\ dispatch' = Dispatcher(fs)
  /\ queue' = q \ {k}
  /\ saved' = s
  /\ times' = RecordAssignment(times, fs)
  /\ ran' = ran \cup {k}
  /\ assigned' = fs
  /\ pc' = "execute"
  /\ UNCHANGED <<txCount, termination>>

\* Guider._prepare_states for the one key assign_states returns, q the queue and s
\* the saved states at that moment.
Run(k, fs, q, s) ==
  /\ openStates' = <<k.ws>>
  /\ dispatch' = Dispatcher(fs)
  /\ queue' = q \ {k}
  /\ saved' = s \ {k}
  /\ times' = RecordAssignment(times, fs)
  /\ ran' = ran \cup {k}
  /\ assigned' = fs
  /\ pc' = "execute"
  /\ UNCHANGED <<txCount, termination>>

StartPhase2 ==
  /\ pc = "loop" /\ i > 0 /\ i < txCount
  /\ iteration + 1 > P1DL + 1
  /\ iteration' = iteration + 1
  /\ dk' = DeepFunctions(cov)
  /\ stateIndex' = stateIndex + Cardinality(Kept)
  /\ UNCHANGED <<i, covVars, graph, unreachable, effort, timedOut>>

\* assign_states_normal of mine returns before it looks at the new states.
StartNoTarget ==
  /\ StartPhase2
  /\ Strategy = "mine" /\ effort = 0 /\ dk' = {}
  /\ NothingToRun
  /\ UNCHANGED <<saved, queue, oneStart>>

\* The new states are saved and queued; with one start function the first state is
\* given every function, whatever its queue holds.
StartWithStates ==
  /\ StartPhase2
  /\ ~(Strategy = "mine" /\ effort = 0 /\ dk' = {})
  /\ LET new == SavedKeys(OrganizedKeys)
         s   == saved \cup new
     IN  \E q \in IF Strategy = "mine" /\ OrganizedKeys # {} THEN Filtered(queue \cup new)
                                                            ELSE {queue \cup new} :
           IF oneStart
           THEN /\ oneStart' = FALSE
                /\ \/ \E k \in Candidates(q) : Run(k, AssignAll, q, s)
                   \/ /\ q = {}
                      /\ pc' = "crashed"
                      /\ saved' = s /\ queue' = q
                      /\ UNCHANGED <<txCount, openStates, dispatch, termination, times, history>>
           ELSE /\ saved' = s /\ queue' = q /\ pc' = "assign"
                /\ UNCHANGED <<txCount, openStates, dispatch, oneStart, termination, times,
                               history>>

\* Mutant: the key is read and not popped.
PeekQueue(k) == queue

Dequeue(k) == queue \ {k}

\* One turn of the loop of assign_states: pop a key, ask for its functions.
Assign ==
  /\ pc = "assign"
  /\ \E k \in Candidates(queue) :
       LET seq   == KeySeq(k)
           g     == IF effort = 0 /\ ~FallbackCase(seq) THEN Pollute(graph, seq[Len(seq)])
                                                       ELSE graph
           lists == IF effort = 0
                    THEN {AssignFunctions(seq, dk, cov, times, g, unreachable)}
                    ELSE AssignTimeout(Strategy, effort, seq, dk, cov, times, graph)
       IN  \E fs \in lists :
             /\ graph' = g
             /\ IF fs = {}
                THEN /\ queue' = Dequeue(k)
                     /\ UNCHANGED <<pc, txCount, openStates, dispatch, saved, termination,
                                    times, history>>
                ELSE Run(k, fs, queue, saved)
  /\ UNCHANGED <<i, iteration, stateIndex, oneStart, covVars, dk, unreachable, effort,
                 timedOut>>

AssignNothing ==
  /\ pc = "assign"
  /\ queue = {}
  /\ termination' = TRUE
  /\ txCount' = iteration
  /\ openStates' = <<>>
  /\ pc' = "execute"
  /\ UNCHANGED <<i, iteration, dispatch, saved, queue, stateIndex, oneStart, covVars,
                 assignVars, timedOut, history>>

-------------------------------------------------------------------------------
(* Execution of the open states and the end of the round *)

After(ws, f) == [seq |-> Append(ws.seq, f), path |-> Append(ws.path, f)]

\* The annotation gets the function at a STOP or RETURN only.
SilentAfter(ws, f) == [seq |-> ws.seq, path |-> Append(ws.path, f)]

Successors ==
  LET S == {openStates[j] : j \in DOMAIN openStates}
  IN  {After(ws, f) : ws \in S, f \in dispatch}
        \cup {SilentAfter(ws, f) : ws \in S, f \in dispatch \cap SilentEnd}

\* execute_message_call.  A function that ran to its end is covered in part, and the
\* contract is covered when all its functions are.  Once the execution timeout has passed the worklist loop
\* returns before its first state.  No function creates a contract whose constructor runs off its code:
\* world_state_filter_hook would take it for the creation and set _iteration_ to 0.
Execute ==
  /\ pc = "execute"
  /\ pc' = "stop"
  /\ IF openStates = <<>> \/ timedOut
     THEN openStates' = <<>> /\ UNCHANGED <<covVars, timedOut>>
     ELSE /\ \E n \in 0..MaxOpen : openStates' \in [1..n -> Successors]
          /\ cov' \in [Ftns -> CovLevels]
          /\ \A f \in Ftns : cov[f] <= cov'[f] /\ (f \notin Measured => cov'[f] = cov[f])
          /\ \A j \in DOMAIN openStates' : LastOf(openStates'[j].path) \in Measured
                                           => cov'[LastOf(openStates'[j].path)] # 0
          /\ contractCov' \in {c \in CovLevels : contractCov <= c}
          /\ contractCov' = 100 => \A f \in Measured : cov'[f] = 100
          /\ timedOut' \in BOOLEAN
  /\ UNCHANGED <<loopVars, dispatch, searchVars, assignVars, history>>

\* Mutant: coverage ends the search whatever the flag says.
CoveredIgnoringFlag(flag) ==
  /\ contractCov >= Threshold
  /\ Strategy = "mine" => contractCov >= Threshold + 1

\* Enough of the contract is covered, and no state still waits for its extra round.
Covered(flag) ==
  /\ contractCov >= Threshold
  /\ Strategy = "mine" => contractCov >= Threshold + 1
  /\ ~flag

\* Mutant: the plugin counts one iteration too many.
EndRoundLate ==
  /\ i' = i + 1
  /\ pc' = "loop"
  /\ txCount' = IF termination' \/ Covered(oneStart') THEN iteration + 1 ELSE txCount

\* The last lines of the stop hook, and of the loop body.
EndRound ==
  /\ i' = i + 1
  /\ pc' = "loop"
  /\ txCount' = IF termination' \/ Covered(oneStart') THEN iteration ELSE txCount

\* Depth 1 left no state.
StopNoState ==
  /\ pc = "stop"
  /\ iteration = 2 /\ openStates = <<>>
  /\ txCount' = iteration
  /\ i' = i + 1
  /\ pc' = "loop"
  /\ UNCHANGED <<iteration, openStates, dispatch, searchVars, covVars, assignVars, timedOut,
                 history>>

StopPhase1 ==
  /\ pc = "stop"
  /\ ~(iteration = 2 /\ openStates = <<>>)
  /\ iteration <= P1DL
  /\ UNCHANGED <<termination, oneStart>>
  /\ EndRound
  /\ UNCHANGED <<iteration, openStates, dispatch, saved, queue, stateIndex, covVars,
                 assignVars, timedOut, history>>

\* The end of Phase 1: the graph is built and the strategy is initialized.
StopLastOfPhase1 ==
  /\ pc = "stop"
  /\ ~(iteration = 2 /\ openStates = <<>>)
  /\ iteration = P1DL + 1
  /\ termination' = StrategyTermination
  /\ IF termination'
     THEN UNCHANGED <<oneStart, dk, times, graph, unreachable>>
     ELSE /\ dk' = DeepFunctions(cov)
          /\ oneStart' = (Cardinality(StartFunctions) = 1)
          /\ times' = [f \in Ftns |-> 0]
          /\ graph' \in Graphs
          /\ unreachable' \in SUBSET dk'
          /\ \A f \in dk' : (\A g \in Ftns : f \notin Children(graph', g)) => f \in unreachable'
  /\ EndRound
  /\ UNCHANGED <<iteration, openStates, dispatch, saved, queue, stateIndex, covVars, effort,
                 timedOut, history>>

StopPhase2 ==
  /\ pc = "stop"
  /\ ~(iteration = 2 /\ openStates = <<>>)
  /\ iteration > P1DL + 1
  /\ termination' = StrategyTermination
  /\ UNCHANGED oneStart
  /\ EndRound
  /\ UNCHANGED <<iteration, openStates, dispatch, saved, queue, stateIndex, covVars,
                 assignVars, timedOut, history>>

LoopExit ==
  /\ pc = "loop"
  /\ i >= txCount
  /\ pc' = "done"
  /\ UNCHANGED <<loopVars, openStates, dispatch, searchVars, covVars, assignVars, timedOut,
                 history>>

\* The engine has returned, or an exception has ended it.
Finished == pc \in {"done", "crashed"} /\ UNCHANGED vars

Next ==
  \/ Preprocess \/ StartPhase1 \/ StartNoTarget \/ StartWithStates
  \/ Assign \/ AssignNothing \/ Execute
  \/ StopNoState \/ StopPhase1 \/ StopLastOfPhase1 \/ StopPhase2
  \/ LoopExit \/ Finished

Spec == Init /\ [][Next]_vars

\* Every call returns: the symbolic execution of a round is bounded by max_depth and
\* the execution timeout, everything else is straight-line code.
FairSpec == Spec /\ WF_vars(Next)

-------------------------------------------------------------------------------
(* Properties *)

\* The state of the plugin, the guider and the strategy keeps its types.
TypeOK ==
  /\ pc \in {"loop", "assign", "execute", "stop", "done", "crashed"}
  /\ i \in Nat /\ iteration \in Nat /\ txCount \in Nat
  /\ openStates \in Seq(WorldStates)
  /\ dispatch \subseteq Ftns
  /\ saved \subseteq Keys /\ queue \subseteq Keys /\ ran \subseteq Keys
  /\ stateIndex \in Nat
  /\ oneStart \in BOOLEAN /\ termination \in BOOLEAN /\ timedOut \in BOOLEAN
  /\ cov \in [Ftns -> 0..100] /\ contractCov \in 0..100
  /\ dk \subseteq Ftns /\ unreachable \subseteq Ftns
  /\ times \in [Ftns -> Nat]
  /\ graph \in PartialGraphs
  /\ effort \in {0, 1, 3, 5, 7}
  /\ assigned \subseteq Ftns \cup {OriginalInstructions}

\* A queued key always finds its state in world_states, the keys of two states never
\* collide although state_index is advanced in one class and read in another, a state
\* that was executed is neither stored nor queued again, and no stored state is at the
\* maximal depth.
KeysSound ==
  /\ queue \subseteq saved
  /\ saved \cap ran = {}
  /\ \A k \in saved \cup ran : k.idx < stateIndex
  /\ \A k, l \in saved \cup ran : k.idx = l.idx => k = l
  /\ \A k \in saved : Len(k.ws.seq) < SeqLenLimit

\* The plugin stops the engine by writing its own iteration number into
\* transaction_count, the bound of a counter it does not own: the loop must stop at
\* its very next test, whichever hook decided.
StopsOnceDecided ==
  pc = "loop" /\ txCount # TransactionCount => i >= txCount

\* --seq-len-limit, "set the maximum sequence length to be executed": no open state is
\* the result of more transactions than that.
PathsWithinLimit ==
  \A j \in DOMAIN openStates : Len(openStates[j].path) <= SeqLenLimit

\* Breadth first: a state waiting in the queue is never at a smaller depth than a
\* state already executed, although states of two depths share the queue.
BfsLayers ==
  \A k \in ran, l \in queue : Len(KeySeq(k)) <= Len(KeySeq(l))

\* The guided search gives up states it could still extend for a reason only: every
\* function it measures is covered, the contract is, or the iterations are used up.
StopsWithReason ==
  pc = "done" /\ (queue # {} \/ Kept # {}) =>
     \/ DeepFunctions(cov) = {}
     \/ contractCov >= Threshold
     \/ i >= TransactionCount

\* The stop hook's "make sure that when there is only one state generated at depth1,
\* the execution does not terminate": the flag is down when the loop ends, so the
\* extra round with every function was run.
OneStartContinues ==
  pc = "done" /\ i < TransactionCount => ~oneStart

\* The state popped for the extra round (mine.py: "assign the only state") exists:
\* pop() never meets an empty queue.
NoCrash == pc # "crashed"

\* The loop ends.
Terminates == <>(pc \in {"done", "crashed"})

\* The search as an abstract life of its states.  A state that is stored and not queued
\* was dropped: assign_states or a filter took its key away.
Lifecycle == INSTANCE StateLifecycle WITH
  waiting  <- queue,
  executed <- ran,
  dropped  <- saved \ queue,
  halted   <- pc \in {"done", "crashed"}

\* Every state is executed at most once and alone, and none is lost: it waits, was
\* executed, or was dropped for good.
ImplementsLifecycle == Lifecycle!Spec
=============================================================================
