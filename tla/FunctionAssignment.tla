-------------------------- MODULE FunctionAssignment --------------------------
(***************************************************************************)
(* Which functions of the contract are executed on a saved world state:    *)
(* class FunctionAssignment of fdg/control/function_assignment.py and the   *)
(* graph it asks (fwrg_targets_augmented of fdg/fwrg_manager.py).           *)
(*                                                                         *)
(* A function graph is a partial function from functions to sets of        *)
(* functions; a function outside its domain has no list in the Python      *)
(* dictionary.  assignment_times is a function from functions to counters. *)
(***************************************************************************)
EXTENDS Integers, Sequences, FiniteSets

CONSTANTS
  Functions,          \* the functions with a selector (method_identifiers)
  Fallback,           \* the function without one
  Constructor,        \* the only element of the sequence of a genesis state
  SeqLenLimit,        \* fdg.global_config.seq_len_limit
  TimesLimit,         \* fdg.global_config.execution_times_limit
  ConsiderAllReads,   \* fdg.global_config.flag_consider_all_reads == 1
  AllReads            \* the graph of generate_graph_all_reads

ASSUME NamesAssumption ==
  /\ IsFiniteSet(Functions)
  /\ Fallback \notin Functions
  /\ Constructor \notin Functions \cup {Fallback}

ASSUME LimitsAssumption ==
  /\ SeqLenLimit \in Nat \ {0}
  /\ TimesLimit \in Nat
  /\ ConsiderAllReads \in BOOLEAN

\* Every function a transaction can run: the selectors and the fallback.
Ftns == Functions \cup {Fallback}

ASSUME GraphAssumption == AllReads \in [Ftns -> SUBSET Ftns]

\* The partial graphs fwrg_targets_augmented can be.
PartialGraphs == UNION {[D -> SUBSET Ftns] : D \in SUBSET Ftns}

\* A marker put in place of a list of functions: the contract has only a fallback.
OriginalInstructions == "original_instruction_list"

Children(graph, f) == IF f \in DOMAIN graph THEN graph[f] ELSE {}

\* The functions from which one of targets is reached in at most d edges.
CanReach(graph, targets, d) ==
  LET Reach[n \in 0..d] ==
        IF n = 0 THEN targets
        ELSE Reach[n-1] \cup {f \in Ftns : Children(graph, f) \cap Reach[n-1] # {}}
  IN  IF d < 0 THEN targets ELSE Reach[d]

\* The deep functions that still deserve executions: below the limit, or poorly
\* covered and below twice the limit.
DkLeft(dk, cov, times) ==
  {f \in dk : \/ times[f] < TimesLimit
              \/ times[f] < 2 * TimesLimit /\ cov[f] < 70}

\* Every list handed out is counted.
RecordAssignment(times, fs) ==
  [f \in Ftns |-> IF f \in fs THEN times[f] + 1 ELSE times[f]]

AssignAll == IF Functions = {} THEN {OriginalInstructions} ELSE Functions

FallbackCase(seq) == Functions = {} /\ seq[Len(seq)] = Fallback

\* "children += children_o" extends the list object stored in the graph.
Pollute(graph, f) ==
  IF ConsiderAllReads /\ f \in DOMAIN graph
  THEN [graph EXCEPT ![f] = @ \cup AllReads[f]]
  ELSE graph

\* Functions executed earlier in the sequence, its last one excepted.
Repeated(seq) == {seq[j] : j \in 1..(Len(seq) - 1)}

\* assign_functions: graph is already the polluted one.
AssignFunctions(seq, dk, cov, times, graph, unreachable) ==
  LET last     == seq[Len(seq)]
      children == Children(graph, last)
                    \cup (IF ConsiderAllReads /\ last \in Ftns THEN AllReads[last] ELSE {})
      useful   == children \cap CanReach(graph, DkLeft(dk, cov, times),
                                         SeqLenLimit - Len(seq) - 1)
      orphans  == {f \in unreachable : times[f] < TimesLimit}
  IN  IF FallbackCase(seq) THEN {OriginalInstructions}
      ELSE (useful \cup orphans) \ Repeated(seq)

\* ceil(percent/10 * n)
Share(percent, n) == (percent * n + 9) \div 10

\* The random choices of assign_functions_timeout (bfs, dfs): all wanted functions,
\* or a share of them when there are more than three; of
\* assign_functions_timeout_mine: a share of all functions.
RandomChoices(strategy, percent, wanted) ==
  IF strategy = "mine"
  THEN {S \in SUBSET Functions : Cardinality(S) = Share(percent, Cardinality(Functions))}
  ELSE IF Cardinality(wanted) > 3
       THEN {S \in SUBSET wanted : Cardinality(S) = Share(percent, Cardinality(wanted))}
       ELSE {wanted}

\* The lists the two timeout variants can return.
AssignTimeout(strategy, percent, seq, dk, cov, times, graph) ==
  LET last     == seq[Len(seq)]
      wanted   == DkLeft(dk, cov, times)
      children == (IF last \in Ftns THEN AllReads[last] ELSE {})
                    \cap CanReach(graph, wanted, SeqLenLimit - Len(seq) - 1)
  IN  IF FallbackCase(seq) THEN {{OriginalInstructions}}
      ELSE {S \cup (children \ Repeated(seq)) : S \in RandomChoices(strategy, percent, wanted)}
=============================================================================
