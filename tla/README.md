# Formal models of smartExecutor

smartExecutor is Mythril with a guided search over sequences of contract
functions. `fdg/` decides which functions run on which saved world state;
`mythril/laser` executes them symbolically; the detection modules of
`mythril/analysis` look at the paths. The modules here are written from that
code; `PROJECT.json` maps every definition to the lines it models.

## 1. The system

| Part | State | Operations | Talks to |
|---|---|---|---|
| Guided loop (`svm.py` `_execute_transactions_fdg`, `fdg_pruner.py`) | loop counter `i`, `_iteration_`, the global `transaction_count` | start and stop hook of every round | the engine by `open_states` and `transaction_count`, the guider by calls |
| Guider (`fdg/control/guider.py`) | `state_index`, `termination`, genesis states | `organize_states`, `start_iteration`, `_prepare_states`, `end_iteration` | strategy, instruction modification |
| Strategies (`ftn_search_strategy.py`, `mine.py`) | `world_states`, queue or stack, `flag_one_start_function` | save, filter, pick a state, assign functions | function assignment, graph |
| Function assignment | `assignment_times` | `assign_functions`, its timeout variants | the function graph (shares its lists) |
| Preprocessing (`fdg/preprocessing`) | tables of accesses, conditions and instructions by function and address | `exec_preprocessing` on a copy of the engine, hooks, a timeout | coverage, graph |
| Function graph (`fwrg_manager.py`) | graphs of reads and writes, acyclic sequences, unreachable deep functions | built once after Phase 1, queried per assignment | preprocessing, coverage |
| Coverage (`function_coverage.py`) | percentage per function and of the contract | recomputed each round | coverage plugin |
| Instruction modification | selector groups of the dispatcher, original instructions | install a dispatcher on a state | shared code objects |
| LaserEVM (`svm.py`) | `work_list`, `open_states`, transaction stacks | `exec`, `execute_state`, ends of calls and transactions | hooks of plugins and detection modules |
| Instructions (`instructions.py`, `call.py`, `transaction_models.py`) | stack, memory, gas, program counter; accounts and balances; frames | one handler per opcode | engine by signals, SMT layer |
| Plugins | annotations on states and world states | hooks before and after opcodes, `add_world_state` | the engine, by skip signals |
| Detection modules, potential issues | issues, caches, annotations on words and states | hooks; solving of potential issues at the end of a transaction | SMT layer, the report |
| Support | signature database, file lock, model cache | lookup, lock | other processes by files |

The program is single threaded. What is hard is not threads but shared
objects and shared counters: the plugin stops a loop it does not own through a
global bound; a caller's state is one object for all paths of its callee;
annotations travel from one transaction to the next by a stack inside the world
state; a dispatcher is rewritten in a code object that copies share; a work list
outlives a timeout; a cache of one path or contract decides for the next one.
`hazards` in `PROJECT.json` lists these places with their lines.

What makes each part right:

* guided loop: it stops when and only when a hook decides, and for a reason;
* guider and strategies: a key always has its state, no state runs twice, none
  is lost without a decision, the length limit holds;
* preprocessing, graph, dispatcher: every slot is found, a deep function is given
  up only if nothing leads to it, a rewritten dispatcher enters the assigned
  functions and no other one, with the stack they expect;
* engine: no path is lost, duplicated or mixed with another one; a state is
  open only when its transaction ended; timeouts end what they limit;
* instructions: on the values of a path they compute what the Ethereum machine
  computes, or are known to approximate;
* detection: what happens on a path that is committed is reported, whatever
  other paths and contracts did before.

## 2. Modules

| Module | Models | Composed with |
|---|---|---|
| `FunctionAssignment` | the rules of assignment and the graph queries, as operators | |
| `GuidedExecution` | guided loop, guider, bfs, dfs, mine | EXTENDS `FunctionAssignment`, INSTANCE `StateLifecycle` |
| `StateLifecycle` | abstract: a saved state waits, is executed once, or is dropped | |
| `SymbolicExecution` | worklist, calls, transactions, rounds of LaserEVM | meets `GuidedExecution` in `open_states` |
| `Annotations` | annotations on states and world states: sequences, written slots, potential issues | same worklist, by object |
| `Words` | arithmetic, comparison, shift and bit instructions, as operators on scaled words | |
| `Machine` | stack, memory, gas, jumps, environment and copies of one path | EXTENDS `Words` |
| `Calls` | call, create and halting instructions, frames, accounts | |
| `Taint` | modules that follow values by annotations: integer, origin, predictable variables | |
| `Findings` | modules that follow calls, accesses and halts; their caches; sessions of several contracts | |
| `Dispatch` | parsing and rewriting of a dispatcher, as operators | |
| `ReadWriteGraph` | the read/write graph and the sequences in it, as operators | |
| `Preparation` | preprocessing, coverage, graph, and round after round of rewritten dispatchers | EXTENDS `ReadWriteGraph`, `Dispatch` |
| `MC...` | instances and programs for TLC | |
| `GuidedExecutionProofs` | theorems about types, keys, limits, the refinement, the order of the search and its reasons to stop | EXTENDS `GuidedExecution` |
| `SymbolicExecutionProofs` | effect of every step; theorems about types, callers, call depth, conditions, marks and rounds of paths | EXTENDS `SymbolicExecution` |
| `AnnotationsProofs` | theorems about potential issues, sequences, written slots and sharing | EXTENDS `Annotations` |
| `MachineProofs` | handlers compute what the instructions are; theorems about stack, memory, lost paths and the price of memory | EXTENDS `Machine` |
| `CallsProofs` | theorems about frames, worlds and answers | EXTENDS `Calls` |
| `TaintProofs` | theorems about followed values | EXTENDS `Taint` |
| `FindingsProofs` | theorems about calls, accesses, attacks and caches | EXTENDS `Findings` |
| `PreparationProofs` | theorems about the preprocessing, the sequences and the edges of the graph | EXTENDS `Preparation` |

`GuidedExecution` treats the execution of a transaction as a choice;
`SymbolicExecution` is that execution, with what an instruction computes as a
choice; `Machine` and `Calls` are the instructions, with one path and values for
its symbols. `Annotations` looks at the objects the states refer to and checks the
`seq` that `GuidedExecution` reads from a world state. `Preparation` makes the
graph and the dispatcher that `GuidedExecution` takes as constants and as a set.

### GuidedExecution

One round is `StartPhase1` or `StartPhase2` (the start hook), `Assign*` (the loop
of `assign_states`), `Execute` (`execute_message_call`) and one `Stop*` action
(the stop hook and `i += 1`). `pc` is the position in that sequence. `Preprocess`
is the round of `i == 0`: both hooks run on a deep copy of the engine, so only
the plugin changes. A world state is the function sequence its annotation
records (`seq`) and the one that really ran (`path`); they differ only for
functions in `SilentEnd`, which run off their code.

Abstractions: the ranking of mine and the choice of `filter_states` among the
fourth and later states of one sequence are nondeterministic; coverage grows by
any amount; the graph is any member of `Graphs`; a queue is a set of keys
ordered by index (keys are appended in that order). The dispatcher is the set of
functions it can enter. Only the mode with a creation transaction is modelled:
with a preconfigured address `contract_address` stays a string and the start hook
returns before it builds anything. `--phase1-depth-limit` is at least 1.

### SymbolicExecution

Each action is one turn of `exec`: pop a state, execute one instruction with its
hooks, append the results. Instructions that only change values are left out.
A JUMPI forks on a fresh literal; literals are independent, so a path condition is
satisfiable unless it holds a literal and its negation. The state that executed a
call goes to the heap `frames`, and every path of the callee refers to it by
index: what the code does to the shared object (`AddAnnotations`, `FailInCall`) is
seen by the other paths. CREATE is a call that no plugin hooks. The post hooks of
the dependency pruner never skip a state in this version (`_check_basic_block`
returns before it looks), so they are not modelled here. Post handlers that raise
a `VmException` are the third disjunct of `EndCall`. `Events` names what may go
wrong in a run. `mixed` and `issued` are history: whether a path goes on from a caller that a failing
callee has resumed before, and which round issued its transaction.

### Annotations

Python copies annotations shallowly, so the subject is who shares what.
`DependencyAnnotation` objects, the sets inside `storage_written` and the lists of
potential issues live in the heaps `objs`, `sets` and `lists`; a state holds an index.
`Copied` is `GlobalState.__copy__`, `Dependency` is `get_dependency_annotation` (own
annotation, else popped from `annotations_stack`, else new), `AddWorldState` pushes it
back. A caller's frame is held by value here: what the paths of a callee share is the
subject of `SymbolicExecution`. History variables record what really happened, and
the properties compare it with what the annotations say: `found` and `missed` are the issues
found in the code of a transaction itself, `inner` and `lost` those found in its callees, whose
annotation does not come back with the return (`persist_over_calls`).

Abstractions: only instructions whose hooks touch an annotation are actions; pruning
is left out because `_check_basic_block` returns before it looks; the keys of
`storage_written` are the iteration and the length of the sequence plus one, as in
`sstore_hook`; what a solver says of a potential issue is a choice; a callee that runs
off its code is left to `SymbolicExecution`. `EarlyStop` says whether a STOP may stand
directly behind a JUMPI. `annotations` excludes that and DELEGATECALLs, which break its
properties; `annotations_stop` and `annotations_proxy` have them.

### Words, Machine, Calls

Two machines run side by side on one path, whose symbols have values: one
does what the handlers do (terms are values with a flag, a handler may look at
the value of a constant only), the other is an Ethereum machine written from its
definition. At a fork the path follows the successor whose condition the values
satisfy. Where a handler is known to approximate, the Ethereum machine gets the
status `"apart"` and the comparison ends: these places are explicit in the
modules and listed in section 5. Everywhere else the properties require equality.

A word has `W` bits and a byte `B` bits, so that overflow, sign, shifts by more
than the width, byte order and the growth of memory all happen with small
numbers; the handlers use the width only through the operations of `Words`. Powers of
two and the bits of a word are recursive functions (`TwoTo`, `And`), so that they can be
reasoned about at every width. The code and the call data of a run are
shorter than what a word and a positive word can count. Gas
has a lower and an upper bound as in the code; `"infeasible"` is a path whose
condition the values contradict.

In `Calls` the accounts are a sender, two contracts, an account without code and
the one a creation adds. Storage and balances are small numbers; an answer is the
result of the call and the size of the return data, `Any` when it is a fresh
symbol. The value and the target of a call may be constants or symbols.

### Taint, Findings

`Taint` gives a word a value for every valuation of the inputs and a reference to
its annotation set, because hooks change the set in place and DUP, the
environment and the states of a fork share it. Beside the annotations every word
carries what its value really depends on. A path that finds too few words on the stack
(`Required`) or runs off its code ends before any hook: the model leaves it where it is.
Memory nobody wrote reads as zero. Overflows that a hook overlooks (`Overlooked`, section 5) do not count.

`Findings` gives a path the set of valuations that satisfy its condition. Instructions without
a hook are left out, and there is one between two calls, so a post hook never finds an issue of
a call under the address behind it. The caches of the modules, the list of potential issues that forks share and the
reset between the contracts of one session are part of the state. A contract
destroyed at the end of a path and calls into loaded contracts (whose post hooks
do not run) are exempted in the properties, which say so.

### Preparation

`Dispatch` scans the instruction list group by group as `InstructionModification`
does, and `Leaves` executes the result; `MCPreparation` builds dispatchers the way
a compiler lays them out, as a chain or a search tree. A function is a list of
statements with storage locations, so that the tables of the preprocessing can be compared with
what its code does. A location is a slot, the form of its expression (a number, a hash, or a text
without a number before a closing bracket) and the variables that its key still reads when the
expression is simplified. `get_slot_from_location_expression` is what the patterns find in such a
text, `Extracted` what `go_deep` meets on its way through a condition: it does not enter a read and
starts below the root. `Dropped` is `TooOften` (the bounded loops) or `Depth`, which counts the
conditional jumps of the path and those of the dispatcher before it (`entry`).
`TargetsFound` and `SequencesCombined` compare the sequences of `AcyclicPath` and
the graph of `UpdateFWRG` with reachability defined on the dependency relation.

## 3. What the runs show

| Run | Shows |
|---|---|
| `bfs` | state keys never collide or dangle, the queue holds states of increasing depth, the loop ends |
| `dfs` | a decision to stop, written into `transaction_count`, stops the loop at its next test; a contract with one start function gets its extra round |
| `mine` | states are given up for a reason only, `pop(0)` never meets an empty queue, no sequence outgrows the limit, the search implements `StateLifecycle` |
| `laser_bfs` | paths of a shared caller that end in all ways: only those that follow a failing one contradict themselves; CALLs stay within their depth, the engine returns |
| `laser_faults` | failing callees and both timeouts: no path twice; a round leaves only states of its own transactions, the first one also those of a creation that was cut off; no written state is pruned |
| `annotations` | recorded sequences and written slots are the real ones, annotation objects are private, every issue found outside of callees is looked at |
| `machine` | stack, memory and its price agree with the Ethereum machine; no path that it executes is lost |
| `calls` | storage, balances, context and answers agree through calls, reverts and creations; a static call writes nothing |
| `taint` | an overflow that is used and committed is reported, and a decision on the origin or the block |
| `findings` | unchecked and repeated calls, state changes behind calls, and attacks are reported, in every order of the paths and sessions |
| `preparation` | rewritten dispatchers behave like the original on the assigned functions; of the slots that can be told from their text the preprocessing misses none; the graph reaches and combines what it should |
| `ether` | violation: SELFDESTRUCT pays its target and leaves the contract its balance |

`ether` is the one run that ends in a violation, a finding of `PROJECT.json`: it states what the comment
at `instructions.py:1981` says, while the handler pays in the balances of the world and takes the
amount off a deep copy of them; `calls` stops its comparison there.

Beside the runs there are configurations that show why a property of a run needs its exception. TLC
finds a counterexample in each of them (`tlc -config <name>.cfg <module>`):

| Configuration (module) | Property | Counterexample |
|---|---|---|
| `laser_failing` (`MCSymbolicExecution`) | `PathsConsistent` | a callee's path that fails leaves its condition to the next one that fails |
| `laser_creation` (`MCSymbolicExecution`) | `CreationEnds` | the first round executes what the creation timeout has left over |
| `laser_depth` (`MCSymbolicExecution`) | `CallDepthWithinLimit` | DELEGATECALLs step over the call depth limit |
| `laser_off_code` (`MCSymbolicExecution`) | `NoWriteLost` | a callee that runs off its code lets a written state be pruned |
| `annotations_callee` (`Annotations`) | `CalleeIssuesChecked` | an issue found in a callee is not looked at |
| `annotations_stop`, `annotations_proxy` (`Annotations`) | `SeqIsPath` | a STOP right behind a JUMPI, or a DELEGATECALL before the first hook, gives a world state a sequence that is not its own |
| `machine_jump` (`MCMachine`) | `NeverTaken` | a jump into the data of a PUSH goes on at the JUMPDEST behind it |
| `preparation_keys` (`MCPreparation`) | `KeysCollected` | what the key of a read mapping reads is not collected |
| `preparation_slots` (`MCPreparation`) | `LastParameters` | the slot of a mapping whose key reads the storage is taken for 0 |

Where the run that passes needs an
exception, it is stated in the property: `OnlyFailuresMix` is `PathsConsistent` for paths that follow
no failing callee, `RoundsDoNotMix` allows the first round to end
a creation that its timeout cut off, `OwnIssuesChecked` leaves out the issues of callees, `EverythingCollected` names the reads and
locations that are found. Where it needs a bound, the bound is an assumption of the theorem: CALL only,
no callee that runs off its code.

Bounds:

* `bfs`, `dfs`, `mine`: two functions and the fallback, sequences of at most 3 (2 in
  `mine`, which has two genesis states), at most 2 states per round, coverage of 0, 60
  or 100 percent, limit of executions 1. Phase 1 is of depth 1 in `bfs` and `mine` and 2
  in `dfs`; `dfs` and `mine` also run the random assignments of a preprocessing that
  timed out. That is enough rounds for a key to be saved, dropped, executed and to
  collide, and for the queue to hold states of two depths. Percentages matter only
  against 0, 70 and the threshold.
* `laser_bfs`: one fork, three CALLs, CALL depth limit 1, depth 2, two rounds: two paths
  of one callee return or are reverted one after the other, calls are refused, and the
  results are executed in the next round. `laser_faults`: two forks, one STATICCALL or
  DELEGATECALL, any order of the work list, so that leftovers of the creation meet those of a round.
  The counterexamples need one to three calls or two forks. What larger instances could add is covered
  by the theorems.
* `annotations`: two rounds, three forks, stores, calls or detections in all, two states
  per round: a fork with one further event on each side, before or after a call.
  `annotations_callee`, `_stop` and `_proxy` have the same bounds, breadth first.
* `machine`: words of 4 bits, bytes of 2, a stack of 4 words, gas limits of 30 and 900,
  call data of two and code of three bytes. Eleven templates of up to eight positions,
  each with its set of opcodes; pushes 0, 2, 3 and 9 are zero, a word boundary, an offset
  inside a word, and a negative number. `machine_jump` pushes 1 and 3.
* `calls`: five instructions, three frames and two transactions, enough for a call in a
  call, its end, what the caller does next, and a transaction on the result. `ether` needs
  a payment and one instruction.
* `taint`: values 0 to 3, two amounts sent and two senders: an overflow that happens for some
  inputs only. Programs of up to twelve instructions with one fork or two.
* `findings`: programs of up to seven instructions with two calls and two forks; sessions of
  two contracts with the same and with different code.
* `preparation`: dispatchers of one to five functions in chains and trees, rounds of any
  assigned sets, any number of them; functions with loops that write another slot each time, a bound of two
  iterations, sequences of at most four functions, two start functions and one deep one. `max_depth`
  is 7: with the jumps of the dispatcher a function of three conditional jumps is executed to its end
  and one of five is not. `preparation_keys` and `preparation_slots` have the contracts whose keys read
  the storage.

Deadlock is not checked in the runs of `Machine`, `Calls`, `Taint`, `Findings` and
`Preparation`, where a program ends. The other modules end in a stuttering action.

### Fairness

`WF_vars(Next)`: the program has one thread and every operation returns.
Instructions are bounded by the solver timeout, the hooks are straight-line code.
No strong fairness is used. In `SymbolicExecution` termination also rests on the
depth limit and on bounds the code has elsewhere (loop bound for code without
JUMPI, call depth limit), which appear as `MaxForks` and `MaxCalls`.

## 4. What is proved

For every value of the constants that satisfies the assumptions in
`FunctionAssignment` and `GuidedExecution` (finite function set, positive limits,
percentages up to 100), `GuidedExecutionProofs` proves:

* `TypeCorrect`: `[]TypeOK`. `RunTypes` and `SuccessorTypes` carry the two steps
  that change most.
* `KeysStaySound`: `[]KeysSound`. It is inductive together with `TypeOK`: new keys
  take the indices from `stateIndex` up (`RankProperties` shows that counting the
  kept states below one numbers them without gaps or repetition), so they are
  above all old ones.
* `StopsOnceItIsDecided`: `[]StopsOnceDecided`. Not inductive alone: the invariant
  `LoopInv` says how `i` and `iteration` relate at each `pc` (equal in the loop,
  `iteration = i + 1` inside a round) and that a changed `txCount` is the current
  iteration.
* `PathsStayWithinLimit`: `[]PathsWithinLimit`, under two explicit hypotheses: no
  function ends silently, and Phase 1 is not deeper than the limit. `PathInv` adds
  that `seq = path` in every open and saved state and that open states in Phase 2
  come from one saved state below the limit.
* `GuidedSearchImplementsLifecycle`: every step maps to a step of
  `StateLifecycle` or a stutter.

The safety invariants that the passing runs of `SymbolicExecution` check are all proved, for every search
strategy, any bounds and any events that a hypothesis does not exclude.
`SymbolicExecutionProofs` first sorts the steps by their effect (`StepKinds`): most
replace a path by paths that follow it (`Advance`), a call puts a path into the heap
(`CallSteps`), the end of a call changes one caller and resumes it (`ReturnSteps`), a
round makes paths of open states (`NextRoundSteps`). Each invariance proof has
one case per kind.

* `TypeCorrect`: `[]TypeOK`, together with `CallersKnown`: every caller that a path
  refers to is in the heap. Without it a return could resume anything.
* `CallDepthStaysWithinLimit`: under `CallKinds \subseteq {"CALL"}`. The invariant
  `Shallow` extends it to the callers in the heap, which returns bring back.
* `PathsStayDistinct`: `[]DistinctPaths` without a hypothesis. It is inductive:
  `Splits` says that what is pushed for a path assumes what the path has assumed and
  is told apart by the new literal; indices of the work list are traced through
  `PushedPositions`.
* `PathsStayConsistent`: `[]OnlyFailuresMix` without a hypothesis. It is not inductive, since a
  resumed caller gets the condition of its callee; the invariant adds that a callee knows what
  each of its callers has assumed, as long as no failing callee has resumed that caller (`Extended`),
  and that literals are no older than their forks (`Fresh`).
* `WritesStayAlive`: `[]NoWriteLost` without callees that run off their code.
  A callee starts unmarked with the storage of its caller, so the invariant
  `Marked` is about a path and its callers together, and needs that the callers of the
  last caller are the other ones (`Nested`).
* `RoundsStayApart`: `[]RoundsDoNotMix` without a hypothesis, timeouts of both kinds included.
  `Counted` says which rounds may have issued the paths and the open states of each phase, and
  `SameTransaction` carries it over returns.

The two hypotheses are needed: `laser_depth` and `laser_off_code` show the properties violated
without them.

`GuidedExecutionProofs` goes on with the order of the search, for the three strategies and
every graph, coverage and outcome of the executions:

* `SearchStopsWithReason`: `[]StopsWithReason`. When the loop is over it is too late to see
  why; `ReasonInv` says at each `pc` what a lowered `txCount` stands for, and that nothing
  is queued before Phase 2.
* `OneStartStateContinues`: `[]OneStartContinues` with bfs and dfs. `FlagInv`: while the
  flag is up, the loop stands between the two phases, its bound is the original one, and an
  open state of a depth up to `P1DL` is there to be extended; `DepthInv` bounds the recorded
  sequences of Phase 1. With mine the property fails (section 5).
* `NeverCrashes`: `[]NoCrash`, if Phase 1 is shorter than the limit and, for mine, of depth 1,
  the default of `-p1dl`. Both hypotheses are needed (section 5).
* `SearchIsBreadthFirst`: `[]BfsLayers` with bfs, if every function ends by STOP or
  RETURN. `LayerInv`: executed states are at a depth `d` or above, the queue holds the
  depths `d` and `d + 1` only, ordered like the indices.

`AnnotationsProofs` has two theorems without a hypothesis:

* `IssuesChecked`: `[]OwnIssuesChecked`. What a path found in the code of a transaction itself is looked
  at when the transaction ends by STOP or RETURN, in depth and breadth first order, with any forks and
  nested calls; what its callees found is not (`annotations_callee`). The invariant
  `PotentialIssues` says that what a state has found is in the list it refers to (`Backed`)
  and that this holds for every caller on the way back (`BackedThroughout`); it is kept
  because lists only grow (`Grows`) and a caller comes back with its own list and findings
  (`CallerBacked`).
* `Typed`: `[]TypeOK`, by `Types`, which extends it to the callers.

and three under `Private`: no DELEGATECALL and no STOP right behind a JUMPI, the two
places where a hook gives a function a sequence that is not its own (section 5):

* `SequenceTells`: `[]SeqIsPath`; `WritesTold`: `[]WritesKnown`; `ObjectsPrivate`:
  `[]AnnotationsPrivate`. None of them is inductive and none can be proved without the
  others: what an object tells (`Tells`) stays true only if nobody else writes into it, and
  nobody does because of where it came from. `History` joins `Sound` (a state of the
  transaction itself tells the truth, a callee has no annotation yet), `SoundOpen` (so does a
  world state) and `Sharing`: only the sides of a fork hold one object (`Apart`), and what
  callers will come back to (`Lent`) nobody holds. The steps are sorted by what they do to
  the objects: `GoesOn` (copies and hooks before an instruction keep what is told), then
  the one write of the instruction.

`CallsProofs` proves the four properties of `Calls` without a hypothesis, for call stacks of
any height and any number of transactions: `StaticFramesWriteNothing`
(`[]StaticWritesNothing`), `WorldsAgree`, `ContextsAgree` and `AnswersAllowed`
(`[]AnswersAgree`). Both machines keep `Machines`, the symbolic one is `Sound`: a static frame opens
static frames only, the world is the one it started in, and no account owes anything.
`Agree` compares more than the properties: the frames below the running one, too, and the
worlds they would be reverted to, since these are what the path goes on with after a
return. Each instruction is one lemma about each machine, and one about the two.

`FindingsProofs` proves `CallsAreReported`, `StateChangesAreReported` and
`AttacksAreReported` for sessions of any contracts and any order of the paths. Two things make it
hold although caches and lists are shared. `CacheInv`: a cache never holds a place without an
issue there (the exceptions module aside, which has no property). `Pending`: what a running
path owes is reported already, or on the list of its fork under a condition that every
valuation of the path satisfies (`Held`), so that settling the list at the end reports
it, whichever path comes first. `Settled` is what is left at the end.

`TaintProofs` proves `OverflowsAreReported` and `DecisionsAreReported` for programs of any
length and words of any size. `WordInv`: the annotation set a word refers to
marks everything its value comes from, and knows each of its overflows (`Known`: reported, or
annotated with a condition that holds there); sets only grow, so that sharing
does no harm. `PathInv` says the same of stack, memory and what has reached a sink. The
arithmetic comes in by `PowerAssumption`: a power that overflows has an exponent of at least
`ExponentBound`. It holds for every size; the provers know nothing of `^`, so it is an
assumption that TLC evaluates at the size of the run.

`MachineProofs` begins with `InstructionsExact`: for every width, every operation and any
operands, constant or symbolic, the results a handler leaves to a path include what
the Ethereum machine computes, outside of the cases that `Differs` names. The parts
of `Words` that are defined by recursion (powers of two, bits, exponentiation) are
reasoned about by least counterexamples: `LeastElement` gets one from `WFMin` for the
order of the naturals, and with it induction over sets (`Induction`) and the equation of a
recursive function (`Recursion`). From there: division with remainder and its uniqueness
(`OneQuotient`), powers of two, the bits of a number against a mask (`AndWithMask`), signed
words, and one case per operation. The bits of SIGNEXTEND, the bytes of BYTE and the shifts are each compared with
arithmetic on the whole word.

It goes on with the four invariants of the run `machine` for every program, word and byte size, gas limit
and call data, up to the first handler that is known to approximate (`"apart"`, section 5; CODESIZE,
EXTCODESIZE and BALANCE are among them): `SpecStackAgrees`, `SpecMemoryAgrees`, `SpecNeverLost` and
`SpecMemoryPaid`. None is inductive: equal stacks do not stay equal if the memories
differ, and a byte that is read is only right if nothing was stored behind the end of the
memory. `MachinesAgree` is the invariant `IInv` under all four: the two states have
their fields and types, memory holds cells below `msize` only and that size has been
paid, the code met has immediates in range, and while neither machine has stopped they have the
same counter, stack, return addresses and bytes. The helpers that charge gas and extend the
memory change nothing else (`Continues`), pushes, pops, writes and jumps keep the two states
alike (`PushAgree`, `PopAgree`, `WriteAgree`, `JumpAgrees`), and each of the fifteen actions
has a lemma of its own. A word is the word of its bytes (`JoinedWord`), and the search of an
instruction by its address finds it (`IndexOfAddress`).

`PreparationProofs` proves three invariants of `preparation`, for every contract, every choice of
start and deep functions, and every limit:

* `SpecTargetsFound`: `[]TargetsFound`. `derive_paths` searches by rounds that change a path while
  they iterate over its children. `Explored` says what has been found after `n` rounds: the
  functions behind the first one on the paths found are those that chains of `n` dependencies
  lead to (`Level`), every function that became reachable in the last round ends a path that is
  still derived, and the first function comes twice only where it depends on itself. One round
  is `ExploredNext`, one path in it `DeriveAllIs`, one child `DeriveIs`. `OrganizedAre` and
  `AcyclicAre` carry it to the sequences by deep function, `ChainIs` and `LevelsUnion` to the
  reference `Chain`.
* `SpecSequencesCombined`: `[]SequencesCombined`. `WalkedUpTo` is the invariant of the walk of
  `find_edges` along the shorter sequence: the index into the longer one stands behind the last
  common function, and every part that a common function has ended is joined in both orders with
  the part that faces it. Parts are maximal runs without common functions (`Run`, `RunTo`,
  `RunFrom`); `FacingJoined` finds the two runs around any two places that face each other.

* `SpecEverythingCollected`: `[]EverythingCollected`, when each location of a statement is met
  within the bounds of the loops and of the depth (`LocationsMet`). `CollectInv` says that some set of
  states has been executed (`Exploring`): the first state is in it or in `work_list`, so is every state
  that comes after an executed one that the strategy has not dropped, and the tables hold what
  the hooks see in each. When `work_list` is empty, every path within the bounds has been executed
  to its end (`Visited`). A statement that some path reaches is reached by one that meets no
  statement twice (`ReachedOnce`, over the rounds of `Reachable`); such a path is never dropped for a
  loop (`NotTooOften`), nor for its depth in a function that is `Shallow` (`NotDeep`: its conditional
  jumps are among those of the function, `JumpsAre`). So the first location of each statement and each
  condition of such a function need no assumption. `ExtractedIs` shows what the simplification and
  `go_deep` leave of a condition, and `Sound` that nothing else gets into the tables but the 0 of a key
  that reads the storage.

The first two rest on `SpecGraph`, that the graph in use was made of the slots and the starts of the same
state. The recursive functions of the model are unfolded by `Folding`: a function that gives its
value at `n` from the one before exists, and is the only one.

`LocationsMet` is about the contract and the bound, not the code: a location that a statement has
at its `n`-th visit is collected only if some path within the bound visits it `n` times, and a
contract can have a loop whose later iterations write slots that no such path meets.
`LoopsAssumption` of `MCPreparation` is evaluated by TLC and gives such a path for each contract of
the run that has a loop.

Only model-checked: `Terminates` (liveness is out of the prover's reach), and of `Preparation`
`DispatchAgrees`. It compares two runs of a dispatcher, whose code is the choice of a compiler
that `MCPreparation` imitates: what the layout of any compiler has in common would have to be an
assumption.

## 5. Where the code departs from what is expected of it

The modules follow the code in all of these. The comparison ends at them, or a
constant switches them on.

Guided search (`SilentEnd`, `EarlyStop`, constants of `GuidedExecution`):

* mine pops an empty queue (`mine.py:92`) when `filter_states` has left nothing before
  the extra round of a contract with one start function, with a Phase 1 of depth 2
  (`-p1dl`, 1 by default); it skips that round when no deep function is left, although the
  stop hook (`fdg_pruner.py:305`) spares the search for it. bfs and dfs pop from an empty
  list, too (`ftn_search_strategy.py:162`, `254`), when Phase 1 is as deep as
  `--seq-len-limit`.
* a function that runs off its code is missing from `ftn_seq` (`svm.py:647`), so the real
  sequence outgrows `--seq-len-limit`.
* breadth first, a STOP behind the first JUMPI records a function that did not run
  (`dependency_pruner.py:75`); a first hook inside a DELEGATECALL starts a new sequence.
* a function can be assigned more often than `--execution-times-limit`: the rule for
  functions that lead to a deep one does not look at the counter.
* `children += children_o` (`function_assignment.py:148`) extends the list of the graph.
* the sets in `storage_written` are shared between branches and can be too large.

Engine (`Events`):

* `handle_vm_exception` resumes the caller's own state, not a copy (`svm.py:612-623`): later
  paths of the callee inherit the condition of the failing one (`laser_failing`).
* a callee that runs off its code adds its world state (`svm.py:648`), without the
  annotations of its callers (`laser_off_code`). If the callee is a constructor, `world_state_filter_hook`
  (`fdg_pruner.py:392`) takes it for the creation and sets `_iteration_` to 0 in the middle of a round:
  `GuidedExecution` has no function that does so.
* states left by a creation timeout are executed by the first message call (`laser_creation`).
* `--call-depth-limit` looks at CALL only (`laser_depth`).

Instructions and calls (`"apart"`):

* a nested REVERT with data answers 1, a nested STOP or SELFDESTRUCT of a DELEGATECALL or
  CALLCODE answers 0; a missing balance is a constraint, not a failure.
* DELEGATECALL frames move the call value again; CALLCODE and DELEGATECALL to an account
  without code transfer ether; such an account is paid before the static check.
* native calls and symbolic output leave stale return data; RETURNDATASIZE after CREATE.
* `Account.__copy__` drops `deleted`; a creation assigns its byte code on a revert, too;
  creation without constant code pushes 1.
* CODESIZE and EXTCODESIZE are half the length of the byte code also where it is kept as a tuple and not
  as digits, as after a creation (`instructions.py:1023`, `1242`); BALANCE of a symbolic or unknown
  account is a chain over the known accounts that ends in 0 (`instructions.py:936`).
* CODESIZE and CODECOPY in a creation, CALLDATACOPY with symbolic sizes, EXTCODEHASH, GAS,
  JUMPSUB; CALLDATALOAD compares signed; a jump into the data of a PUSH continues behind it
  (`get_instruction_index`, `machine_jump`); size 0 pays for memory; the stack sizes of ADDMOD, EXTCODESIZE,
  SSTORE, DUP and SWAP in `opcodes.py` are wrong.

Detection:

* branches of a fork share one list of potential issues (`potential_issues.py:58`): one
  branch can report what the other found.
* the list of a callee does not come back to its caller (`svm.py:735-740`): potential issues found in a
  callee are dropped (`annotations_callee`).
* origin and caller of a transaction are one object (`symbolic.py:118`): marking the first
  marks the second; overflows with Bool operands or a symbolic base of EXP go unnoticed.
* caches survive the reset between contracts (`base.py:61`) and are keyed by the last jump, or
  by an address that several paths share; post hooks of CALL do not run for calls into
  loaded contracts (`svm.py:752-807`); hooks are removed from the list being iterated
  (`svm.py:1010`).

Dispatcher and graph:

* selectors with two leading zero bytes are never recognised; all functions but one together
  with the fallback restore the whole dispatcher; `func_hashes` of an earlier round stay
  when the original list is restored. `DispatchAgrees` is about a dispatcher that has been rewritten:
  the restored one is exempt, and `func_hashes` is not compared.
* a self dependency lengthens the path that later children extend (`fwrg_manager.py:92`);
  a deep function that reaches itself only through another one is given up; sequences with
  common functions in opposite orders are not combined.
* conditions read nothing until something is stored; a condition that mixes plain and mapped
  locations loses the plain ones, and one that reads a location the path has stored before
  loses that one while another stays (`slot_location.py:152`); expressions of more than 10 000
  characters are ignored.
* reads inside the key of a read are not collected (`preparation_keys`), nor is a condition that is
  nothing but a read; the slot of a mapping whose key reads the storage is taken for 0
  (`preparation_slots`).
* the preprocessing loses without a word what lies at `max_depth` or deeper
  (`strategy/__init__.py:29`); each conditional jump of the dispatcher counts.

## 6. Not modelled, and the plan

In this order:

1. a proof of `DispatchAgrees`, with what it assumes of a compiler;
2. the strategies `Seq` and `RandomBaseline`, the ranking queue of mine;
3. delayed, beam and concolic strategies, the hash collisions of loop traces;
4. keccak intervals, the independence solver's buckets against a reference, CREATE2
   addresses, storage with symbolic keys;
5. lock file, signature database and model cache with several processes;
6. feasibility of open states in the guided loop, which needs the path conditions of
   `SymbolicExecution` there.

Of the printed expressions in the preprocessing: a location stands for all texts of its form, so the
cache of `get_slot_from_location_expression`, which matches texts but for their last two characters,
and sums of locations are left out, and so are reads in the values that a condition's array of
stores holds. `Preparation` has one code object and one contract.

Left out for good: output, reports, option parsing, printed expressions, bytecode parsing and
remote calls (no state of interest), the depth of the Python stack, z3 itself (external).
