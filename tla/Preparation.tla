------------------------------- MODULE Preparation -------------------------------
(***************************************************************************)
(* What is found out about a contract before its functions are executed in     *)
(* guided sequences, and how a round is restricted to some of them: the         *)
(* preprocessing (fdg/preprocessing, LaserEVM.exec_preprocessing), the           *)
(* coverage after the first round (fdg/function_coverage.py), the read/write      *)
(* graph made of both, and the modified dispatcher.                              *)
(*                                                                           *)
(* Function 0 is the fallback; the constructor has no statements here.  The     *)
(* dispatcher is one statement of the fallback: entry has the conditional jumps    *)
(* that lead to each function.  A statement of a function is                      *)
(* [op, locs, reads, shape, to]: locs the storage locations it has when it is      *)
(* executed for the first time, the second ..., reads the locations that a         *)
(* condition reads outside the key of another read.  A location is a slot, the     *)
(* form of its expression, and the variables its key still reads when simplified.  *)
(***************************************************************************)
EXTENDS ReadWriteGraph, Dispatch

CONSTANTS
  Contracts,           \* [functions, entry, selectors, code, stores, guided]
  Interruptible,       \* contracts whose preprocessing may be cut off
  loop_bound,          \* of BoundedLoopsStrategy
  max_depth,           \* of BasicSearchStrategy
  threshold,           \* function_coverage_threshold
  MaxStarts, MaxDeep   \* bounds on the functions that start sequences, that are not covered

Operations == {"SLOAD", "SSTORE", "JUMPDEST", "JUMP", "JUMPI", "STOP", "REVERT", "INVALID"}
Locations == [slot : Nat, form : {"plain", "mapping", "unknown"}, keys : SUBSET Nat]
\* The shape of a condition: nothing but a read, too long for its text, or another one.
Shapes == {"compared", "bare", "long"}
Statements == [op : Operations, locs : Seq(Locations), reads : SUBSET Locations, shape : Shapes, to : Nat]

\* The statements that can come after the one at pc.
Reaches(body, pc) ==
  CASE body[pc].op = "JUMP" -> {body[pc].to}
    [] body[pc].op = "JUMPI" -> {pc + 1, body[pc].to}
    [] body[pc].op \in {"STOP", "REVERT", "INVALID"} -> {}
    [] OTHER -> {pc + 1}

ASSUME BoundAssumption == loop_bound \in Nat /\ max_depth \in Nat

ASSUME ContractsAssumption ==
  \A c \in Contracts :
    /\ Len(c.functions) = Len(c.selectors) /\ c.functions # <<>>
    /\ c.functions \in Seq(Seq(Statements)) /\ c.stores \in Seq(Locations)
    /\ c.entry \in [DOMAIN c.functions -> Nat]
    /\ \A f \in DOMAIN c.functions :
         /\ c.functions[f] # <<>>
         /\ \A pc \in DOMAIN c.functions[f] :
              /\ Reaches(c.functions[f], pc) \subseteq DOMAIN c.functions[f]
              /\ c.functions[f][pc].op \in {"SLOAD", "SSTORE"} => c.functions[f][pc].locs # <<>>

VARIABLES
  contract,    \* guided: by a strategy with a preprocessing (mine, bfs, dfs)
  phase,
  groups,      \* InstructionModification
  code,        \* instruction_list and func_hashes of the contract's Disassembly
  assigned,    \* the functions of the round
  work_list,
  tables,      \* what the hooks of the preprocessing collect
  timeout,
  slots,       \* write_slots, read_slots, read_slots_in_conditions
  function_coverage,
  starts, graph

vars == <<contract, phase, groups, code, assigned, work_list, tables, timeout, slots,
          function_coverage, starts, graph>>

Functions == 1..Len(contract.functions)

NoTables == [indices |-> <<>>, reads |-> {}, writes |-> {}, conditions |-> {}]
NoSlots == [write_slots |-> <<>>, read_slots |-> <<>>, read_slots_in_conditions |-> <<>>]

Init ==
  /\ contract \in Contracts
  /\ phase = "start"
  /\ groups = NoGroups
  /\ code = [instruction_list |-> contract.code, func_hashes |-> ToSet(contract.selectors)]
  /\ assigned = {}
  /\ work_list = <<>>
  /\ tables = NoTables
  /\ timeout = FALSE
  /\ slots = NoSlots
  /\ function_coverage = <<>>
  /\ starts = <<>>
  /\ graph = <<>>

-------------------------------------------------------------------------------
(* Preprocessing *)

State(f, pc, s) == [fn |-> f, pc |-> pc, trace |-> s.trace, stores |-> s.stores]

\* start_sym_trans_hook_laserEVM, execute_message_call_preprocessing: one state is left,
\* whatever the constructor has stored.
Start ==
  /\ phase = "start"
  /\ groups' = _feed_instructions_update(contract.code)
  /\ IF contract.guided
     THEN /\ phase' = "preprocessing"
          /\ work_list' = <<State(0, 0, [trace |-> <<>>, stores |-> contract.stores])>>
     ELSE phase' = "rounds" /\ UNCHANGED work_list
  /\ UNCHANGED <<contract, code, assigned, tables, timeout, slots, function_coverage, starts, graph>>

Address(s) == <<s.fn, s.pc>>
Statement(s) == contract.functions[s.fn][s.pc]
Dispatching(s) == s.fn = 0

\* get_loop_count, count_key: how often the last steps of the trace repeat the ones before.
get_loop_count(t) ==
  LET n == Len(t)
      same == {k \in 2..n - 2 : t[k] = t[n - 1] /\ t[k + 1] = t[n]}
      first == Max(same) + 1
      size == n - first
      From(m) == first - m * size
      Repeats(m) == From(m) >= 1 /\ SubSeq(t, From(m), From(m) + size - 1) = SubSeq(t, first, n - 1)
  IN  IF same = {} THEN 0 ELSE 1 + Cardinality({m \in 0..n : \A k \in 0..m : Repeats(k)})

Seen(s) == [s EXCEPT !.trace = Append(@, Address(s))]

\* BoundedLoopsStrategy.get_strategic_global_state drops a state.
TooOften(s) ==
  /\ ~Dispatching(s)
  /\ Statement(s).op = "JUMPDEST"
  /\ get_loop_count(Seen(s).trace) > loop_bound

\* Every conditional jump adds one to mstate.depth; BasicSearchStrategy drops a state silently.
Branches(c, trace) == {n \in DOMAIN trace : trace[n][1] # 0 /\ c.functions[trace[n][1]][trace[n][2]].op = "JUMPI"}
Depth(s) == IF Dispatching(s) THEN 0 ELSE contract.entry[s.fn] + Cardinality(Branches(contract, s.trace))
Dropped(s) == TooOften(s) \/ Depth(s) >= max_depth

\* The location at this visit.
Location(s) ==
  LET visits == Cardinality({n \in DOMAIN s.trace : s.trace[n] = Address(s)})
      locs == Statement(s).locs
  IN  locs[IF visits < Len(locs) THEN visits + 1 ELSE Len(locs)]

\* add_conditions; a condition that is too long for its text is not collected.
Conditions(s, st) ==
  IF st.op # "JUMPI" \/ st.shape = "long" THEN tables.conditions
  ELSE tables.conditions
         \cup {[fn |-> s.fn, address |-> s.pc, reads |-> st.reads, shape |-> st.shape, stores |-> s.stores]}

\* update_sload, update_sstore
Recorded(s) == [fn |-> s.fn, address |-> s.pc, loc |-> Location(s)]
At(table, s) == {e \in table : e.fn = s.fn /\ e.address = s.pc}

\* Mutant: a location is recorded once for an address.
Collected_once(s) ==
  LET st == Statement(s)
  IN  [tables EXCEPT
        !.reads = @ \cup IF st.op = "SLOAD" /\ At(@, s) = {} THEN {Recorded(s)} ELSE {},
        !.writes = @ \cup IF st.op = "SSTORE" /\ At(@, s) = {} THEN {Recorded(s)} ELSE {},
        !.conditions = Conditions(s, st)]

Collected(s) ==
  LET st == Statement(s)
  IN  [tables EXCEPT
        !.reads = @ \cup IF st.op = "SLOAD" THEN {Recorded(s)} ELSE {},
        !.writes = @ \cup IF st.op = "SSTORE" THEN {Recorded(s)} ELSE {},
        !.conditions = Conditions(s, st)]

\* collect_function_instructions
Indexed(t, s) ==
  LET old == t.indices
  IN  [t EXCEPT !.indices = [f \in DOMAIN old \cup {s.fn} |->
         (IF f \in DOMAIN old THEN old[f] ELSE {}) \cup (IF f = s.fn THEN {s.pc} ELSE {})]]

\* Instruction.evaluate: conditions are not simplified here, so both branches are taken.
Successors(s) ==
  LET t == Seen(s)
      st == Statement(s)
  IN  IF Dispatching(s) THEN [f \in Functions |-> State(f, 1, t)]
      ELSE CASE st.op \in {"SLOAD", "JUMPDEST"} -> <<State(s.fn, s.pc + 1, t)>>
             [] st.op = "SSTORE" -> <<State(s.fn, s.pc + 1, [t EXCEPT !.stores = Append(@, Location(s))])>>
             [] st.op = "JUMP" -> <<State(s.fn, st.to, t)>>
             [] st.op = "JUMPI" -> <<State(s.fn, s.pc + 1, t), State(s.fn, st.to, t)>>
             [] st.op \in {"STOP", "REVERT", "INVALID"} -> <<>>

exec_preprocessing ==
  /\ phase = "preprocessing"
  /\ work_list # <<>>
  /\ LET s == Head(work_list)
     IN  IF Dropped(s) THEN work_list' = Tail(work_list) /\ UNCHANGED tables
         ELSE /\ work_list' = Tail(work_list) \o Successors(s)
              /\ tables' = Indexed(IF Dispatching(s) THEN tables ELSE Collected(s), s)
  /\ UNCHANGED <<contract, phase, groups, code, assigned, timeout, slots, function_coverage, starts, graph>>

\* _check_preprocessing_termination, _check_preprocessing_error
Interrupt ==
  /\ phase = "preprocessing"
  /\ work_list # <<>>
  /\ contract \in Interruptible
  /\ timeout' = TRUE
  /\ work_list' = <<>>
  /\ UNCHANGED <<contract, phase, groups, code, assigned, tables, slots, function_coverage, starts, graph>>

-------------------------------------------------------------------------------
(* Slots *)

\* A number is its own slot; the expression of a hash has the first number before a closing bracket
\* in its text, which is the 0 of the untouched storage where the key reads the storage; the text of
\* some has none.
get_slot_from_location_expression(l) ==
  IF l.form = "unknown" THEN {} ELSE IF l.keys # {} THEN {0} ELSE {l.slot}
Slots(locs) == UNION {get_slot_from_location_expression(l) : l \in locs}

\* The solver's simplification evaluates a read when it finds the write, or none.
Evaluated(loc, stores) ==
  LET met == {n \in DOMAIN stores : stores[n] = loc \/ "plain" # loc.form \/ "plain" # stores[n].form}
  IN  met = {} \/ stores[Max(met)] = loc

\* extract_locations_read_in_storage_in_a_condition: of the simplified condition, when it still
\* reads the storage; nothing while nothing has been stored.  go_deep begins below the root of the
\* condition and does not enter a read: a condition that is nothing but a read yields what the key
\* of that read reads, any other one the reads outside keys.
Extracted(c) ==
  LET left == {l \in c.reads : ~Evaluated(l, c.stores)}
      found == IF left # {} THEN left ELSE c.reads
  IN  IF c.stores = <<>> THEN {}
      ELSE IF c.shape = "bare" THEN {[slot |-> k, form |-> "plain", keys |-> {}] : k \in UNION {l.keys : l \in found}}
      ELSE found

Refined(table) == [f \in {e.fn : e \in table} |-> Slots({e.loc : e \in {d \in table : d.fn = f}})]

\* main_preprocessing_end, feed_function_intruction_indices
main_preprocessing_end ==
  /\ phase = "preprocessing"
  /\ work_list = <<>>
  /\ phase' = "prepared"
  /\ slots' = [write_slots |-> Refined(tables.writes),
               read_slots |-> Refined(tables.reads),
               read_slots_in_conditions |->
                 [f \in Functions |-> Slots(UNION {Extracted(c) : c \in {d \in tables.conditions : d.fn = f}})]]
  /\ function_coverage' = [f \in DOMAIN tables.indices |-> 0]
  /\ UNCHANGED <<contract, groups, code, assigned, work_list, tables, timeout, starts, graph>>

-------------------------------------------------------------------------------
(* Targets *)

\* compute_coverage, in percent, from the number of visited instructions
Coverage(f, visited) == (100 * visited) \div Cardinality(tables.indices[f])

\* compute_deep_functions
Deep(coverage) == {f \in DOMAIN coverage : coverage[f] # 0 /\ coverage[f] < threshold}

\* FWRG_manager
Graph(start_functions, dk) ==
  LET fwrg == _generate_fwrg(slots.write_slots, slots.read_slots_in_conditions)
      paths_df == AcyclicPath(fwrg, start_functions, dk)
  IN  [fwrg |-> fwrg,
       frwg |-> _generate_frwg(slots.write_slots, slots.read_slots_in_conditions),
       fwrg_all_reads |-> _generate_fwrg(slots.write_slots, slots.read_slots),
       dk |-> dk,
       paths_df |-> paths_df,
       augmented |-> Augmented(paths_df),
       dk_not_reachable |-> identity_dk_function_not_reachable(paths_df, dk)]

\* After the round of depth 1: each function is not covered, partly covered or covered, and
\* some have ended a transaction.
FirstRound ==
  /\ phase = "prepared"
  /\ phase' = "guided"
  /\ \E behind \in {b \in SUBSET DOMAIN function_coverage : Cardinality(b) <= MaxDeep} :
     \E none \in SUBSET behind :
       function_coverage' = [f \in DOMAIN function_coverage |->
         Coverage(f, IF f \in none THEN 0 ELSE IF f \in behind THEN 1 ELSE Cardinality(tables.indices[f]))]
  /\ \E s \in {t \in SUBSET Functions : t # {} /\ Cardinality(t) <= MaxStarts} :
       /\ \A f \in s \cap DOMAIN function_coverage : function_coverage'[f] # 0
       /\ starts' \in SetToSeqs(s)
  /\ graph' = Graph(starts', Deep(function_coverage'))
  /\ UNCHANGED <<contract, groups, code, assigned, work_list, tables, timeout, slots>>

-------------------------------------------------------------------------------
(* Rounds *)

\* modity_on_multiple_states, modify_on_a_state__str: the fallback is among the functions that
\* are counted, not among the selectors.
Modified(functions) ==
  LET selectors == {contract.selectors[f] : f \in functions \ {0}}
  IN  IF Cardinality(functions) >= Len(contract.functions)
      THEN [code EXCEPT !.instruction_list = contract.code]
      ELSE [instruction_list |-> _get_modified_instructions_1(groups, selectors), func_hashes |-> selectors]

\* A round of the strategies that are given their functions; in the others the functions come
\* from FunctionAssignment.
Round ==
  /\ phase = "rounds"
  /\ \E functions \in SUBSET (Functions \cup {0}) :
       assigned' = functions /\ code' = Modified(functions)
  /\ UNCHANGED <<contract, phase, groups, work_list, tables, timeout, slots, function_coverage, starts, graph>>

Next == Start \/ exec_preprocessing \/ Interrupt \/ main_preprocessing_end \/ FirstRound \/ Round

Spec == Init /\ [][Next]_vars

-------------------------------------------------------------------------------
(* Properties *)

Revert == groups.revert
Selectors == ToSet(contract.selectors) \cup {<<0, 0, 0, 1>>, <<1, 1, 1, 1>>, <<99, 0, 0, 0>>}
Pushed(sel) == CHOOSE b \in {SubSeq(sel, n, 4) : n \in 1..4} :
                 (b[1] # 0 \/ Len(b) = 1) /\ Value(b) = Value(sel)
Full == Cardinality(assigned) >= Len(contract.functions)

\* Whatever the layout of the dispatcher and whatever rounds came before, a call enters an
\* assigned function as it would in the contract, with the same stack, and a call of any other
\* function ends as the call of an unknown one does.  (A selector with two leading zero bytes
\* is not recognised: it may stay.)  This is about a code that the round has rewritten: where all but
\* one of the functions and the fallback are assigned, the contract's own code comes back (Modified),
\* and func_hashes is not compared with it.
DispatchAgrees ==
  phase = "rounds" /\ code.instruction_list # contract.code =>
    \A sel \in Selectors, size \in {0, 4} :
      LET old == Leaves(contract.code, sel, size, Revert)
          new == Leaves(code.instruction_list, sel, size, Revert)
          unknown == [at |-> Revert, height |-> 1]
          kept == Full \/ \E f \in assigned \ {0} : contract.selectors[f] = sel
      IN  IF size = 0 \/ kept THEN new = old
          ELSE new = unknown \/ (Len(Pushed(sel)) < 3 /\ new = old)

\* The statements of a function that some path reaches.
Reachable(body) ==
  LET upto[n \in 0..Len(body)] ==
        IF n = 0 THEN {1}
        ELSE LET seen == upto[n - 1] IN seen \cup UNION {Reaches(body, pc) : pc \in seen}
  IN  upto[Len(body)]
Reached(f, op) == {contract.functions[f][pc] : pc \in {p \in Reachable(contract.functions[f]) : contract.functions[f][p].op = op}}

\* The locations a condition reads are kept or evaluated together: there is one, or they have one
\* form and nobody has stored them before.
Stored(f) == ToSet(contract.stores) \cup UNION {ToSet(st.locs) : st \in Reached(f, "SSTORE")}
Together(f, reads) == \A k, l \in reads : k = l \/ (k.form = l.form /\ k \notin Stored(f))

\* The slots of locations that the text identifies; the calls of f stay below max_depth, when they do
\* not repeat a conditional jump.
Identified(locs) == {l.slot : l \in {k \in locs : k.form # "unknown" /\ k.keys = {}}}
Written(f) == UNION {ToSet(st.locs) : st \in Reached(f, "SSTORE")}
Shallow(f) ==
  contract.entry[f] + Cardinality({pc \in DOMAIN contract.functions[f] : contract.functions[f][pc].op = "JUMPI"})
    < max_depth

\* A preprocessing that is not cut off attributes no slot to a function that it does not write, but
\* for 0 when the key of a mapping reads the storage.  Of a function within max_depth it finds every
\* slot whose location the text identifies: those that the function writes, whatever the iteration
\* of a loop in which it does, and those that its conditions read outside keys, when the constructor
\* has stored something, the simplification keeps the locations together and the condition is more
\* than the read.
EverythingCollected ==
  phase \in {"prepared", "guided"} /\ ~timeout => \A f \in Functions :
    /\ Listed(slots.write_slots, f)
         \subseteq {l.slot : l \in Written(f)} \cup {0 : l \in {k \in Written(f) : k.keys # {}}}
    /\ Shallow(f) =>
         /\ Identified(Written(f)) \subseteq Listed(slots.write_slots, f)
         /\ \A st \in Reached(f, "JUMPI") :
              contract.stores # <<>> /\ st.shape = "compared" /\ Together(f, st.reads)
                => Identified(st.reads) \subseteq slots.read_slots_in_conditions[f]

\* "collect the storage locations read in a conditions": also those that are read for a key.
\* go_deep does not descend into a read.
KeysCollected ==
  phase = "prepared" /\ ~timeout => \A f \in Functions :
    Shallow(f) /\ contract.stores # <<>> =>
      \A st \in Reached(f, "JUMPI") : st.shape # "long" =>
        UNION {l.keys : l \in st.reads} \subseteq slots.read_slots_in_conditions[f]

\* "find the last parameter within the keccak256_512 function": each mapping that a function writes
\* is found with its slot.  The pattern finds the first one, in the key.
LastParameters ==
  phase = "prepared" /\ ~timeout => \A f \in Functions :
    Shallow(f) => {l.slot : l \in {k \in Written(f) : k.form = "mapping"}} \subseteq Listed(slots.write_slots, f)

\* What a call of f that executes the statements h has traced after n of them.
Traced(f, h, n) == [k \in 1..n + 1 |-> IF k = 1 THEN <<0, 0>> ELSE <<f, h[k - 1]>>]

\* The statements h are executed within the bounds and end with the n-th visit at pc.
Visits(c, f, pc, n, h) ==
  LET body == c.functions[f]
  IN  /\ h \in Seq(DOMAIN body) /\ h # <<>> /\ h[1] = 1 /\ h[Len(h)] = pc
      /\ \A k \in 1..Len(h) - 1 :
           /\ h[k + 1] \in Reaches(body, h[k])
           /\ body[h[k]].op = "JUMPDEST" => ~(get_loop_count(Traced(f, h, k)) > loop_bound)
      /\ Cardinality({k \in 2..Len(h) : h[k - 1] = pc}) = n - 1
      /\ c.entry[f] + Cardinality(Branches(c, Traced(f, h, Len(h) - 1))) < max_depth

\* Functions that a chain of at most n functions from those of s leads to: each writes what a
\* condition of the next reads.
Dependent(f) ==
  {g \in Functions : Listed(slots.write_slots, f) \cap slots.read_slots_in_conditions[g] # {}}
Chain(s, n) ==
  LET upto[k \in Nat] ==
        IF k = 0 THEN s ELSE LET t == upto[k - 1] IN t \cup UNION {Dependent(f) : f \in t}
  IN  upto[n - 1]

\* A deep function is given up exactly when no chain within the limit leads to it from another
\* function that starts sequences, and none of two functions from itself.
TargetsFound ==
  phase = "guided" => \A f \in graph.dk :
    f \in graph.dk_not_reachable
      <=> /\ f \notin Chain(ToSet(starts) \ {f}, seq_len_limit)
          /\ ~(seq_len_limit > 1 /\ f \in ToSet(starts) /\ f \in Dependent(f))

\* Two sequences have their common functions in one order.  Position i of a and position j of b
\* face each other when they lie between the same common functions.
SameOrder(a, b) ==
  \A i, j \in DOMAIN a, k, l \in DOMAIN b : a[i] = b[k] /\ a[j] = b[l] /\ i <= j => k <= l
Common(a, i, b) == {a[k] : k \in 1..i} \cap ToSet(b)
Face(a, i, b, j) == a[i] \notin ToSet(b) /\ b[j] \notin ToSet(a) /\ Common(a, i, b) = Common(b, j, a)
EndsPart(a, i, b) == i = Len(a) \/ a[i + 1] \in ToSet(b)
StartsPart(a, i, b) == i = 1 \/ a[i - 1] \in ToSet(b)

\* Two sequences that lead to a deep function, and that have their common functions in the same
\* order, are combined: each is a path of the graph, and wherever a part of one faces a part of
\* the other, an edge leads from the end of either part to the start of the other.  So there is
\* a path through both, whichever part comes first.
SequencesCombined ==
  phase = "guided" => \A f \in DOMAIN graph.paths_df :
    LET found == ToSet(graph.paths_df[f])
    IN  /\ \A p \in found : \A n \in 1..Len(p) - 1 : <<p[n], p[n + 1]>> \in graph.augmented
        /\ \A p, q \in found :
             LET a == Front(p)
                 b == Front(q)
             IN  /\ ~(ToSet(a) \subseteq ToSet(b)) /\ ~(ToSet(b) \subseteq ToSet(a))
                 /\ SameOrder(a, b) /\ SameOrder(b, a)
                 => \A i \in DOMAIN a, j \in DOMAIN b :
                      Face(a, i, b, j) /\ EndsPart(a, i, b) /\ StartsPart(b, j, a)
                        => <<a[i], b[j]>> \in graph.augmented
===============================================================================
