------------------------------ MODULE Annotations ------------------------------
(***************************************************************************)
(* The annotations that travel with the states: DependencyAnnotation and    *)
(* WSDependencyAnnotation (plugin_annotations.py, dependency_pruner.py),    *)
(* which carry the function sequence and the written slots from one         *)
(* transaction to the next, and PotentialIssuesAnnotation                   *)
(* (potential_issues.py), which carries what the detection modules suspect  *)
(* to the end of the transaction.                                           *)
(*                                                                         *)
(* Python copies all of them shallowly, so who shares what is the subject:   *)
(* annotation objects, the sets of written slots and the lists of potential *)
(* issues live in heaps, and states refer to them by index, 0 for none.     *)
(***************************************************************************)
EXTENDS Integers, Sequences, FiniteSets

CONSTANTS
  Searches,       \* the search strategies considered, of {"dfs", "bfs"}
  Functions,      \* functions with a selector
  Fallback,       \* the name a transaction starts with
  Slots,          \* storage slots
  Sites,          \* addresses at which a detection module is hooked
  CallKinds,      \* the call opcodes the contract uses
  EarlyStop,      \* whether a STOP can follow a JUMPI immediately
  Rounds,         \* bound on the rounds of transactions
  MaxHooked,      \* bound on the forks, stores, calls and detections of a run
  MaxPicked       \* bound on the states of a round

ASSUME AnnotationAssumption ==
  /\ Searches \subseteq {"dfs", "bfs"}
  /\ CallKinds \subseteq {"CALL", "STATICCALL", "DELEGATECALL"}
  /\ EarlyStop \in BOOLEAN
  /\ Fallback \notin Functions
  /\ Rounds \in Nat
  /\ MaxHooked \in Nat /\ MaxPicked \in Nat

VARIABLES
  search,     \* the strategy of this run
  iteration,  \* DependencyPruner.iteration: the rounds so far
  work,       \* work_list
  open,       \* the world states that wait for a transaction, open or saved by the guider
  objs,       \* heap of DependencyAnnotation
  sets,       \* heap of the sets in storage_written
  lists,      \* heap of the lists potential_issues
  cache,      \* DetectionModule.cache: the addresses of the issues reported
  missed,     \* history: issues a transaction had found and its STOP or RETURN did not check
  lost,       \* history: issues its callees had found and its STOP or RETURN did not check
  hooked      \* forks, stores, calls and detections so far

heaps == <<objs, sets, lists>>
issueVars == <<cache, missed, lost>>
vars == <<search, iteration, work, open, heaps, issueVars, hooked>>

-------------------------------------------------------------------------------
(* States and their copies *)

Keys == 1..(2 * Rounds + 1)

\* A DependencyAnnotation.  Pruning by it is switched off (_check_basic_block), so
\* what only serves pruning is left out.
Dependencies == [ftn_seq : Seq(Functions \cup {Fallback}), written : [Keys -> Nat]]

NewDependency == [ftn_seq |-> <<>>, written |-> [n \in Keys |-> 0]]

\* A global state.
\*   dep, pot   its DependencyAnnotation; the list of its PotentialIssuesAnnotation
\*   stack      annotations_stack of its world state
\*   behind     "fork": right behind a JUMPI; "dest": at the JUMPDEST of one
\*   own        it runs on the storage of the contract
\* and what really happened:
\*   ran        the functions of the transactions before this one that ended by STOP or
\*              RETURN; one that ran off its code counts as part of the next
\*   wrote      the slots each of these transactions, and this one, wrote
\*   found      the issues found in this transaction, outside of calls
\*   inner      the issues found in the callees of this transaction that have returned
Started(ws) ==
  [fn |-> Fallback, dep |-> 0, pot |-> 0, stack |-> ws.stack, behind |-> "no", own |-> TRUE,
   callers |-> <<>>, ran |-> ws.ran, found |-> {}, inner |-> {},
   wrote |-> IF Len(ws.wrote) = Len(ws.ran) THEN Append(ws.wrote, {}) ELSE ws.wrote]

Last(s) == s[Len(s)]
Front(s) == SubSeq(s, 1, Len(s) - 1)

\* GlobalState.__copy__ and __deepcopy__: the annotation is copied, what it holds is not.
\* A pair of the heap and the new state.
Copied(h, s) ==
  IF s.dep = 0 THEN <<h, s>>
  ELSE <<Append(h, h[s.dep]), [s EXCEPT !.dep = Len(h) + 1]>>

\* Mutant: the annotation is read from the stack and stays there.
PeekDependency(h, s) ==
  IF s.dep # 0 THEN <<h, s>>
  ELSE IF s.stack # <<>> THEN <<h, [s EXCEPT !.dep = Last(s.stack)]>>
  ELSE <<Append(h, NewDependency), [s EXCEPT !.dep = Len(h) + 1]>>

\* get_dependency_annotation: the state's own, else the last of the stack, else a new one.
Dependency(h, s) ==
  IF s.dep # 0 THEN <<h, s>>
  ELSE IF s.stack # <<>> THEN <<h, [s EXCEPT !.dep = Last(s.stack), !.stack = Front(s.stack)]>>
  ELSE <<Append(h, NewDependency), [s EXCEPT !.dep = Len(h) + 1]>>

\* Mutant: the first slot of a transaction creates its set and is not put into it.
ExtendDangling(hs, ref, key, slot) ==
  LET id == hs[1][ref].written[key]
  IN  IF id = 0
      THEN <<[hs[1] EXCEPT ![ref].written[key] = Len(hs[2]) + 1], hs[2]>>
      ELSE <<hs[1], [hs[2] EXCEPT ![id] = @ \cup {slot}]>>

\* extend_storage_write_cache, on the heaps of annotations and of sets.
Extend(hs, ref, key, slot) ==
  LET id == hs[1][ref].written[key]
  IN  IF id = 0
      THEN <<[hs[1] EXCEPT ![ref].written[key] = Len(hs[2]) + 1], Append(hs[2], {slot})>>
      ELSE <<hs[1], [hs[2] EXCEPT ![id] = @ \cup {slot}]>>

Position == IF search = "dfs" THEN Len(work) ELSE 1

\* The state exec pops, and the list with its successors.
Popped == work[Position]
Push(states) ==
  work' = SubSeq(work, 1, Position - 1) \o SubSeq(work, Position + 1, Len(work)) \o states

\* Behind a fork comes a JUMPDEST or, as hooked instructions need operands, an
\* instruction without hooks or a STOP.
Running == work # <<>>
Free == Running /\ Popped.behind = "no"

Count == hooked < MaxHooked /\ hooked' = hooked + 1

-------------------------------------------------------------------------------
(* Instructions *)

Init ==
  /\ search \in Searches
  /\ iteration = 0
  /\ work = <<>>
  /\ open = <<[stack |-> <<>>, ran |-> <<>>, wrote |-> <<>>]>>
  /\ objs = <<>> /\ sets = <<>> /\ lists = <<>>
  /\ cache = {} /\ missed = {} /\ lost = {}
  /\ hooked = 0

\* A round: the states the guider picks, all of them in an unguided run.
NextRound ==
  /\ work = <<>>
  /\ iteration < Rounds
  /\ \E S \in SUBSET DOMAIN open :
       /\ Cardinality(S) \in 1..MaxPicked
       /\ LET Pick(T) == [n \in 1..Cardinality(T) |->
                            open[CHOOSE j \in T : Cardinality({m \in T : m <= j}) = n]]
              picked == Pick(S)
          IN  /\ work' = [n \in DOMAIN picked |-> Started(picked[n])]
              /\ open' = Pick(DOMAIN open \ S)
  /\ iteration' = iteration + 1
  /\ UNCHANGED <<search, heaps, issueVars, hooked>>

\* An instruction without hooks: only its copy matters.
Plain ==
  /\ Running
  /\ Popped.behind # "no"
  /\ LET c == Copied(objs, Popped)
     IN  objs' = c[1] /\ Push(<<[c[2] EXCEPT !.behind = "no"]>>)
  /\ UNCHANGED <<search, iteration, open, sets, lists, issueVars, hooked>>

\* JUMP, a JUMPI with a constant condition, SLOAD: a hook asks for the annotation.
Jump ==
  /\ Free
  /\ Popped.dep = 0
  /\ LET c == Copied(objs, Popped)
         d == Dependency(c[1], c[2])
     IN  objs' = d[1] /\ Push(<<d[2]>>)
  /\ UNCHANGED <<search, iteration, open, sets, lists, issueVars, hooked>>

\* JUMPI: two copies of the state, then its post hook on both; a jump of the dispatcher
\* enters a function.
Jumpi ==
  /\ Free
  /\ Count
  /\ \E f \in IF Popped.fn = Fallback THEN Functions \cup {Fallback} ELSE {Popped.fn} :
       LET c1 == Copied(objs, Popped)
           c2 == Copied(c1[1], Popped)
           d1 == Dependency(c2[1], c1[2])
           d2 == Dependency(d1[1], c2[2])
       IN  /\ objs' = d2[1]
           /\ Push(<<[d1[2] EXCEPT !.behind = "fork"],
                     [d2[2] EXCEPT !.behind = "dest", !.fn = f]>>)
  /\ UNCHANGED <<search, iteration, open, sets, lists, issueVars>>

\* Mutant: the slot is filed under the length of the sequence.
StoredOneTooEarly(hs, ref, slot) ==
  LET a == Extend(hs, ref, iteration, slot)
  IN  IF hs[1][ref].ftn_seq = <<>> THEN a ELSE Extend(a, ref, Len(a[1][ref].ftn_seq), slot)

\* sstore_hook: under the iteration and under the number of the transaction.
Stored(hs, ref, slot) ==
  LET a == Extend(hs, ref, iteration, slot)
  IN  Extend(a, ref, Len(a[1][ref].ftn_seq) + 1, slot)

Sstore ==
  /\ Free
  /\ Count
  /\ \E slot \in Slots :
       LET d == Dependency(objs, Popped)
           w == Stored(<<d[1], sets>>, d[2].dep, slot)
           c == Copied(w[1], d[2])
           n == Len(c[2].wrote)
       IN  /\ objs' = c[1] /\ sets' = w[2]
           /\ Push(<<IF c[2].own THEN [c[2] EXCEPT !.wrote[n] = @ \cup {slot}] ELSE c[2]>>)
  /\ UNCHANGED <<search, iteration, open, lists, issueVars>>

\* A hook of a detection module with potential issues: the annotation is created at the
\* first hook, its list is shared by the copies made from then on.
Detect ==
  /\ Free
  /\ Count
  /\ \E site \in Sites \ cache, issue \in BOOLEAN :
       LET s  == IF Popped.pot = 0 THEN [Popped EXCEPT !.pot = Len(lists) + 1] ELSE Popped
           ls == IF Popped.pot = 0 THEN Append(lists, {}) ELSE lists
           c  == Copied(objs, s)
       IN  /\ objs' = c[1]
           /\ lists' = IF issue THEN [ls EXCEPT ![s.pot] = @ \cup {site}] ELSE ls
           /\ Push(<<IF issue THEN [c[2] EXCEPT !.found = @ \cup {site}] ELSE c[2]>>)
  /\ UNCHANGED <<search, iteration, open, sets, issueVars>>

-------------------------------------------------------------------------------
(* Nested calls *)

\* CALL and STATICCALL are hooked, DELEGATECALL is not.  The callee starts without
\* annotations and on the world state of the caller.
Call ==
  /\ Free
  /\ Count
  /\ \E kind \in CallKinds :
       LET d == IF kind = "DELEGATECALL" THEN <<objs, Popped>> ELSE Dependency(objs, Popped)
       IN  /\ objs' = d[1]
           /\ Push(<<[d[2] EXCEPT !.fn = Fallback, !.dep = 0, !.pot = 0,
                                  !.found = {}, !.inner = {},
                                  !.own = @ /\ kind = "DELEGATECALL",
                                  !.callers = Append(@, d[2])]>>)
  /\ UNCHANGED <<search, iteration, open, sets, lists, issueVars>>

\* _transaction_end: the pre hook of STOP and RETURN.
TransactionEnd(h, s) ==
  LET d == Dependency(h, s)
  IN  <<[d[1] EXCEPT ![d[2].dep].ftn_seq = Append(@, s.fn)], d[2]>>

\* STOP or RETURN of a callee: the caller goes on with the world state of the callee, and
\* without its issues: PotentialIssuesAnnotation does not persist over calls.
EndCall ==
  /\ Free
  /\ Popped.callers # <<>>
  /\ LET e == TransactionEnd(objs, Popped)
         c == Copied(e[1], Last(Popped.callers))
     IN  /\ objs' = c[1]
         /\ Push(<<[c[2] EXCEPT !.stack = e[2].stack, !.wrote = e[2].wrote,
                                !.inner = @ \cup Popped.found \cup Popped.inner]>>)
  /\ UNCHANGED <<search, iteration, open, sets, lists, issueVars, hooked>>

\* REVERT or an exception in a callee: the caller goes on with its own world state.
RevertCall ==
  /\ Free
  /\ Popped.callers # <<>>
  /\ LET c == Copied(objs, Last(Popped.callers))
     IN  objs' = c[1] /\ Push(<<c[2]>>)
  /\ UNCHANGED <<search, iteration, open, sets, lists, issueVars, hooked>>

-------------------------------------------------------------------------------
(* The end of a transaction *)

\* world_state_filter_hook: the annotation joins the stack of the world state.
AddWorldState(h, s, ran) ==
  LET d == Dependency(h, s)
  IN  /\ objs' = d[1]
      /\ open' = Append(open, [stack |-> Append(d[2].stack, d[2].dep),
                               ran |-> ran, wrote |-> s.wrote])

\* Mutant: only the issues no other path has reported are looked at.
CheckNewOnly(s) ==
  LET issues == IF s.pot = 0 THEN {} ELSE lists[s.pot] \ cache
  IN  \E sat \in SUBSET issues :
        /\ cache' = cache \cup sat
        /\ missed' = missed \cup (s.found \ issues)
        /\ lost' = lost \cup (s.inner \ issues)

\* check_potential_issues: what is satisfiable at the end of the path is reported.
Check(s) ==
  LET issues == IF s.pot = 0 THEN {} ELSE lists[s.pot]
  IN  \E sat \in SUBSET issues :
        /\ cache' = cache \cup sat
        /\ missed' = missed \cup (s.found \ issues)
        /\ lost' = lost \cup (s.inner \ issues)

EndTransaction ==
  /\ Running
  /\ Popped.behind = "no" \/ (Popped.behind = "fork" /\ EarlyStop)
  /\ Popped.callers = <<>>
  /\ Check(Popped)
  /\ LET e == TransactionEnd(objs, Popped)
         c == Copied(e[1], e[2])
     IN  AddWorldState(c[1], c[2], Append(Popped.ran, Popped.fn))
  /\ Push(<<>>)
  /\ UNCHANGED <<search, iteration, sets, lists, hooked>>

\* REVERT or an exception of the transaction: the path is dropped.
FailTransaction ==
  /\ Free
  /\ Popped.callers = <<>>
  /\ Push(<<>>)
  /\ UNCHANGED <<search, iteration, open, heaps, issueVars, hooked>>

\* execute_state behind the last instruction: no pre hook, no check.
OffCode ==
  /\ Free
  /\ Popped.callers = <<>>
  /\ AddWorldState(objs, Popped, Popped.ran)
  /\ Push(<<>>)
  /\ UNCHANGED <<search, iteration, sets, lists, issueVars, hooked>>

Done ==
  /\ work = <<>>
  /\ iteration = Rounds \/ open = <<>>
  /\ UNCHANGED vars

Next ==
  \/ NextRound \/ Plain \/ Jump \/ Jumpi \/ Sstore \/ Detect
  \/ Call \/ EndCall \/ RevertCall
  \/ EndTransaction \/ FailTransaction \/ OffCode \/ Done

Spec == Init /\ [][Next]_vars

-------------------------------------------------------------------------------
(* Properties *)

\* What get_ftn_seq_annotation_from_ws reads of a world state.
Recorded(ws) == IF ws.stack = <<>> THEN NewDependency ELSE objs[ws.stack[1]]

\* The heaps, the states and the history keep their types.
TypeOK ==
  /\ search \in Searches /\ iteration \in 0..Rounds /\ hooked \in 0..MaxHooked
  /\ objs \in Seq(Dependencies)
  /\ sets \in Seq(SUBSET Slots) /\ lists \in Seq(SUBSET Sites)
  /\ \A k \in DOMAIN objs, n \in Keys : objs[k].written[n] <= Len(sets)
  /\ \A k \in DOMAIN work :
       /\ work[k].dep \in 0..Len(objs) /\ work[k].pot \in 0..Len(lists)
       /\ work[k].stack \in Seq(DOMAIN objs)
  /\ \A k \in DOMAIN open : open[k].stack \in Seq(DOMAIN objs)
  /\ cache \subseteq Sites /\ missed \subseteq Sites /\ lost \subseteq Sites

\* The sequence the guided search reads from a world state ("carrying over state
\* annotations from the STOP and RETURN states of the previous states",
\* get_dependency_annotation) is the sequence of the transactions that led to it and ended
\* by STOP or RETURN.
SeqIsPath == \A k \in DOMAIN open : Recorded(open[k]).ftn_seq = open[k].ran

\* DependencyAnnotation: "tracks read and write access to the state during each
\* transaction": what a transaction wrote is known under its number.
WritesKnown ==
  \A k \in DOMAIN open, n \in Keys :
    n \in DOMAIN open[k].wrote /\ open[k].wrote[n] # {} =>
      LET id == Recorded(open[k]).written[n]
      IN  id # 0 /\ open[k].wrote[n] \subseteq sets[id]

\* Two states never hold one annotation object, the two sides of a fork excepted until
\* each has executed an instruction: a name appended for one would be read by the other.
AnnotationsPrivate ==
  /\ \A j, k \in DOMAIN work :
       j # k /\ work[j].dep # 0 /\ work[j].dep = work[k].dep =>
         work[j].behind # "no" /\ work[k].behind # "no"
  /\ \A j, k \in DOMAIN open :
       j # k => \A a \in DOMAIN open[j].stack, b \in DOMAIN open[k].stack :
                  open[j].stack[a] # open[k].stack[b]
  /\ \A j \in DOMAIN work, k \in DOMAIN open :
       \A a \in DOMAIN open[k].stack : open[k].stack[a] # work[j].dep

\* Every issue a path found in the code of a transaction, between its calls, is looked at
\* when the transaction ends by STOP or RETURN, whatever was called meanwhile and whatever
\* other paths have reported and cached.
OwnIssuesChecked == missed = {}

\* check_potential_issues: "Called at the end of a transaction, checks potential issues, and
\* adds valid issues to the detector": so for the issues found in the calls a transaction
\* makes, if the callees and the transaction end by STOP or RETURN.
CalleeIssuesChecked == lost = {}
===============================================================================
