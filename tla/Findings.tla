-------------------------------- MODULE Findings --------------------------------
(***************************************************************************)
(* The detection modules that follow calls, state accesses and halts, their   *)
(* caches and the session they run in: mythril/analysis/module (base.py,      *)
(* util.py and eleven modules), potential_issues.py, security.py and the loop *)
(* over the contracts in mythril_analyzer.py.                                *)
(*                                                                           *)
(* A path is the set of the valuations that satisfy its condition: of the     *)
(* results of its calls, and whether the attacker has sent the transaction.   *)
(***************************************************************************)
EXTENDS Integers, Sequences, FiniteSets, SequencesExt

CONSTANTS
  Sessions    \* the programs of the contracts analysed, one after the other

Calls == {"CALL", "CALLCODE", "DELEGATECALL", "STATICCALL"}
CALL_LIST == Calls \ {"STATICCALL"}
STATE_READ_WRITE_LIST == {"SSTORE", "SLOAD", "CREATE"}

\* to is where a call goes, or whether an operand is the user's; third is stack[-3]; n is
\* the number of the result of a call, what a JUMPI checks, or the target of a JUMP.
Instructions ==
  [op : Calls \cup STATE_READ_WRITE_LIST
          \cup {"JUMP", "JUMPI", "LOG1", "STOP", "RETURN", "SELFDESTRUCT", "INVALID", "REVERT"},
   to : {"user", "fixed", "loaded", "precompile"}, gas : {"low", "high"}, third : Nat, n : Nat]

\* Every call has a number for its result.
ASSUME SessionsAssumption ==
  \A s \in Sessions :
    /\ s \in Seq(Seq(Instructions)) /\ s # <<>>
    /\ \A c \in DOMAIN s : \A p \in DOMAIN s[c] : s[c][p].op \in Calls => s[c][p].n \in 1..3

VARIABLES
  codes,      \* the program of each contract
  contract,   \* the contract being analysed
  paths,      \* the states of the symbolic machine
  boxes,      \* the PotentialIssuesAnnotation objects
  cache,      \* where a module does not look any more
  issues,     \* module.issues of the singletons
  report      \* all_issues

vars == <<codes, contract, paths, boxes, cache, issues, report>>

\* Code that is the same has the same hash.
Models == [ok : [1..3 -> 0..1], attacker : BOOLEAN]
code == codes[contract]

\* done is what the path has executed.
Path == [pc |-> 1, models |-> Models, call_offsets |-> <<>>, retvals |-> {}, calls |-> <<>>,
         last_jump |-> 0, box |-> 0, done |-> <<>>, status |-> "run"]

Init ==
  /\ codes \in Sessions
  /\ contract = 1
  /\ paths = <<Path>>
  /\ boxes = <<>>
  /\ cache = {}
  /\ issues = {}
  /\ report = {}

-------------------------------------------------------------------------------
(* Hooks *)

Issue(module, at) == [module |-> module, at |-> at, code |-> code, contract |-> contract]
Place(module, at) == [module |-> module, at |-> at, code |-> code]

\* DetectionModule.execute
Cached(module, at) == Place(module, at) \in cache

\* A call that forwards gas to an address that is not a precompile's.
Forwards(i) == i.gas = "high" /\ i.to # "precompile"

\* stack[-3]: the value of CALL and CALLCODE, and where the input of DELEGATECALL starts.
_balance_change(i) == i.third > 0

\* Mutant: the annotations of earlier calls are lost at a call.
StateChange_last(s, i) ==
  IF i.op \notin CALL_LIST \cup STATE_READ_WRITE_LIST \/ Cached("change", s.pc)
  THEN [calls |-> s.calls, found |-> {}]
  ELSE [calls |-> IF i.op \notin CALL_LIST THEN s.calls
                  ELSE IF Forwards(i) THEN <<[user |-> i.to = "user", touched |-> FALSE]>> ELSE <<>>,
        found |-> IF s.calls # <<>> /\ i.op \in STATE_READ_WRITE_LIST
                  THEN {[module |-> "change", at |-> s.pc, when |-> Models]} ELSE {}]

\* StateChangeAfterCall._analyze_state, for the calls the path has made so far: what is
\* accessed goes to every one of them, and each that may be made gives an issue.  The
\* annotation of this call is made behind.
StateChange(s, i) ==
  LET touched == i.op \in STATE_READ_WRITE_LIST \/ (i.op \in CALL_LIST /\ _balance_change(i))
      calls == [n \in DOMAIN s.calls |-> [s.calls[n] EXCEPT !.touched = @ \/ touched]]
  IN  IF i.op \notin CALL_LIST \cup STATE_READ_WRITE_LIST \/ Cached("change", s.pc)
      THEN [calls |-> s.calls, found |-> {}]
      ELSE [calls |-> IF i.op \in CALL_LIST /\ Forwards(i) /\ s.models # {}
                      THEN Append(calls, [user |-> i.to = "user", touched |-> FALSE]) ELSE calls,
            found |-> IF s.models # {} /\ \E n \in DOMAIN calls : calls[n].touched
                      THEN {[module |-> "change", at |-> s.pc, when |-> Models]} ELSE {}]

Attacked == {m \in Models : m.attacker}

\* ExternalCalls: gas and address are asked for now and again at the end.
ExternalCalls(s, i) ==
  IF i.op = "CALL" /\ Forwards(i) /\ i.to = "user" /\ s.models # {}
  THEN {[module |-> "calls", at |-> s.pc, when |-> Models]} ELSE {}

\* ArbitraryDelegateCall, ArbitraryStorage: nothing is asked before the end.
ArbitraryDelegateCall(s, i) ==
  IF i.op = "DELEGATECALL"
  THEN {[module |-> "delegatecall", at |-> s.pc,
         when |-> IF Forwards(i) /\ i.to = "user" THEN {m \in Attacked : m.ok[i.n] = 1} ELSE {}]}
  ELSE {}
ArbitraryStorage(s, i) ==
  IF i.op = "SSTORE" THEN {[module |-> "write", at |-> s.pc, when |-> IF i.to = "user" THEN s.models ELSE {}]} ELSE {}

\* EtherThief, a post hook of CALL and STATICCALL: the balance of the attacker has grown.
EtherThief(s, i) ==
  IF i.op = "CALL" /\ i.to = "user" /\ i.third > 0 /\ s.models \cap Attacked # {}
  THEN {[module |-> "thief", at |-> s.pc, when |-> s.models \cap Attacked]} ELSE {}

AccidentallyKillable(s, i) == i.op = "SELFDESTRUCT" /\ s.models \cap Attacked # {} /\ ~Cached("suicide", s.pc)
ArbitraryJump(s, i)  == i.op = "JUMP" /\ i.to = "user" /\ s.models # {} /\ ~Cached("jump", s.pc)
UserAssertions(s, i) == i.op = "LOG1" /\ i.to = "user" /\ s.models # {} /\ ~Cached("assertions", s.pc)

\* An assertion is known by the JUMP before it.
Exceptions(s, i) == i.op = "INVALID" /\ s.models # {} /\ ~Cached("exceptions", s.last_jump)

\* What is reported at once.
Immediate(s, i) ==
  (IF AccidentallyKillable(s, i) THEN {"suicide"} ELSE {})
  \cup (IF ArbitraryJump(s, i) THEN {"jump"} ELSE {})
  \cup (IF UserAssertions(s, i) THEN {"assertions"} ELSE {})
  \cup (IF Exceptions(s, i) THEN {"exceptions"} ELSE {})

\* Mutant: of two results, the first decides.
UncheckedRetval_first(s) == {r \in s.retvals : \A v \in 0..1 : \E m \in s.models : m.ok[1] = v}

\* Both results are possible at the end.
UncheckedRetval(s) == {r \in s.retvals : \A v \in 0..1 : \E m \in s.models : m.ok[r.n] = v}

\* The second call of the path.
MultipleSends(s) == IF s.models # {} /\ Len(s.call_offsets) > 1 THEN {s.call_offsets[2]} ELSE {}

-------------------------------------------------------------------------------
(* Steps *)

Instr(k) == code[paths[k].pc]

\* Behind the end of the code there is no instruction, and no module is asked.
Running(k, ops) ==
  contract <= Len(codes) /\ paths[k].status = "run" /\ paths[k].pc \in DOMAIN code /\ Instr(k).op \in ops

Report(found) ==
  /\ issues' = issues \cup {Issue(f.module, f.at) : f \in found}
  /\ cache' = cache \cup {Place(f.module, f.at) : f \in found}

Asked(i) ==
  CASE i.op = "CALL" -> {"change", "calls"} \cup (IF i.to = "loaded" THEN {} ELSE {"thief"})
    [] i.op = "CALLCODE" -> {"change"}
    [] i.op = "DELEGATECALL" -> {"change", "delegatecall"}
    [] i.op = "STATICCALL" -> IF i.to = "loaded" THEN {} ELSE {"thief"}
    [] i.op = "SSTORE" -> {"change", "write"}
    [] i.op \in STATE_READ_WRITE_LIST \ {"SSTORE"} -> {"change"}
    [] OTHER -> {}

\* get_potential_issues_annotation: the first module that runs adds an object, whose list the
\* copies of the state share.  A post hook looks into the cache with the address behind the call,
\* and EtherThief reports the call: there is another instruction between two calls.
Potential(k, i) ==
  LET s == paths[k]
      asked == {m \in Asked(i) : m = "thief" \/ ~Cached(m, s.pc)}
      found == {f \in StateChange(s, i).found \cup ExternalCalls(s, i) \cup ArbitraryDelegateCall(s, i)
                        \cup ArbitraryStorage(s, i) \cup EtherThief(s, i) : f.module \in asked}
  IN  IF asked = {} THEN [box |-> s.box, boxes |-> boxes]
      ELSE IF s.box = 0 THEN [box |-> Len(boxes) + 1, boxes |-> Append(boxes, found)]
      ELSE [box |-> s.box, boxes |-> [boxes EXCEPT ![s.box] = @ \cup found]]

Done(s) == [s EXCEPT !.done = Append(@, s.pc), !.pc = @ + 1]

\* A call that is answered at once.  The post hooks of CALL run, but not when its callee is
\* known: such a call ends in _end_message_call.  UncheckedRetval
\* looks into its cache with the address behind the call, too.
Call == \E k \in DOMAIN paths :
  /\ Running(k, Calls)
  /\ LET s == paths[k]
         i == Instr(k)
         p == Potential(k, i)
     IN  /\ paths' = [paths EXCEPT ![k] = [Done(s) EXCEPT
              !.call_offsets = IF Cached("sends", s.pc) THEN @ ELSE Append(@, s.pc),
              !.retvals = IF i.to = "loaded" THEN @ ELSE @ \cup {[at |-> s.pc, n |-> i.n]},
              !.models = IF i.to = "precompile" THEN {m \in @ : m.ok[i.n] = 1} ELSE @,
              !.calls = StateChange(s, i).calls,
              !.box = p.box]]
         /\ boxes' = p.boxes
  /\ UNCHANGED <<codes, contract, cache, issues, report>>

\* A symbolic target ends the path.
Access == \E k \in DOMAIN paths :
  /\ Running(k, {"SSTORE", "SLOAD", "CREATE", "JUMP", "LOG1"})
  /\ LET s == paths[k]
         i == Instr(k)
         p == Potential(k, i)
         on == [Done(s) EXCEPT !.calls = StateChange(s, i).calls, !.box = p.box]
     IN  /\ paths' = [paths EXCEPT ![k] =
              IF i.op # "JUMP" THEN on
              ELSE IF i.to = "user" THEN [on EXCEPT !.status = "failed"]
              ELSE [on EXCEPT !.last_jump = s.pc, !.pc = i.n]]
         /\ boxes' = p.boxes
         /\ Report({[module |-> m, at |-> s.pc] : m \in Immediate(s, i)})
  /\ UNCHANGED <<codes, contract, report>>

\* A check of a result, or of the sender; the failure branch is at the end of the code.
Jumpi == \E k \in DOMAIN paths :
  /\ Running(k, {"JUMPI"})
  /\ LET s == Done(paths[k])
         i == Instr(k)
         holds == {m \in s.models : IF i.n = 0 THEN ~m.attacker ELSE m.ok[i.n] = 1}
     IN  paths' = Append([paths EXCEPT ![k] = [s EXCEPT !.models = holds]],
                         [s EXCEPT !.models = @ \ holds,
                                   !.pc = IF i.to = "user" THEN @ + 1 ELSE Len(code)])
  /\ UNCHANGED <<codes, contract, boxes, cache, issues, report>>

\* check_potential_issues: an issue that is possible here is reported; the others make a new list
\* of this state, and the paths of a fork keep the list they share.
Possible(s, f) == s.models \cap f.when # {}

\* Mutant: the shared list is emptied instead.
Rebound_shared(s) ==
  [box |-> s.box, boxes |-> IF s.box = 0 THEN boxes ELSE [boxes EXCEPT ![s.box] = {}]]

Rebound(s) ==
  IF s.box = 0 THEN [box |-> 0, boxes |-> boxes]
  ELSE [box |-> Len(boxes) + 1, boxes |-> Append(boxes, {f \in boxes[s.box] : ~Possible(s, f)})]

Commit == \E k \in DOMAIN paths :
  /\ Running(k, {"STOP", "RETURN", "SELFDESTRUCT"})
  /\ LET s == paths[k]
         i == Instr(k)
         box == IF s.box = 0 THEN {} ELSE boxes[s.box]
         left == Rebound(s)
         ended == IF i.op = "SELFDESTRUCT" THEN {}
                  ELSE {[module |-> "retval", at |-> r.at] : r \in UncheckedRetval(s)}
                         \cup {[module |-> "sends", at |-> a] : a \in MultipleSends(s)}
     IN  /\ Report({[module |-> m, at |-> s.pc] : m \in Immediate(s, i)} \cup ended
                     \cup {[module |-> f.module, at |-> f.at] : f \in {g \in box : Possible(s, g)}})
         /\ boxes' = left.boxes
         /\ paths' = [paths EXCEPT ![k] = [Done(s) EXCEPT !.status = "stopped", !.box = left.box]]
  /\ UNCHANGED <<codes, contract, report>>

Fail == \E k \in DOMAIN paths :
  /\ Running(k, {"INVALID", "REVERT"})
  /\ LET s == paths[k]
     IN  /\ paths' = [paths EXCEPT ![k] = [Done(s) EXCEPT !.status = "failed"]]
         /\ issues' = issues \cup {Issue(m, s.pc) : m \in Immediate(s, Instr(k))}
         /\ cache' = cache \cup {Place(m, s.last_jump) : m \in Immediate(s, Instr(k))}
  /\ UNCHANGED <<codes, contract, boxes, report>>

\* fire_lasers, retrieve_callback_issues: the issues of a contract are collected and the
\* modules reset, but not their caches.  An exception, or an interrupt, ends the analysis
\* of a contract at any point.
Retrieve ==
  /\ contract <= Len(codes)
  /\ contract' = contract + 1
  /\ report' = report \cup issues
  /\ issues' = {}
  /\ paths' = <<Path>>
  /\ boxes' = <<>>
  /\ UNCHANGED <<codes, cache>>

Next == Call \/ Access \/ Jumpi \/ Commit \/ Fail \/ Retrieve

Spec == Init /\ [][Next]_vars

-------------------------------------------------------------------------------
(* Properties *)

Reported(module, at) ==
  \E r \in issues \cup report : r.module = module /\ r.at = at /\ r.code = code

\* What has happened on a path that was committed and is possible: positions of done.
Committed(s) == contract <= Len(codes) /\ s.status = "stopped" /\ s.models # {}
Did(s, ops) == {d \in DOMAIN s.done : code[s.done[d]].op \in ops}
At(s, d) == code[s.done[d]]

\* Whatever other paths, or other contracts with the same code, have put into the caches:
\* a call whose result a committed path leaves open is reported, and so is one of the calls
\* of a path that makes several.  Calls into a loaded contract are not looked at.
CallsReported ==
  \A k \in DOMAIN paths : LET s == paths[k] IN Committed(s) /\ code[Last(s.done)].op # "SELFDESTRUCT" =>
    /\ \A d \in Did(s, Calls) :
         \/ At(s, d).to = "loaded"
         \/ \E v \in 0..1 : \A m \in s.models : m.ok[At(s, d).n] = v
         \/ Reported("retval", s.done[d])
    /\ Cardinality(Did(s, Calls)) > 1 => \E d \in Did(s, Calls) : Reported("sends", s.done[d])

\* An access to the state behind an external call is reported, if not where it is then at
\* the call.
StateChangesReported ==
  \A k \in DOMAIN paths : LET s == paths[k] IN Committed(s) =>
    \A d \in Did(s, STATE_READ_WRITE_LIST), c \in Did(s, CALL_LIST) :
      c < d /\ Forwards(At(s, c)) => Reported("change", s.done[d]) \/ Reported("change", s.done[c])

\* What an attacker can do on a committed path is reported, although the condition is
\* checked again at the end, from a list that the paths of a fork share.
AttacksReported ==
  \A k \in DOMAIN paths : LET s == paths[k] IN Committed(s) =>
    \A d \in DOMAIN s.done : LET i == At(s, d) IN
      /\ i.op = "DELEGATECALL" /\ i.to = "user" /\ Forwards(i)
           /\ (\E m \in s.models : m.attacker /\ m.ok[i.n] = 1) => Reported("delegatecall", s.done[d])
      /\ i.op = "SSTORE" /\ i.to = "user" => Reported("write", s.done[d])
      /\ i.op = "CALL" /\ i.to = "user" /\ Forwards(i) => Reported("calls", s.done[d])
      /\ i.op = "CALL" /\ i.to = "user" /\ i.third > 0 /\ s.models \cap Attacked # {} => Reported("thief", s.done[d])
      /\ i.op = "SELFDESTRUCT" /\ s.models \cap Attacked # {} => Reported("suicide", s.done[d])
===============================================================================
