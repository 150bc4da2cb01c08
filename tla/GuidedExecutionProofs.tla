------------------------ MODULE GuidedExecutionProofs ------------------------
(* Theorems about GuidedExecution, for every contract and every setting. *)
EXTENDS GuidedExecution, FiniteSetTheorems, TLAPS

-------------------------------------------------------------------------------
(* Lemmas about the operators of the model *)

\* A function on 1..n is a sequence of length n.
LEMMA FunctionIsSequence ==
  ASSUME NEW S, NEW n \in Nat, NEW s \in [1..n -> S]
  PROVE  s \in Seq(S) /\ Len(s) = n
  OBVIOUS

\* organize_states keeps finitely many states, so state_index stays a number.
LEMMA KeptFinite ==
  ASSUME openStates \in Seq(WorldStates)
  PROVE  /\ IsFiniteSet(Kept)
         /\ Cardinality(Kept) \in Nat
         /\ Kept \subseteq 1..Len(openStates)
  <1>1. Len(openStates) \in Nat /\ DOMAIN openStates = 1..Len(openStates)
    OBVIOUS
  <1>2. Kept \subseteq 1..Len(openStates)
    BY <1>1 DEF Kept
  <1>3. IsFiniteSet(1..Len(openStates))
    BY <1>1, FS_Interval
  <1>4. IsFiniteSet(Kept)
    BY <1>2, <1>3, FS_Subset
  <1>. QED
    BY <1>2, <1>4, FS_CardinalityType

\* The kept states before a state, and their number.
Below(j) == {m \in Kept : m < j}
Rank(j) == Cardinality(Below(j))

\* Ranks number the kept states from 0, without a gap at the end and without a clash.
LEMMA RankProperties ==
  ASSUME openStates \in Seq(WorldStates)
  PROVE  /\ \A j \in Kept : Rank(j) \in Nat /\ Rank(j) < Cardinality(Kept)
         /\ \A j, l \in Kept : j < l => Rank(j) < Rank(l)
  <1>1. Kept \subseteq Int /\ IsFiniteSet(Kept)
    BY KeptFinite
  <1>2. \A j : IsFiniteSet(Below(j)) /\ Rank(j) \in Nat
    BY <1>1, FS_Subset, FS_CardinalityType DEF Rank, Below
  <1>3. ASSUME NEW j \in Kept, NEW T \in SUBSET Kept, IsFiniteSet(T), Below(j) \subseteq T, j \in T
        PROVE  Rank(j) < Cardinality(T)
    <2>1. j \notin Below(j)
      BY <1>1 DEF Below
    <2>2. Cardinality(Below(j) \cup {j}) = Rank(j) + 1 /\ IsFiniteSet(Below(j) \cup {j})
      BY <1>2, <2>1, FS_AddElement DEF Rank
    <2>3. Cardinality(Below(j) \cup {j}) <= Cardinality(T)
      BY <1>3, FS_Subset
    <2>4. Cardinality(T) \in Nat
      BY <1>3, FS_CardinalityType
    <2>. QED
      BY <1>2, <2>2, <2>3, <2>4
  <1>4. ASSUME NEW j \in Kept
        PROVE  Rank(j) < Cardinality(Kept)
    <2>1. Below(j) \subseteq Kept
      BY DEF Below
    <2>. QED
      BY <1>1, <1>3, <2>1
  <1>5. ASSUME NEW j \in Kept, NEW l \in Kept, j < l
        PROVE  Rank(j) < Rank(l)
    <2>1. Below(j) \subseteq Below(l) /\ j \in Below(l) /\ Below(l) \in SUBSET Kept
      <3>1. \A m \in Kept : m < j => m < l
        BY <1>1, <1>5
      <3>. QED
        BY <1>5, <3>1 DEF Below
    <2>2. Rank(j) < Cardinality(Below(l))
      <3>1. IsFiniteSet(Below(l))
        BY <1>2
      <3>. QED
        BY <1>3, <2>1, <3>1
    <2>. QED
      BY <2>2 DEF Rank
  <1>. QED
    BY <1>2, <1>4, <1>5

\* The keys of a round carry open states below the limit and indices of their own.
LEMMA OrganizedKeysProperties ==
  ASSUME openStates \in Seq(WorldStates), stateIndex \in Nat
  PROVE  /\ OrganizedKeys \subseteq Keys
         /\ \A k \in OrganizedKeys : /\ stateIndex <= k.idx
                                     /\ k.idx < stateIndex + Cardinality(Kept)
                                     /\ Len(k.ws.seq) < SeqLenLimit
         /\ \A k, l \in OrganizedKeys : k.idx = l.idx => k = l
  <1>1. Kept \subseteq 1..Len(openStates) /\ Cardinality(Kept) \in Nat
    BY KeptFinite
  <1>2. \A j \in Kept : openStates[j] \in WorldStates /\ Len(openStates[j].seq) < SeqLenLimit
    BY <1>1 DEF Kept
  <1>3. OrganizedKeys = {Key(openStates[j], stateIndex + Rank(j)) : j \in Kept}
    BY DEF OrganizedKeys, Rank, Below
  <1>4. \A j \in Kept : Rank(j) \in Nat /\ Rank(j) < Cardinality(Kept)
    BY RankProperties
  <1>5. \A j, l \in Kept : Rank(j) = Rank(l) => j = l
    <2>1. \A j, l \in Kept : j < l \/ l < j \/ j = l
      BY <1>1
    <2>. QED
      BY <1>4, <2>1, RankProperties
  <1>6. OrganizedKeys \subseteq Keys
    BY <1>2, <1>3, <1>4 DEF Key, Keys
  <1>7. \A k \in OrganizedKeys : /\ stateIndex <= k.idx
                                 /\ k.idx < stateIndex + Cardinality(Kept)
                                 /\ Len(k.ws.seq) < SeqLenLimit
    BY <1>1, <1>2, <1>3, <1>4 DEF Key
  <1>8. ASSUME NEW k \in OrganizedKeys, NEW l \in OrganizedKeys, k.idx = l.idx
        PROVE  k = l
    <2>1. PICK j \in Kept : k = Key(openStates[j], stateIndex + Rank(j))
      BY <1>3
    <2>2. PICK m \in Kept : l = Key(openStates[m], stateIndex + Rank(m))
      BY <1>3
    <2>3. Rank(j) = Rank(m)
      BY <1>4, <1>8, <2>1, <2>2 DEF Key
    <2>. QED
      BY <1>5, <2>1, <2>2, <2>3
  <1>. QED
    BY <1>6, <1>7, <1>8

\* Only new keys are saved, only queued ones are left by the filter or chosen.
LEMMA SavedFilteredCandidates ==
  /\ \A new : SavedKeys(new) \subseteq new
  /\ \A keys : \A Q \in Filtered(keys) : Q \subseteq keys
  /\ \A keys : Candidates(keys) \subseteq keys
  <1>1. \A new : SavedKeys(new) \subseteq new
    BY DEF SavedKeys
  <1>2. \A keys : \A Q \in Filtered(keys) : Q \subseteq keys
    BY DEF Filtered
  <1>3. \A keys : Candidates(keys) \subseteq keys
    BY StrategyAssumption DEF Candidates
  <1>. QED
    BY <1>1, <1>2, <1>3

\* What is assigned to a state is a set of functions of the contract, or the marker.
LEMMA AssignedTypes ==
  ASSUME NEW g \in PartialGraphs, NEW seq, NEW unr \in SUBSET Ftns, NEW d \in SUBSET Ftns,
         NEW c, NEW t, NEW percent
  PROVE  /\ AssignFunctions(seq, d, c, t, g, unr) \subseteq Ftns \cup {OriginalInstructions}
         /\ \A fs \in AssignTimeout(Strategy, percent, seq, d, c, t, g) :
              fs \subseteq Ftns \cup {OriginalInstructions}
         /\ AssignAll \subseteq Ftns \cup {OriginalInstructions}
  <1>1. \A f \in Ftns : AllReads[f] \subseteq Ftns
    BY GraphAssumption
  <1>2. \A f : Children(g, f) \subseteq Ftns
    BY DEF Children, PartialGraphs
  <1>3. AssignFunctions(seq, d, c, t, g, unr) \subseteq Ftns \cup {OriginalInstructions}
    <2> DEFINE children == Children(g, seq[Len(seq)])
                 \cup (IF ConsiderAllReads /\ seq[Len(seq)] \in Ftns THEN AllReads[seq[Len(seq)]]
                                                                    ELSE {})
    <2>1. children \subseteq Ftns
      BY <1>1, <1>2
    <2>2. AssignFunctions(seq, d, c, t, g, unr)
            \subseteq children \cup unr \cup {OriginalInstructions}
      BY DEF AssignFunctions
    <2>. QED
      BY <2>1, <2>2
  <1>4. ASSUME NEW fs \in AssignTimeout(Strategy, percent, seq, d, c, t, g)
        PROVE  fs \subseteq Ftns \cup {OriginalInstructions}
    <2>1. \A wanted \in SUBSET Ftns : \A S \in RandomChoices(Strategy, percent, wanted) : S \subseteq Ftns
      BY DEF RandomChoices, Ftns
    <2>2. DkLeft(d, c, t) \in SUBSET Ftns
      BY DEF DkLeft
    <2>3. CASE FallbackCase(seq)
      BY <1>4, <2>3 DEF AssignTimeout
    <2>4. CASE ~FallbackCase(seq)
      <3> DEFINE last == seq[Len(seq)]
                 children == (IF last \in Ftns THEN AllReads[last] ELSE {})
                               \cap CanReach(g, DkLeft(d, c, t), SeqLenLimit - Len(seq) - 1)
      <3>1. children \subseteq Ftns
        BY <1>1
      <3>2. \E S \in RandomChoices(Strategy, percent, DkLeft(d, c, t)) :
              fs = S \cup (children \ Repeated(seq))
        BY <1>4, <2>4 DEF AssignTimeout
      <3>. QED
        BY <2>1, <2>2, <3>1, <3>2
    <2>. QED
      BY <2>3, <2>4
  <1>5. AssignAll \subseteq Ftns \cup {OriginalInstructions}
    BY DEF AssignAll, Ftns
  <1>. QED
    BY <1>3, <1>4, <1>5

\* The functions of a round join the counters, and the graph stays one.
LEMMA CountersAndGraph ==
  ASSUME NEW t \in [Ftns -> Nat], NEW fs, NEW g \in PartialGraphs, NEW f
  PROVE  RecordAssignment(t, fs) \in [Ftns -> Nat] /\ Pollute(g, f) \in PartialGraphs
  <1>1. RecordAssignment(t, fs) \in [Ftns -> Nat]
    BY DEF RecordAssignment
  <1>2. PICK D \in SUBSET Ftns : g \in [D -> SUBSET Ftns]
    BY DEF PartialGraphs
  <1>3. f \in D => AllReads[f] \subseteq Ftns
    BY <1>2, GraphAssumption
  <1>4. Pollute(g, f) \in [D -> SUBSET Ftns]
    BY <1>2, <1>3 DEF Pollute
  <1>. QED
    BY <1>1, <1>4 DEF PartialGraphs

\* One function more makes a world state of a world state.
LEMMA SuccessorTypes ==
  ASSUME openStates \in Seq(WorldStates), dispatch \subseteq Ftns
  PROVE  Successors \subseteq WorldStates
  <1>1. \A j \in DOMAIN openStates : openStates[j] \in WorldStates
    OBVIOUS
  <1>2. ASSUME NEW ws \in WorldStates, NEW f \in Ftns
        PROVE  After(ws, f) \in WorldStates /\ SilentAfter(ws, f) \in WorldStates
    <2>1. ws.seq \in Seq(Ftns) /\ ws.path \in Seq(Ftns)
      BY DEF WorldStates
    <2>2. Append(ws.seq, f) \in Seq(Ftns) /\ Append(ws.path, f) \in Seq(Ftns)
      BY <2>1
    <2>. QED
      BY <2>1, <2>2 DEF After, SilentAfter, WorldStates
  <1>. QED
    BY <1>1, <1>2 DEF Successors

-------------------------------------------------------------------------------
(* Type correctness *)

\* What a state returned by assign_states leaves behind is well typed.
LEMMA RunTypes ==
  ASSUME TypeOK,
         NEW k, NEW fs \in SUBSET (Ftns \cup {OriginalInstructions}),
         NEW q \in SUBSET Keys, NEW s \in SUBSET Keys,
         k \in q, Run(k, fs, q, s)
  PROVE  /\ pc' = "execute"
         /\ openStates' \in Seq(WorldStates)
         /\ dispatch' \subseteq Ftns
         /\ saved' \subseteq Keys /\ queue' \subseteq Keys /\ ran' \subseteq Keys
         /\ times' \in [Ftns -> Nat]
         /\ assigned' \subseteq Ftns \cup {OriginalInstructions}
         /\ txCount' = txCount /\ termination' = termination
  <1>1. k \in Keys /\ k.ws \in WorldStates
    BY DEF Keys
  <1>2. openStates' \in Seq(WorldStates)
    BY <1>1 DEF Run
  <1>3. dispatch' \subseteq Ftns
    BY DEF Run, Dispatcher, Ftns
  <1>4. times' \in [Ftns -> Nat]
    BY DEF Run, TypeOK, RecordAssignment
  <1>. QED
    BY <1>1, <1>2, <1>3, <1>4 DEF Run, TypeOK

LEMMA InitTypes == Init => TypeOK
  <1> SUFFICES ASSUME Init PROVE TypeOK
    OBVIOUS
  <1>1. openStates \in Seq(WorldStates)
    <2>1. PICK n \in 0..MaxGenesis : openStates = [j \in 1..n |-> Genesis]
      BY DEF Init
    <2>2. Genesis \in WorldStates
      BY DEF Genesis, WorldStates
    <2>3. n \in Nat /\ openStates \in [1..n -> WorldStates]
      BY <2>1, <2>2, BoundsAssumption
    <2>. QED
      BY <2>3, FunctionIsSequence
  <1>2. graph \in PartialGraphs
    <2>1. graph \in [{} -> SUBSET Ftns]
      BY DEF Init
    <2>. QED
      BY <2>1 DEF PartialGraphs
  <1>. QED
    <2>1. i = 0 /\ iteration = 0 /\ stateIndex = 0 /\ txCount \in Nat /\ pc = "loop"
      BY BoundsAssumption DEF Init
    <2>2. cov \in [Ftns -> 0..100] /\ contractCov \in 0..100 /\ times \in [Ftns -> Nat]
      BY DEF Init
    <2>3. /\ dispatch = Ftns /\ saved = {} /\ queue = {} /\ ran = {} /\ assigned = {}
          /\ dk = {} /\ unreachable = {} /\ effort = 0
          /\ oneStart = FALSE /\ termination = FALSE /\ timedOut = FALSE
      BY DEF Init
    <2>. QED
      BY <1>1, <1>2, <2>1, <2>2, <2>3 DEF TypeOK

LEMMA NextTypes == TypeOK /\ [Next]_vars => TypeOK'
  <1> SUFFICES ASSUME TypeOK, [Next]_vars PROVE TypeOK'
    OBVIOUS
  <1> USE DEF vars, loopVars, searchVars, covVars, assignVars, history
  <1>1. CASE UNCHANGED vars
    BY <1>1 DEF TypeOK
  <1>2. CASE Preprocess
    <2>1. stateIndex' \in Nat
      BY <1>2 DEF Preprocess, TypeOK
    <2>2. effort' \in {0, 1, 3, 5, 7}
      BY <1>2, DataAssumption DEF Preprocess, TypeOK
    <2>. QED
      BY <1>2, <2>1, <2>2 DEF Preprocess, TypeOK
  <1>3. CASE StartPhase1
    BY <1>3 DEF StartPhase1, TypeOK
  <1> DEFINE Started == /\ iteration' \in Nat /\ stateIndex' \in Nat
                        /\ dk' \subseteq Ftns
                        /\ UNCHANGED <<i, covVars, graph, unreachable, effort, timedOut>>
  <1>4. ASSUME StartPhase2 PROVE Started
    <2>1. Cardinality(Kept) \in Nat
      BY KeptFinite DEF TypeOK
    <2>. QED
      BY <1>4, <2>1 DEF StartPhase2, TypeOK, DeepFunctions
  <1>5. CASE StartNoTarget
    <2>1. Started
      BY <1>4, <1>5 DEF StartNoTarget
    <2>2. openStates' \in Seq(WorldStates)
      BY <1>5 DEF StartNoTarget, NothingToRun
    <2>. QED
      BY <1>5, <2>1, <2>2 DEF StartNoTarget, NothingToRun, TypeOK
  <1>6. CASE StartWithStates
    <2>1. StartPhase2 /\ Started
      BY <1>4, <1>6 DEF StartWithStates
    <2> DEFINE new == SavedKeys(OrganizedKeys)
    <2>2. new \subseteq Keys
      BY OrganizedKeysProperties, SavedFilteredCandidates DEF TypeOK
    <2>3. PICK q \in SUBSET (queue \cup new) :
             IF oneStart
             THEN /\ oneStart' = FALSE
                  /\ \/ \E k \in Candidates(q) : Run(k, AssignAll, q, saved \cup new)
                     \/ /\ q = {}
                        /\ pc' = "crashed"
                        /\ saved' = saved \cup new /\ queue' = q
                        /\ UNCHANGED <<txCount, openStates, dispatch, termination, times, history>>
             ELSE /\ saved' = saved \cup new /\ queue' = q /\ pc' = "assign"
                  /\ UNCHANGED <<txCount, openStates, dispatch, oneStart, termination, times,
                                 history>>
      BY <1>6, SavedFilteredCandidates DEF StartWithStates
    <2>4. q \in SUBSET Keys /\ saved \cup new \in SUBSET Keys
      BY <2>2 DEF TypeOK
    <2>5. CASE oneStart /\ \E k \in Candidates(q) : Run(k, AssignAll, q, saved \cup new)
      <3>1. PICK k \in q : Run(k, AssignAll, q, saved \cup new)
        BY <2>5, SavedFilteredCandidates
      <3>2. AssignAll \in SUBSET (Ftns \cup {OriginalInstructions})
        BY DEF AssignAll, Ftns
      <3>. HIDE DEF new
      <3>. QED
        BY <2>1, <2>3, <2>4, <2>5, <3>1, <3>2, RunTypes DEF TypeOK
    <2>6. CASE ~(oneStart /\ \E k \in Candidates(q) : Run(k, AssignAll, q, saved \cup new))
      <3>. HIDE DEF new
      <3>. QED
        BY <2>1, <2>3, <2>4, <2>6 DEF TypeOK
    <2>. QED
      BY <2>5, <2>6
  <1>7. CASE Assign
    <2>1. PICK k \in Candidates(queue), g \in PartialGraphs, fs \in SUBSET (Ftns \cup {OriginalInstructions}) :
             /\ graph' = g
             /\ IF fs = {}
                THEN /\ queue' = Dequeue(k)
                     /\ UNCHANGED <<pc, txCount, openStates, dispatch, saved, termination,
                                    times, history>>
                ELSE Run(k, fs, queue, saved)
      <3>1. PICK k \in Candidates(queue) :
              LET seq   == KeySeq(k)
                  g     == IF effort = 0 /\ ~FallbackCase(seq) THEN Pollute(graph, seq[Len(seq)])
                                                               ELSE graph
                  lists == IF effort = 0
                           THEN {AssignFunctions(seq, dk, cov, times, g, unreachable)}
                           ELSE AssignTimeout(Strategy, effort, seq, dk, cov, times, graph)
              IN  \E fs \in lists :
                    /\ graph' = g
                    /\ IF fs = {}
                       THEN /\ queue' = Dequeue(k)
                            /\ UNCHANGED <<pc, txCount, openStates, dispatch, saved, termination,
                                           times, history>>
                       ELSE Run(k, fs, queue, saved)
        BY <1>7 DEF Assign
      <3> DEFINE seq == KeySeq(k)
                 g == IF effort = 0 /\ ~FallbackCase(seq) THEN Pollute(graph, seq[Len(seq)])
                                                          ELSE graph
                 lists == IF effort = 0
                          THEN {AssignFunctions(seq, dk, cov, times, g, unreachable)}
                          ELSE AssignTimeout(Strategy, effort, seq, dk, cov, times, graph)
      <3>2. g \in PartialGraphs
        BY CountersAndGraph DEF TypeOK
      <3>. HIDE DEF g, seq
      <3>3. \A fs \in lists : fs \in SUBSET (Ftns \cup {OriginalInstructions})
        <4>1. AssignFunctions(seq, dk, cov, times, g, unreachable)
                \subseteq Ftns \cup {OriginalInstructions}
          BY <3>2, AssignedTypes DEF TypeOK
        <4>2. \A fs \in AssignTimeout(Strategy, effort, seq, dk, cov, times, graph) :
                 fs \subseteq Ftns \cup {OriginalInstructions}
          BY AssignedTypes DEF TypeOK
        <4>. QED
          BY <4>1, <4>2
      <3>4. PICK fs \in lists :
                    /\ graph' = g
                    /\ IF fs = {}
                       THEN /\ queue' = Dequeue(k)
                            /\ UNCHANGED <<pc, txCount, openStates, dispatch, saved, termination,
                                           times, history>>
                       ELSE Run(k, fs, queue, saved)
        BY <3>1 DEF g, seq
      <3>. QED
        BY <3>2, <3>3, <3>4
    <2>2. k \in queue
      BY SavedFilteredCandidates
    <2>3. UNCHANGED <<i, iteration, stateIndex, oneStart, covVars, dk, unreachable, effort,
                      timedOut>>
      BY <1>7 DEF Assign
    <2>4. CASE fs = {}
      BY <2>1, <2>3, <2>4 DEF TypeOK, Dequeue
    <2>5. CASE fs # {}
      <3>1. Run(k, fs, queue, saved) /\ queue \in SUBSET Keys /\ saved \in SUBSET Keys
        BY <2>1, <2>5 DEF TypeOK
      <3>. QED
        BY <2>1, <2>2, <2>3, <3>1, RunTypes DEF TypeOK
    <2>. QED
      BY <2>4, <2>5
  <1>8. CASE AssignNothing
    BY <1>8 DEF AssignNothing, TypeOK
  <1>9. CASE Execute
    <2>1. openStates' \in Seq(WorldStates)
      <3>1. CASE openStates = <<>> \/ timedOut
        <4>1. openStates' = <<>>
          BY <1>9, <3>1 DEF Execute
        <4>. QED
          BY <4>1
      <3>2. CASE ~(openStates = <<>> \/ timedOut)
        <4>1. PICK n \in 0..MaxOpen : openStates' \in [1..n -> Successors]
          BY <1>9, <3>2 DEF Execute
        <4>2. n \in Nat /\ openStates' \in [1..n -> WorldStates]
          BY <4>1, SuccessorTypes, BoundsAssumption DEF TypeOK
        <4>. QED
          BY <4>2, FunctionIsSequence
      <3>. QED
        BY <3>1, <3>2
    <2>2. cov' \in [Ftns -> 0..100] /\ contractCov' \in 0..100 /\ timedOut' \in BOOLEAN
      <3>1. CASE openStates = <<>> \/ timedOut
        BY <1>9, <3>1 DEF Execute, TypeOK
      <3>2. CASE ~(openStates = <<>> \/ timedOut)
        <4>1. cov' \in [Ftns -> CovLevels] /\ contractCov' \in CovLevels /\ timedOut' \in BOOLEAN
          BY <1>9, <3>2 DEF Execute
        <4>. QED
          BY <4>1, DataAssumption
      <3>. QED
        BY <3>1, <3>2
    <2>. QED
      BY <1>9, <2>1, <2>2 DEF Execute, TypeOK
  <1>10. CASE StopNoState
    BY <1>10 DEF StopNoState, TypeOK
  <1>11. CASE StopPhase1
    BY <1>11 DEF StopPhase1, EndRound, TypeOK
  <1>12. CASE StopLastOfPhase1
    <2>1. StrategyTermination \in BOOLEAN
      BY DEF StrategyTermination
    <2>2. dk' \subseteq Ftns /\ unreachable' \subseteq Ftns /\ graph' \in PartialGraphs
      BY <1>12, DataAssumption DEF StopLastOfPhase1, DeepFunctions, TypeOK
    <2>3. oneStart' \in BOOLEAN /\ times' \in [Ftns -> Nat]
      <3>1. CASE termination'
        BY <1>12, <3>1 DEF StopLastOfPhase1, TypeOK
      <3>2. CASE ~termination'
        BY <1>12, <3>2 DEF StopLastOfPhase1
      <3>. QED
        BY <3>1, <3>2
    <2>. QED
      BY <1>12, <2>1, <2>2, <2>3 DEF StopLastOfPhase1, EndRound, TypeOK
  <1>13. CASE StopPhase2
    <2>1. StrategyTermination \in BOOLEAN
      BY DEF StrategyTermination
    <2>. QED
      BY <1>13, <2>1 DEF StopPhase2, EndRound, TypeOK
  <1>14. CASE LoopExit
    BY <1>14 DEF LoopExit, TypeOK
  <1>15. CASE Finished
    BY <1>15 DEF Finished, TypeOK
  <1>. QED
    BY <1>1, <1>2, <1>3, <1>5, <1>6, <1>7, <1>8, <1>9, <1>10, <1>11, <1>12, <1>13, <1>14, <1>15
    DEF Next

\* The variables keep their types in every run of every contract.
THEOREM TypeCorrect == Spec => []TypeOK
  BY InitTypes, NextTypes, PTL DEF Spec

-------------------------------------------------------------------------------
(* Keys and stored states *)

\* KeysSound of a queue, stored states, executed states and a bound of the indices.
Sound(q, s, r, n) ==
  /\ q \subseteq s
  /\ s \cap r = {}
  /\ \A k \in s \cup r : k.idx < n
  /\ \A k, l \in s \cup r : k.idx = l.idx => k = l
  /\ \A k \in s : Len(k.ws.seq) < SeqLenLimit

\* The indices of a round lie above all older ones, so new keys can be added ...
LEMMA MergeSound ==
  ASSUME TypeOK, KeysSound,
         NEW new \in SUBSET OrganizedKeys, NEW q \in SUBSET (queue \cup new)
  PROVE  Sound(q, saved \cup new, ran, stateIndex + Cardinality(Kept))
  <1>1. Cardinality(Kept) \in Nat /\ stateIndex \in Nat
    BY KeptFinite DEF TypeOK
  <1>2. \A k \in new : /\ k.idx \in Nat /\ stateIndex <= k.idx
                       /\ k.idx < stateIndex + Cardinality(Kept)
                       /\ Len(k.ws.seq) < SeqLenLimit
    BY OrganizedKeysProperties DEF TypeOK, Keys
  <1>3. \A k, l \in new : k.idx = l.idx => k = l
    BY OrganizedKeysProperties DEF TypeOK
  <1>4. \A k \in saved \cup ran : k.idx \in Nat /\ k.idx < stateIndex
    BY DEF KeysSound, TypeOK, Keys
  <1>5. \A k \in new, l \in saved \cup ran : k.idx # l.idx /\ k # l
    BY <1>1, <1>2, <1>4
  <1>6. q \subseteq saved \cup new
    BY DEF KeysSound
  <1>7. (saved \cup new) \cap ran = {}
    BY <1>5 DEF KeysSound
  <1>8. \A k \in saved \cup new \cup ran : k.idx < stateIndex + Cardinality(Kept)
    BY <1>1, <1>2, <1>4
  <1>9. \A k, l \in saved \cup new \cup ran : k.idx = l.idx => k = l
    BY <1>3, <1>5 DEF KeysSound
  <1>10. \A k \in saved \cup new : Len(k.ws.seq) < SeqLenLimit
    BY <1>2 DEF KeysSound
  <1>. QED
    BY <1>6, <1>7, <1>8, <1>9, <1>10 DEF Sound

\* ... and a queued key moves from the stored to the executed states.
LEMMA RunSound ==
  ASSUME NEW q, NEW s, NEW n, NEW fs, NEW k \in q, Sound(q, s, ran, n), Run(k, fs, q, s)
  PROVE  Sound(queue', saved', ran', n)
  <1>1. queue' = q \ {k} /\ saved' = s \ {k} /\ ran' = ran \cup {k} /\ k \in s
    BY DEF Run, Sound
  <1>. QED
    BY <1>1 DEF Sound

LEMMA KeysStep == TypeOK /\ KeysSound /\ [Next]_vars => KeysSound'
  <1> SUFFICES ASSUME TypeOK, KeysSound, [Next]_vars PROVE KeysSound'
    OBVIOUS
  <1> USE DEF vars, loopVars, searchVars, covVars, assignVars, history
  <1>1. Cardinality(Kept) \in Nat /\ stateIndex \in Nat /\ Len(openStates) \in Nat
    BY KeptFinite DEF TypeOK
  <1>2. \A k \in saved \cup ran : k.idx \in Nat
    BY DEF TypeOK, Keys
  <1>3. CASE UNCHANGED <<saved, queue, ran, stateIndex>>
    BY <1>3 DEF KeysSound
  <1>4. CASE Preprocess \/ StartNoTarget
    <2>1. UNCHANGED <<saved, queue, ran>>
      BY <1>4 DEF Preprocess, StartNoTarget, NothingToRun
    <2>2. stateIndex' \in Nat /\ stateIndex <= stateIndex'
      BY <1>1, <1>4 DEF Preprocess, StartNoTarget, StartPhase2
    <2>. QED
      BY <1>1, <1>2, <2>1, <2>2 DEF KeysSound
  <1>5. CASE StartWithStates
    <2> DEFINE new == SavedKeys(OrganizedKeys)
    <2>1. new \in SUBSET OrganizedKeys
      BY SavedFilteredCandidates
    <2>2. PICK q \in SUBSET (queue \cup new) :
             \/ \E k \in Candidates(q) : Run(k, AssignAll, q, saved \cup new)
             \/ saved' = saved \cup new /\ queue' = q /\ UNCHANGED ran
      BY <1>5, SavedFilteredCandidates DEF StartWithStates
    <2>. HIDE DEF new
    <2>3. Sound(q, saved \cup new, ran, stateIndex')
      BY <1>5, <2>1, <2>2, MergeSound DEF StartWithStates, StartPhase2
    <2>4. Sound(queue', saved', ran', stateIndex')
      <3>1. CASE \E k \in Candidates(q) : Run(k, AssignAll, q, saved \cup new)
        <4>1. PICK k \in q : Run(k, AssignAll, q, saved \cup new)
          BY <3>1, SavedFilteredCandidates
        <4>. QED
          BY <2>3, <4>1, RunSound
      <3>2. CASE saved' = saved \cup new /\ queue' = q /\ UNCHANGED ran
        BY <2>3, <3>2
      <3>. QED
        BY <2>2, <3>1, <3>2
    <2>. QED
      BY <2>4 DEF Sound, KeysSound
  <1>6. CASE Assign
    <2>1. PICK k \in queue :
             \/ queue' = Dequeue(k) /\ UNCHANGED <<saved, ran>>
             \/ \E fs : Run(k, fs, queue, saved)
      BY <1>6, SavedFilteredCandidates DEF Assign
    <2>2. UNCHANGED stateIndex
      BY <1>6 DEF Assign
    <2>3. CASE queue' = Dequeue(k) /\ UNCHANGED <<saved, ran>>
      BY <2>2, <2>3 DEF KeysSound, Dequeue
    <2>4. CASE \E fs : Run(k, fs, queue, saved)
      <3>1. Sound(queue, saved, ran, stateIndex)
        BY DEF Sound, KeysSound
      <3>2. Sound(queue', saved', ran', stateIndex)
        BY <2>4, <3>1, RunSound
      <3>. QED
        BY <2>2, <3>2 DEF Sound, KeysSound
    <2>. QED
      BY <2>1, <2>3, <2>4
  <1>7. CASE StartPhase1 \/ AssignNothing \/ Execute \/ LoopExit \/ Finished
    <2>1. UNCHANGED <<saved, queue, ran, stateIndex>>
      BY <1>7 DEF StartPhase1, AssignNothing, Execute, LoopExit, Finished
    <2>. QED
      BY <1>3, <2>1
  <1>8. CASE StopNoState \/ StopPhase1 \/ StopLastOfPhase1 \/ StopPhase2
    <2>1. UNCHANGED <<saved, queue, ran, stateIndex>>
      BY <1>8 DEF StopNoState, StopPhase1, StopLastOfPhase1, StopPhase2
    <2>. QED
      BY <1>3, <2>1
  <1>. QED
    BY <1>3, <1>4, <1>5, <1>6, <1>7, <1>8 DEF Next

\* The dictionary of stored states and the queue of keys stay consistent: no key is lost,
\* reused or executed twice.
THEOREM KeysStaySound == Spec => []KeysSound
  <1>1. Init => KeysSound
    BY DEF Init, KeysSound
  <1>. QED
    BY <1>1, KeysStep, TypeCorrect, PTL DEF Spec

-------------------------------------------------------------------------------
(* The two counters of the loop *)

\* The loop counter and the plugin's iteration number run together, and a lowered
\* transaction_count is the number of the round that lowered it.
LoopInv ==
  /\ pc \in {"assign", "execute", "stop"} => iteration = i + 1
  /\ pc \in {"loop", "done"} => iteration = i
  /\ txCount # TransactionCount =>
       /\ pc # "assign"
       /\ pc \in {"loop", "done"} => txCount <= i
       /\ pc \in {"execute", "stop"} => txCount = iteration

LEMMA LoopStep == TypeOK /\ LoopInv /\ [Next]_vars => LoopInv'
  <1> SUFFICES ASSUME TypeOK, LoopInv, [Next]_vars PROVE LoopInv'
    OBVIOUS
  <1>. i \in Nat /\ iteration \in Nat /\ txCount \in Nat
    BY DEF TypeOK
  <1>. USE DEF LoopInv
  <1>1. CASE UNCHANGED vars
    BY <1>1 DEF vars, loopVars
  <1>2. CASE Preprocess
    BY <1>2 DEF Preprocess
  <1>3. CASE StartPhase1
    BY <1>3 DEF StartPhase1, loopVars
  <1>4. CASE StartNoTarget
    BY <1>4 DEF StartNoTarget, StartPhase2, NothingToRun
  <1>5. CASE StartWithStates
    <2>1. /\ pc' \in {"execute", "crashed", "assign"}
          /\ txCount' = txCount /\ i' = i /\ iteration' = iteration + 1
          /\ pc = "loop" /\ i < txCount
      BY <1>5 DEF StartWithStates, StartPhase2, Run
    <2>. QED
      BY <2>1
  <1>6. CASE Assign
    <2>1. /\ pc = "assign" /\ pc' \in {"assign", "execute"}
          /\ txCount' = txCount /\ i' = i /\ iteration' = iteration
      BY <1>6 DEF Assign, Run
    <2>. QED
      BY <2>1
  <1>7. CASE AssignNothing
    BY <1>7 DEF AssignNothing
  <1>8. CASE Execute
    BY <1>8 DEF Execute, loopVars
  <1>9. CASE StopNoState
    BY <1>9 DEF StopNoState
  <1>10. CASE StopPhase1 \/ StopLastOfPhase1 \/ StopPhase2
    <2>1. pc = "stop" /\ UNCHANGED iteration /\ EndRound
      BY <1>10 DEF StopPhase1, StopLastOfPhase1, StopPhase2
    <2>. QED
      BY <2>1 DEF EndRound
  <1>11. CASE LoopExit
    BY <1>11 DEF LoopExit, loopVars
  <1>12. CASE Finished
    BY <1>12 DEF Finished, vars, loopVars
  <1>. QED
    BY <1>1, <1>2, <1>3, <1>4, <1>5, <1>6, <1>7, <1>8, <1>9, <1>10, <1>11, <1>12 DEF Next

LEMMA LoopInvariant == Spec => []LoopInv
  <1>1. Init => LoopInv
    BY DEF Init, LoopInv
  <1>. QED
    BY <1>1, LoopStep, TypeCorrect, PTL DEF Spec

\* Whatever hook lowers transaction_count, the engine's loop ends at its next test.
THEOREM StopsOnceItIsDecided == Spec => []StopsOnceDecided
  <1>1. LoopInv => StopsOnceDecided
    <2> SUFFICES ASSUME LoopInv, pc = "loop", txCount # TransactionCount PROVE i >= txCount
      BY DEF StopsOnceDecided
    <2>. QED
      BY DEF LoopInv
  <1>. QED
    BY <1>1, LoopInvariant, PTL

-------------------------------------------------------------------------------
(* The length of the executed sequences *)

\* No state is deeper than the round allows, and a recorded sequence is the whole path.
\* The depth in Phase 1 is bounded by the iteration, in Phase 2 by the keys' own depth.
Shallow(n) ==
  \A j \in DOMAIN openStates :
    Len(openStates[j].path) = 0 \/ Len(openStates[j].path) + n <= iteration

PathInv ==
  /\ \A j \in DOMAIN openStates : /\ openStates[j].path = openStates[j].seq
                                  /\ Len(openStates[j].path) <= SeqLenLimit
  /\ \A k \in saved : k.ws.path = k.ws.seq
  /\ pc = "execute" => \A j \in DOMAIN openStates : Len(openStates[j].path) < SeqLenLimit
  /\ pc = "loop" /\ iteration <= P1DL + 1 => Shallow(1)
  /\ pc = "execute" /\ iteration <= P1DL + 1 => Shallow(2)
  /\ pc = "stop" /\ iteration <= P1DL + 1 => Shallow(1)
  /\ pc = "assign" => iteration > P1DL + 1
  /\ pc = "execute" => iteration >= 2

\* One transaction makes a path one longer, and records it when every transaction ends
\* in a STOP or a RETURN.
LEMMA SuccessorPaths ==
  ASSUME TypeOK, SilentEnd = {}, NEW t \in Successors
  PROVE  \E j \in DOMAIN openStates : /\ t.path = Append(openStates[j].path, LastOf(t.path))
                                     /\ t.seq = Append(openStates[j].seq, LastOf(t.path))
                                     /\ Len(t.path) = Len(openStates[j].path) + 1
  <1>1. PICK j \in DOMAIN openStates, f \in dispatch : t = After(openStates[j], f)
    BY DEF Successors
  <1>2. openStates[j] \in WorldStates /\ f \in Ftns
    BY DEF TypeOK
  <1>3. openStates[j].path \in Seq(Ftns)
    BY <1>2 DEF WorldStates
  <1>4. t.path = Append(openStates[j].path, f) /\ t.seq = Append(openStates[j].seq, f)
    BY <1>1 DEF After
  <1>5. Len(t.path) = Len(openStates[j].path) + 1 /\ LastOf(t.path) = f
    BY <1>2, <1>3, <1>4 DEF LastOf
  <1>. QED
    BY <1>4, <1>5

LEMMA PathStep ==
  ASSUME SilentEnd = {}, P1DL <= SeqLenLimit,
         TypeOK, KeysSound, LoopInv, PathInv, [Next]_vars
  PROVE  PathInv'
  <1> USE DEF vars, loopVars, searchVars, covVars, assignVars, history
  <1>. /\ i \in Nat /\ iteration \in Nat /\ txCount \in Nat /\ P1DL \in Nat
       /\ SeqLenLimit \in Nat /\ SeqLenLimit > 0
    BY BoundsAssumption, LimitsAssumption DEF TypeOK
  <1>0. \A j \in DOMAIN openStates : Len(openStates[j].path) \in Nat
    <2>1. \A j \in DOMAIN openStates : openStates[j] \in WorldStates
      BY DEF TypeOK
    <2>2. \A ws \in WorldStates : Len(ws.path) \in Nat
      BY DEF WorldStates
    <2>. QED
      BY <2>1, <2>2
  <1>1. CASE UNCHANGED vars
    BY <1>1 DEF PathInv, Shallow
  \* A round that runs one stored state.
  <1>2. ASSUME NEW k, NEW fs, NEW q, NEW s, Run(k, fs, q, s), iteration' > P1DL + 1,
               k \in s, \A l \in s : l.ws.path = l.ws.seq /\ Len(l.ws.seq) < SeqLenLimit,
               k.ws.path \in Seq(Ftns), iteration' \in Nat
        PROVE  PathInv'
    <2>1. openStates' = <<k.ws>> /\ DOMAIN openStates' = {1} /\ openStates'[1] = k.ws
      BY <1>2 DEF Run
    <2>2. pc' = "execute" /\ saved' = s \ {k}
      BY <1>2 DEF Run
    <2>3. Len(k.ws.path) \in Nat
      BY <1>2
    <2>. QED
      BY <1>2, <2>1, <2>2, <2>3 DEF PathInv
  \* A round without a state.
  <1>3. ASSUME openStates' = <<>>, UNCHANGED saved, pc' \in {"execute", "stop"}, iteration' >= 2
        PROVE  PathInv'
    <2>1. DOMAIN openStates' = {}
      BY <1>3
    <2>. QED
      BY <1>3, <2>1 DEF PathInv, Shallow
  <1>4. CASE Preprocess
    <2>1. /\ pc = "loop" /\ pc' = "loop" /\ i = 0 /\ iteration' = iteration + 1
          /\ UNCHANGED <<openStates, saved>>
      BY <1>4 DEF Preprocess
    <2>2. Shallow(1)
      BY <2>1 DEF PathInv, LoopInv
    <2>3. Shallow(1)'
      BY <1>0, <2>1, <2>2 DEF Shallow
    <2>. QED
      BY <2>1, <2>3 DEF PathInv
  <1>5. CASE StartPhase1
    <2>1. /\ pc = "loop" /\ pc' = "execute" /\ i > 0 /\ iteration' = iteration + 1
          /\ iteration + 1 <= P1DL + 1
          /\ UNCHANGED <<openStates, saved>>
      BY <1>5 DEF StartPhase1
    <2>2. iteration >= 1 /\ Shallow(1)
      BY <2>1 DEF PathInv, LoopInv
    <2>3. Shallow(2)' /\ iteration' >= 2
      BY <1>0, <2>1, <2>2 DEF Shallow
    <2>4. \A j \in DOMAIN openStates : Len(openStates[j].path) < SeqLenLimit
      BY <1>0, <2>1, <2>2 DEF Shallow
    <2>. QED
      BY <2>1, <2>3, <2>4 DEF PathInv
  <1>6. CASE StartNoTarget
    BY <1>3, <1>6 DEF StartNoTarget, StartPhase2, NothingToRun
  <1>7. CASE StartWithStates
    <2> DEFINE new == SavedKeys(OrganizedKeys)
    <2>1. \A k \in new : k.ws.path = k.ws.seq /\ Len(k.ws.seq) < SeqLenLimit /\ k \in Keys
      <3>1. \A k \in OrganizedKeys : \E j \in DOMAIN openStates : k.ws = openStates[j]
        <4>1. SUFFICES ASSUME NEW k \in OrganizedKeys
                       PROVE  \E j \in DOMAIN openStates : k.ws = openStates[j]
          OBVIOUS
        <4>2. PICK j \in Kept : k = Key(openStates[j], stateIndex + Rank(j))
          BY <4>1 DEF OrganizedKeys, Rank, Below
        <4>. QED
          BY <4>2 DEF Key, Kept
      <3>. QED
        BY <3>1, SavedFilteredCandidates, OrganizedKeysProperties DEF PathInv, TypeOK
    <2>2. \A k \in saved \cup new : /\ k.ws.path = k.ws.seq /\ Len(k.ws.seq) < SeqLenLimit
                                  /\ k.ws.path \in Seq(Ftns)
      BY <2>1 DEF PathInv, KeysSound, TypeOK, Keys, WorldStates
    <2>3. /\ pc = "loop" /\ iteration' = iteration + 1 /\ iteration' > P1DL + 1
      BY <1>7 DEF StartWithStates, StartPhase2
    <2>4. PICK q \in SUBSET (queue \cup new) :
             \/ \E k \in Candidates(q) : Run(k, AssignAll, q, saved \cup new)
             \/ pc' \in {"crashed", "assign"} /\ saved' = saved \cup new /\ UNCHANGED openStates
      BY <1>7, SavedFilteredCandidates DEF StartWithStates
    <2>. HIDE DEF new
    <2>5. CASE \E k \in Candidates(q) : Run(k, AssignAll, q, saved \cup new)
      <3>1. PICK k \in q : Run(k, AssignAll, q, saved \cup new)
        BY <2>5, SavedFilteredCandidates
      <3>2. k \in saved \cup new
        BY <3>1, <2>4 DEF KeysSound
      <3>. QED
        BY <1>2, <2>2, <2>3, <3>1, <3>2
    <2>6. CASE pc' \in {"crashed", "assign"} /\ saved' = saved \cup new /\ UNCHANGED openStates
      BY <2>2, <2>3, <2>6 DEF PathInv
    <2>. QED
      BY <2>4, <2>5, <2>6
  <1>8. CASE Assign
    <2>1. PICK k \in queue :
             \/ pc' = "assign" /\ UNCHANGED <<saved, openStates>>
             \/ \E fs : Run(k, fs, queue, saved)
      BY <1>8, SavedFilteredCandidates DEF Assign
    <2>2. pc = "assign" /\ iteration' = iteration
      BY <1>8 DEF Assign
    <2>3. CASE pc' = "assign" /\ UNCHANGED <<saved, openStates>>
      BY <2>2, <2>3 DEF PathInv
    <2>4. CASE \E fs : Run(k, fs, queue, saved)
      <3>1. k \in saved /\ k.ws.path \in Seq(Ftns)
        BY DEF KeysSound, TypeOK, Keys, WorldStates
      <3>2. \A l \in saved : l.ws.path = l.ws.seq /\ Len(l.ws.seq) < SeqLenLimit
        BY DEF PathInv, KeysSound
      <3>3. iteration > P1DL + 1
        BY <2>2 DEF PathInv, LoopInv
      <3>. QED
        BY <1>2, <2>2, <2>4, <3>1, <3>2, <3>3
    <2>. QED
      BY <2>1, <2>3, <2>4
  <1>9. CASE AssignNothing
    BY <1>3, <1>9 DEF AssignNothing, PathInv
  <1>10. CASE Execute
    <2>1. CASE openStates = <<>> \/ timedOut
      BY <1>3, <1>10, <2>1 DEF Execute, PathInv
    <2>2. CASE ~(openStates = <<>> \/ timedOut)
      <3>1. PICK n \in 0..MaxOpen : openStates' \in [1..n -> Successors]
        BY <1>10, <2>2 DEF Execute
      <3>2. \A m \in DOMAIN openStates' : \E j \in DOMAIN openStates :
               /\ openStates'[m].path = openStates'[m].seq
               /\ Len(openStates'[m].path) = Len(openStates[j].path) + 1
        <4>1. \A m \in DOMAIN openStates' : openStates'[m] \in Successors
          BY <3>1
        <4>. QED
          BY <4>1, SuccessorPaths DEF PathInv
      <3>3. pc = "execute" /\ pc' = "stop" /\ UNCHANGED <<iteration, saved>>
        BY <1>10 DEF Execute
      <3>4. \A m \in DOMAIN openStates' : Len(openStates'[m].path) <= SeqLenLimit
        BY <1>0, <3>2, <3>3 DEF PathInv
      <3>5. iteration <= P1DL + 1 => Shallow(1)'
        <4>1. SUFFICES ASSUME iteration <= P1DL + 1 PROVE Shallow(1)'
          OBVIOUS
        <4>2. Shallow(2) /\ iteration >= 2
          BY <3>3, <4>1 DEF PathInv
        <4>3. ASSUME NEW m \in DOMAIN openStates'
              PROVE  Len(openStates'[m].path) + 1 <= iteration
          BY <1>0, <3>2, <4>2 DEF Shallow
        <4>. QED
          BY <3>3, <4>3 DEF Shallow
      <3>. QED
        BY <3>2, <3>3, <3>4, <3>5 DEF PathInv
    <2>. QED
      BY <2>1, <2>2
  <1>11. CASE StopNoState \/ StopPhase1 \/ StopLastOfPhase1 \/ StopPhase2
    <2>1. /\ pc = "stop" /\ pc' = "loop"
          /\ UNCHANGED <<iteration, openStates, saved>>
      BY <1>11 DEF StopNoState, StopPhase1, StopLastOfPhase1, StopPhase2, EndRound
    <2>. QED
      BY <2>1 DEF PathInv, Shallow
  <1>12. CASE LoopExit
    BY <1>12 DEF LoopExit, PathInv
  <1>13. CASE Finished
    BY <1>1, <1>13 DEF Finished
  <1>. QED
    BY <1>1, <1>4, <1>5, <1>6, <1>7, <1>8, <1>9, <1>10, <1>11, <1>12, <1>13 DEF Next

\* --seq-len-limit holds when every function ends in a STOP or a RETURN and Phase 1 is not
\* deeper than the limit: no state is the result of more transactions.
THEOREM PathsStayWithinLimit ==
  ASSUME SilentEnd = {}, P1DL <= SeqLenLimit
  PROVE  Spec => []PathsWithinLimit
  <1>1. Init => PathInv
    <2> SUFFICES ASSUME Init PROVE PathInv
      OBVIOUS
    <2>1. \A j \in DOMAIN openStates : openStates[j] = Genesis
      BY DEF Init
    <2>2. pc = "loop" /\ saved = {} /\ SeqLenLimit \in Nat
      BY LimitsAssumption DEF Init
    <2>. QED
      BY <2>1, <2>2 DEF PathInv, Shallow, Genesis
  <1>2. TypeOK /\ KeysSound /\ LoopInv /\ PathInv /\ [Next]_vars => PathInv'
    BY PathStep
  <1>3. PathInv => PathsWithinLimit
    BY DEF PathInv, PathsWithinLimit
  <1>. QED
    BY <1>1, <1>2, <1>3, TypeCorrect, KeysStaySound, LoopInvariant, PTL DEF Spec

-------------------------------------------------------------------------------
(* Refinement *)

\* A run takes one key out of the queue and the store.
LEMMA RunLifecycle ==
  ASSUME NEW q, NEW s, NEW n, NEW fs, NEW k \in q, Sound(q, s, ran, n), Run(k, fs, q, s)
  PROVE  /\ saved' \ queue' = s \ q
         /\ q \subseteq queue' \cup ran'
         /\ ran \subseteq ran' /\ \A x, y \in ran' \ ran : x = y
  <1>1. queue' = q \ {k} /\ saved' = s \ {k} /\ ran' = ran \cup {k}
    BY DEF Run
  <1>. QED
    BY <1>1 DEF Sound

LEMMA LifecycleStep ==
  ASSUME TypeOK, KeysSound, KeysSound', [Next]_vars
  PROVE  [Lifecycle!Advance]_(Lifecycle!vars)
  <1> USE DEF vars, loopVars, searchVars, covVars, assignVars, history
  <1> DEFINE halted == pc \in {"done", "crashed"}
  <1>1. queue' \cap ran' = {} /\ queue' \cap (saved' \ queue') = {}
          /\ (saved' \ queue') \cap ran' = {}
    BY DEF KeysSound
  <1>2. CASE UNCHANGED <<saved, queue, ran>> /\ ~halted
    BY <1>1, <1>2 DEF Lifecycle!Advance
  <1>3. CASE UNCHANGED <<saved, queue, ran, pc>>
    BY <1>3 DEF Lifecycle!vars
  <1>4. CASE StartWithStates
    <2> DEFINE new == SavedKeys(OrganizedKeys)
    <2>1. new \in SUBSET OrganizedKeys
      BY SavedFilteredCandidates
    <2>2. PICK q \in SUBSET (queue \cup new) :
             \/ \E k \in Candidates(q) : Run(k, AssignAll, q, saved \cup new)
             \/ saved' = saved \cup new /\ queue' = q /\ UNCHANGED ran
      BY <1>4, SavedFilteredCandidates DEF StartWithStates
    <2>3. ~halted
      BY <1>4 DEF StartWithStates, StartPhase2
    <2>4. new \cap saved = {}
      <3>1. \A k \in new : stateIndex <= k.idx /\ k.idx \in Nat
        BY <2>1, OrganizedKeysProperties DEF TypeOK, Keys
      <3>2. \A k \in saved : k.idx < stateIndex
        BY DEF KeysSound
      <3>3. stateIndex \in Nat
        BY DEF TypeOK
      <3>. QED
        BY <3>1, <3>2, <3>3
    <2>. HIDE DEF new
    <2>5. queue \subseteq saved
      BY DEF KeysSound
    <2>6. CASE \E k \in Candidates(q) : Run(k, AssignAll, q, saved \cup new)
      <3>1. PICK k \in q : Run(k, AssignAll, q, saved \cup new)
        BY <2>6, SavedFilteredCandidates
      <3>2. Sound(q, saved \cup new, ran, stateIndex + Cardinality(Kept))
        BY <2>1, MergeSound
      <3>3. /\ saved' \ queue' = (saved \cup new) \ q
            /\ q \subseteq queue' \cup ran'
            /\ ran \subseteq ran' /\ \A x, y \in ran' \ ran : x = y
        BY <3>1, <3>2, RunLifecycle
      <3>4. saved \ queue \subseteq saved' \ queue'
        BY <2>4, <3>3
      <3>5. queue \subseteq queue' \cup ran' \cup (saved' \ queue')
        BY <2>5, <3>3
      <3>. QED
        BY <1>1, <2>3, <3>3, <3>4, <3>5 DEF Lifecycle!Advance
    <2>7. CASE saved' = saved \cup new /\ queue' = q /\ UNCHANGED ran
      <3>1. saved \ queue \subseteq saved' \ queue'
        BY <2>4, <2>7
      <3>2. queue \subseteq queue' \cup ran' \cup (saved' \ queue')
        BY <2>5, <2>7
      <3>3. ran \subseteq ran' /\ \A x, y \in ran' \ ran : x = y
        BY <2>7
      <3>. QED
        BY <1>1, <2>3, <3>1, <3>2, <3>3 DEF Lifecycle!Advance
    <2>. QED
      BY <2>2, <2>6, <2>7
  <1>5. CASE Assign
    <2>1. PICK k \in queue :
             \/ queue' = Dequeue(k) /\ UNCHANGED <<saved, ran>>
             \/ \E fs : Run(k, fs, queue, saved)
      BY <1>5, SavedFilteredCandidates DEF Assign
    <2>2. ~halted
      BY <1>5 DEF Assign
    <2>3. CASE queue' = Dequeue(k) /\ UNCHANGED <<saved, ran>>
      <3>1. queue \subseteq queue' \cup (saved' \ queue') /\ saved \ queue \subseteq saved' \ queue'
        BY <2>3 DEF Dequeue, KeysSound
      <3>2. ran \subseteq ran' /\ \A x, y \in ran' \ ran : x = y
        BY <2>3
      <3>. QED
        BY <1>1, <2>2, <3>1, <3>2 DEF Lifecycle!Advance
    <2>4. CASE \E fs : Run(k, fs, queue, saved)
      <3>1. Sound(queue, saved, ran, stateIndex)
        BY DEF Sound, KeysSound
      <3>2. /\ saved' \ queue' = saved \ queue
            /\ queue \subseteq queue' \cup ran'
            /\ ran \subseteq ran' /\ \A x, y \in ran' \ ran : x = y
        BY <2>4, <3>1, RunLifecycle
      <3>. QED
        BY <1>1, <2>2, <3>2 DEF Lifecycle!Advance
    <2>. QED
      BY <2>1, <2>3, <2>4
  <1>6. CASE Preprocess \/ StartPhase1 \/ StartNoTarget \/ AssignNothing \/ Execute \/ LoopExit
    <2>1. UNCHANGED <<saved, queue, ran>> /\ ~halted
      BY <1>6 DEF Preprocess, StartPhase1, StartNoTarget, StartPhase2, NothingToRun, AssignNothing,
                  Execute, LoopExit
    <2>. QED
      BY <1>2, <2>1
  <1>7. CASE StopNoState \/ StopPhase1 \/ StopLastOfPhase1 \/ StopPhase2
    <2>1. UNCHANGED <<saved, queue, ran>> /\ ~halted
      BY <1>7 DEF StopNoState, StopPhase1, StopLastOfPhase1, StopPhase2
    <2>. QED
      BY <1>2, <2>1
  <1>8. CASE Finished
    BY <1>3, <1>8 DEF Finished
  <1>. QED
    BY <1>3, <1>4, <1>5, <1>6, <1>7, <1>8 DEF Next

\* The guided loop implements the abstract life of a world state.
THEOREM GuidedSearchImplementsLifecycle == Spec => ImplementsLifecycle
  <1>1. Init => Lifecycle!Init
    BY DEF Init, Lifecycle!Init
  <1>2. TypeOK /\ KeysSound /\ KeysSound' /\ [Next]_vars => [Lifecycle!Advance]_(Lifecycle!vars)
    BY LifecycleStep
  <1>. QED
    BY <1>1, <1>2, TypeCorrect, KeysStaySound, PTL DEF Spec, ImplementsLifecycle, Lifecycle!Spec

-------------------------------------------------------------------------------
(* The order of the search, and the reasons for which it stops. *)
-------------------------------------------------------------------------------
(* Helpers *)

\* Every key of a round is the key of an open state that was kept, and the other way round.
LEMMA KeysOfKept ==
  /\ \A k \in OrganizedKeys : \E j \in Kept : k.ws = openStates[j]
  /\ \A j \in Kept : \E k \in OrganizedKeys : k.ws = openStates[j]
  <1>1. \A j \in Kept : Key(openStates[j], stateIndex + Rank(j)).ws = openStates[j]
    BY DEF Key
  <1>2. \A k \in OrganizedKeys : \E j \in Kept : k = Key(openStates[j], stateIndex + Rank(j))
    BY DEF OrganizedKeys, Rank, Below
  <1>3. \A j \in Kept : Key(openStates[j], stateIndex + Rank(j)) \in OrganizedKeys
    BY DEF OrganizedKeys, Rank, Below
  <1>4. ASSUME NEW k \in OrganizedKeys
        PROVE  \E j \in Kept : k.ws = openStates[j]
    BY <1>1, <1>2
  <1>5. ASSUME NEW j \in Kept
        PROVE  \E k \in OrganizedKeys : k.ws = openStates[j]
    BY <1>1, <1>3
  <1>. QED
    BY <1>4, <1>5

\* The length of a recorded sequence is a number.
LEMMA OpenLengths ==
  ASSUME TypeOK
  PROVE  \A j \in DOMAIN openStates : /\ openStates[j].seq \in Seq(Ftns)
                                      /\ Len(openStates[j].seq) \in Nat
  <1>1. \A j \in DOMAIN openStates : openStates[j] \in WorldStates
    BY DEF TypeOK
  <1>2. \A ws \in WorldStates : ws.seq \in Seq(Ftns)
    BY DEF WorldStates
  <1>. QED
    BY <1>1, <1>2

\* What a round with states to run does.
LEMMA StartSteps ==
  ASSUME StartWithStates
  PROVE  \E q \in SUBSET (queue \cup SavedKeys(OrganizedKeys)) :
           /\ IF Strategy = "mine" /\ OrganizedKeys # {}
              THEN q \in Filtered(queue \cup SavedKeys(OrganizedKeys))
              ELSE q = queue \cup SavedKeys(OrganizedKeys)
           /\ ~oneStart'
           /\ \/ oneStart /\ \E k \in Candidates(q) : Run(k, AssignAll, q, saved \cup SavedKeys(OrganizedKeys))
              \/ oneStart /\ q = {} /\ pc' = "crashed" /\ queue' = q /\ UNCHANGED <<ran, txCount, openStates>>
              \/ pc' = "assign" /\ queue' = q /\ UNCHANGED <<ran, txCount, openStates>>
  <1> USE DEF vars, searchVars, history
  <1> DEFINE new == SavedKeys(OrganizedKeys)
  <1>1. PICK q \in IF Strategy = "mine" /\ OrganizedKeys # {} THEN Filtered(queue \cup new)
                                                              ELSE {queue \cup new} :
           IF oneStart
           THEN /\ oneStart' = FALSE
                /\ \/ \E k \in Candidates(q) : Run(k, AssignAll, q, saved \cup new)
                   \/ /\ q = {}
                      /\ pc' = "crashed"
                      /\ queue' = q
                      /\ UNCHANGED <<ran, txCount, openStates>>
           ELSE /\ queue' = q /\ pc' = "assign" /\ UNCHANGED <<ran, txCount, openStates, oneStart>>
    BY DEF StartWithStates
  <1>2. q \in SUBSET (queue \cup new)
    BY <1>1, SavedFilteredCandidates
  <1>3. IF Strategy = "mine" /\ OrganizedKeys # {} THEN q \in Filtered(queue \cup new)
                                                  ELSE q = queue \cup new
    BY <1>1
  <1>. HIDE DEF new
  <1>4. /\ ~oneStart'
        /\ \/ oneStart /\ \E k \in Candidates(q) : Run(k, AssignAll, q, saved \cup new)
           \/ oneStart /\ q = {} /\ pc' = "crashed" /\ queue' = q /\ UNCHANGED <<ran, txCount, openStates>>
           \/ pc' = "assign" /\ queue' = q /\ UNCHANGED <<ran, txCount, openStates>>
    BY <1>1
  <1>. QED
    BY <1>2, <1>3, <1>4 DEF new

\* What a turn of assign_states does.
LEMMA AssignSteps ==
  ASSUME Assign
  PROVE  /\ pc = "assign"
         /\ UNCHANGED <<i, iteration, oneStart, cov, contractCov>>
         /\ \E k \in Candidates(queue) :
              \/ pc' = "assign" /\ queue' = queue \ {k} /\ UNCHANGED <<txCount, openStates, ran>>
              \/ \E fs : Run(k, fs, queue, saved)
  <1>1. /\ pc = "assign"
        /\ UNCHANGED <<i, iteration, oneStart, cov, contractCov>>
    BY DEF Assign, covVars
  <1>2. \E k \in Candidates(queue) :
          \/ queue' = Dequeue(k) /\ UNCHANGED <<pc, txCount, openStates, history>>
          \/ \E fs : Run(k, fs, queue, saved)
    BY DEF Assign
  <1>. QED
    BY <1>1, <1>2 DEF Dequeue, history

-------------------------------------------------------------------------------
(* Reasons to stop *)

\* Nothing is queued before Phase 2.  A lowered transaction_count means that there is no
\* state left, no deep function, or enough coverage.
ReasonInv ==
  /\ iteration <= P1DL + 1 => queue = {} /\ pc # "assign"
  /\ iteration <= P1DL => ~termination
  /\ pc = "done" => i >= txCount
  /\ txCount # TransactionCount =>
       /\ pc \in {"execute", "stop"} =>
            openStates = <<>> /\ (queue = {} \/ DeepFunctions(cov) = {})
       /\ pc \in {"loop", "done"} =>
            \/ openStates = <<>> /\ queue = {}
            \/ DeepFunctions(cov) = {}
            \/ contractCov >= Threshold

LEMMA ReasonStep == TypeOK /\ LoopInv /\ ReasonInv /\ [Next]_vars => ReasonInv'
  <1> SUFFICES ASSUME TypeOK, LoopInv, ReasonInv, [Next]_vars PROVE ReasonInv'
    OBVIOUS
  <1> USE DEF vars, loopVars, searchVars, covVars, assignVars, history
  <1>. /\ i \in Nat /\ iteration \in Nat /\ txCount \in Nat /\ P1DL \in Nat \ {0}
       /\ TransactionCount \in Nat /\ Threshold \in Int /\ contractCov \in Int
    BY BoundsAssumption DEF TypeOK
  <1>1. CASE UNCHANGED vars
    BY <1>1 DEF ReasonInv, DeepFunctions
  <1>2. CASE Preprocess
    <2>1. /\ pc = "loop" /\ pc' = "loop" /\ i = 0 /\ i < txCount /\ iteration' = iteration + 1
          /\ UNCHANGED <<openStates, queue, cov, termination>>
          /\ txCount' = txCount \/ openStates = <<>>
      BY <1>2 DEF Preprocess
    <2>2. iteration = 0 /\ txCount = TransactionCount /\ queue = {}
      BY <2>1 DEF LoopInv, ReasonInv
    <2>. QED
      BY <2>1, <2>2 DEF ReasonInv
  <1>3. CASE StartPhase1
    <2>1. /\ pc = "loop" /\ pc' = "execute" /\ i < txCount /\ iteration' = iteration + 1
          /\ iteration + 1 <= P1DL + 1 /\ UNCHANGED <<queue, txCount, termination>>
      BY <1>3 DEF StartPhase1
    <2>2. txCount = TransactionCount /\ queue = {}
      BY <2>1 DEF LoopInv, ReasonInv
    <2>. QED
      BY <2>1, <2>2 DEF ReasonInv
  <1>4. CASE StartNoTarget
    <2>1. /\ pc' = "execute" /\ openStates' = <<>> /\ iteration' > P1DL + 1 /\ DeepFunctions(cov) = {}
          /\ iteration' = iteration + 1
          /\ UNCHANGED cov
      BY <1>4 DEF StartNoTarget, StartPhase2, NothingToRun
    <2>2. DeepFunctions(cov)' = {}
      BY <2>1 DEF DeepFunctions
    <2>. QED
      BY <2>1, <2>2 DEF ReasonInv
  <1>5. CASE StartWithStates
    <2>1. pc = "loop" /\ i < txCount /\ iteration' > P1DL + 1 /\ iteration' = iteration + 1
      BY <1>5 DEF StartWithStates, StartPhase2
    <2>2. txCount = TransactionCount
      BY <2>1 DEF LoopInv
    <2>3. txCount' = txCount /\ pc' \in {"execute", "crashed", "assign"}
      BY <1>5 DEF StartWithStates, Run
    <2>. QED
      BY <2>1, <2>2, <2>3 DEF ReasonInv
  <1>6. CASE Assign
    <2>1. pc = "assign" /\ txCount' = txCount /\ pc' \in {"assign", "execute"} /\ UNCHANGED iteration
      BY <1>6, AssignSteps DEF Run
    <2>2. iteration > P1DL + 1 /\ txCount = TransactionCount
      BY <2>1 DEF LoopInv, ReasonInv
    <2>. QED
      BY <2>1, <2>2 DEF ReasonInv
  <1>7. CASE AssignNothing
    <2>1. /\ pc = "assign" /\ pc' = "execute" /\ openStates' = <<>> /\ queue' = {}
          /\ UNCHANGED iteration
      BY <1>7 DEF AssignNothing
    <2>2. iteration > P1DL + 1
      BY <2>1 DEF ReasonInv
    <2>. QED
      BY <2>1, <2>2 DEF ReasonInv
  <1>8. CASE Execute
    <2>1. /\ pc = "execute" /\ pc' = "stop" /\ UNCHANGED <<i, iteration, txCount, queue, termination>>
          /\ openStates = <<>> => openStates' = <<>> /\ UNCHANGED cov
      BY <1>8 DEF Execute
    <2>2. iteration' <= P1DL + 1 => queue' = {}
      BY <2>1 DEF ReasonInv
    <2>3. ASSUME txCount' # TransactionCount
          PROVE  openStates' = <<>> /\ (queue' = {} \/ DeepFunctions(cov)' = {})
      <3>1. openStates = <<>> /\ (queue = {} \/ DeepFunctions(cov) = {})
        BY <2>1, <2>3 DEF ReasonInv
      <3>. QED
        BY <2>1, <3>1 DEF DeepFunctions
    <2>. QED
      BY <2>1, <2>2, <2>3 DEF ReasonInv
  <1>9. CASE StopNoState
    <2>1. /\ pc = "stop" /\ pc' = "loop" /\ iteration = 2 /\ openStates = <<>>
          /\ UNCHANGED <<iteration, openStates, queue, termination>>
      BY <1>9 DEF StopNoState
    <2>2. queue = {}
      BY <2>1 DEF ReasonInv
    <2>. QED
      BY <2>1, <2>2 DEF ReasonInv
  <1>10. CASE StopPhase1 \/ StopLastOfPhase1 \/ StopPhase2
    <2>1. /\ pc = "stop" /\ EndRound /\ UNCHANGED <<iteration, openStates, queue, cov, contractCov>>
          /\ iteration <= P1DL => UNCHANGED termination
      BY <1>10 DEF StopPhase1, StopLastOfPhase1, StopPhase2
    <2>2. pc' = "loop" /\ DeepFunctions(cov)' = DeepFunctions(cov)
      BY <2>1 DEF EndRound, DeepFunctions
    <2>3. /\ iteration' <= P1DL + 1 => queue' = {}
          /\ iteration' <= P1DL => ~termination'
      BY <2>1 DEF ReasonInv
    <2>4. CASE txCount' = txCount
      BY <2>1, <2>2, <2>3, <2>4 DEF ReasonInv
    <2>5. CASE txCount' # txCount /\ Covered(oneStart')
      BY <2>1, <2>2, <2>3, <2>5 DEF ReasonInv, Covered
    <2>6. CASE txCount' # txCount /\ termination'
      <3>1. CASE StopPhase1
        <4>1. termination /\ iteration <= P1DL
          BY <2>6, <3>1 DEF StopPhase1
        <4>. QED
          BY <4>1 DEF ReasonInv
      <3>2. CASE StopLastOfPhase1 \/ StopPhase2
        <4>1. openStates = <<>> /\ iteration <= (IF Strategy = "bfs" THEN P1DL + 1 ELSE 2)
          BY <2>6, <3>2 DEF StopLastOfPhase1, StopPhase2, StrategyTermination
        <4>2. iteration <= P1DL + 1
          BY <4>1
        <4>. QED
          BY <2>1, <2>2, <2>3, <4>1, <4>2 DEF ReasonInv
      <3>. QED
        BY <1>10, <3>1, <3>2
    <2>. QED
      BY <2>1, <2>4, <2>5, <2>6 DEF EndRound
  <1>11. CASE LoopExit
    BY <1>11 DEF LoopExit, ReasonInv, DeepFunctions
  <1>12. CASE Finished
    BY <1>1, <1>12 DEF Finished
  <1>. QED
    BY <1>1, <1>2, <1>3, <1>4, <1>5, <1>6, <1>7, <1>8, <1>9, <1>10, <1>11, <1>12 DEF Next

LEMMA ReasonInvariant == Spec => []ReasonInv
  <1>1. Init => ReasonInv
    BY DEF Init, ReasonInv
  <1>. QED
    BY <1>1, ReasonStep, LoopInvariant, TypeCorrect, PTL DEF Spec

\* The guided search gives states up for a reason only.
THEOREM SearchStopsWithReason == Spec => []StopsWithReason
  <1>2. ReasonInv => StopsWithReason
    <2> SUFFICES ASSUME ReasonInv, pc = "done", queue # {} \/ Kept # {}
                 PROVE  \/ DeepFunctions(cov) = {}
                        \/ contractCov >= Threshold
                        \/ i >= TransactionCount
      BY DEF StopsWithReason
    <2>1. openStates # <<>> \/ queue # {}
      BY DEF Kept
    <2>2. CASE txCount = TransactionCount
      BY <2>2 DEF ReasonInv
    <2>3. CASE txCount # TransactionCount
      BY <2>1, <2>3 DEF ReasonInv
    <2>. QED
      BY <2>2, <2>3
  <1>. QED
    BY <1>2, ReasonInvariant, PTL

-------------------------------------------------------------------------------
(* The extra round of a single start function *)

\* Depth of the recorded sequences in Phase 1.
Recorded(n) ==
  \A j \in DOMAIN openStates :
    Len(openStates[j].seq) = 0 \/ Len(openStates[j].seq) + n <= iteration

DepthInv ==
  iteration <= P1DL + 1 =>
    /\ pc \in {"loop", "stop"} => Recorded(1)
    /\ pc = "execute" => Recorded(2) /\ iteration >= 2
    /\ pc # "assign"

\* While the flag is up the loop is between the two phases and has a state to run; or mine
\* has found no target and the loop is about to end.
FlagInv ==
  /\ iteration <= P1DL + 1 /\ pc \in {"execute", "stop"} => txCount = TransactionCount
  /\ oneStart =>
       \/ /\ pc \in {"loop", "done"}
          /\ iteration = P1DL + 1
          /\ txCount = TransactionCount
          /\ \E j \in DOMAIN openStates :
               Len(openStates[j].seq) > 0 /\ Len(openStates[j].seq) <= P1DL
       \/ /\ Strategy = "mine"
          /\ pc \in {"execute", "stop", "loop", "done"}
          /\ iteration > P1DL + 1
          /\ txCount = iteration

\* A transaction makes the recorded sequence of its state at most one longer.
LEMMA SuccessorDepth ==
  ASSUME TypeOK, NEW t \in Successors
  PROVE  \E j \in DOMAIN openStates :
           Len(t.seq) \in {Len(openStates[j].seq), Len(openStates[j].seq) + 1}
  <1>1. PICK j \in DOMAIN openStates, f \in dispatch :
           t = After(openStates[j], f) \/ t = SilentAfter(openStates[j], f)
    BY DEF Successors
  <1>2. openStates[j].seq \in Seq(Ftns) /\ f \in Ftns
    BY OpenLengths DEF TypeOK
  <1>3. t.seq = Append(openStates[j].seq, f) \/ t.seq = openStates[j].seq
    BY <1>1 DEF After, SilentAfter
  <1>. QED
    BY <1>2, <1>3

LEMMA DepthStep == TypeOK /\ LoopInv /\ DepthInv /\ [Next]_vars => DepthInv'
  <1> SUFFICES ASSUME TypeOK, LoopInv, DepthInv, [Next]_vars PROVE DepthInv'
    OBVIOUS
  <1> USE DEF vars, loopVars, searchVars, covVars, assignVars, history
  <1>. i \in Nat /\ iteration \in Nat /\ P1DL \in Nat \ {0}
    BY BoundsAssumption DEF TypeOK
  <1>0. \A j \in DOMAIN openStates : Len(openStates[j].seq) \in Nat
    BY OpenLengths
  <1>. iteration' \in Nat
    BY NextTypes DEF TypeOK
  <1>1. CASE UNCHANGED vars
    BY <1>1 DEF DepthInv, Recorded
  <1>2. CASE iteration' > P1DL + 1
    BY <1>2 DEF DepthInv
  <1>3. CASE Preprocess
    <2>1. /\ pc = "loop" /\ pc' = "loop" /\ i = 0 /\ iteration' = iteration + 1
          /\ UNCHANGED openStates
      BY <1>3 DEF Preprocess
    <2>2. Recorded(1)
      BY <2>1 DEF DepthInv, LoopInv
    <2>3. Recorded(1)'
      BY <1>0, <2>1, <2>2 DEF Recorded
    <2>. QED
      BY <2>1, <2>3 DEF DepthInv
  <1>4. CASE StartPhase1
    <2>1. /\ pc = "loop" /\ pc' = "execute" /\ i > 0 /\ iteration' = iteration + 1
          /\ iteration + 1 <= P1DL + 1 /\ UNCHANGED openStates
      BY <1>4 DEF StartPhase1
    <2>2. iteration >= 1 /\ Recorded(1)
      BY <2>1 DEF DepthInv, LoopInv
    <2>3. Recorded(2)' /\ iteration' >= 2
      BY <1>0, <2>1, <2>2 DEF Recorded
    <2>. QED
      BY <2>1, <2>3 DEF DepthInv
  <1>5. CASE StartNoTarget \/ StartWithStates
    <2>1. iteration' > P1DL + 1
      BY <1>5 DEF StartNoTarget, StartWithStates, StartPhase2
    <2>. QED
      BY <1>2, <2>1
  <1>6. CASE Assign \/ AssignNothing
    <2>1. pc = "assign" /\ UNCHANGED iteration
      BY <1>6 DEF Assign, AssignNothing
    <2>2. iteration' > P1DL + 1
      BY <2>1 DEF DepthInv
    <2>. QED
      BY <1>2, <2>2
  <1>7. CASE Execute
    <2>1. pc = "execute" /\ pc' = "stop" /\ UNCHANGED iteration
      BY <1>7 DEF Execute
    <2>2. SUFFICES ASSUME iteration <= P1DL + 1 PROVE Recorded(1)'
      BY <1>2, <2>1 DEF DepthInv
    <2>3. Recorded(2) /\ iteration >= 2
      BY <2>1, <2>2 DEF DepthInv
    <2>4. CASE openStates = <<>> \/ timedOut
      <3>1. openStates' = <<>>
        BY <1>7, <2>4 DEF Execute
      <3>. QED
        BY <3>1 DEF Recorded
    <2>5. CASE ~(openStates = <<>> \/ timedOut)
      <3>1. PICK n \in 0..MaxOpen : openStates' \in [1..n -> Successors]
        BY <1>7, <2>5 DEF Execute
      <3>2. \A m \in DOMAIN openStates' : openStates'[m] \in Successors
        BY <3>1
      <3>3. ASSUME NEW m \in DOMAIN openStates'
            PROVE  Len(openStates'[m].seq) + 1 <= iteration'
        <4>1. PICK j \in DOMAIN openStates :
                 Len(openStates'[m].seq) \in {Len(openStates[j].seq), Len(openStates[j].seq) + 1}
          BY <3>2, SuccessorDepth
        <4>. QED
          BY <1>0, <2>1, <2>3, <4>1 DEF Recorded
      <3>. QED
        BY <3>3 DEF Recorded
    <2>. QED
      BY <2>4, <2>5
  <1>8. CASE StopNoState \/ StopPhase1 \/ StopLastOfPhase1 \/ StopPhase2
    <2>1. /\ pc = "stop" /\ pc' = "loop" /\ UNCHANGED <<iteration, openStates>>
      BY <1>8 DEF StopNoState, StopPhase1, StopLastOfPhase1, StopPhase2, EndRound
    <2>. QED
      BY <2>1 DEF DepthInv, Recorded
  <1>9. CASE LoopExit
    BY <1>9 DEF LoopExit, DepthInv
  <1>10. CASE Finished
    BY <1>1, <1>10 DEF Finished
  <1>. QED
    BY <1>1, <1>3, <1>4, <1>5, <1>6, <1>7, <1>8, <1>9, <1>10 DEF Next

LEMMA DepthInvariant == Spec => []DepthInv
  <1>1. Init => DepthInv
    <2> SUFFICES ASSUME Init PROVE DepthInv
      OBVIOUS
    <2>1. pc = "loop" /\ \A j \in DOMAIN openStates : openStates[j] = Genesis
      BY DEF Init
    <2>2. Recorded(1)
      BY <2>1 DEF Recorded, Genesis
    <2>. QED
      BY <2>1, <2>2 DEF DepthInv
  <1>. QED
    BY <1>1, DepthStep, LoopInvariant, TypeCorrect, PTL DEF Spec

\* A single start function is the last one of some sequence.
LEMMA OneStartFunction ==
  ASSUME Cardinality(StartFunctions) = 1
  PROVE  \E j \in DOMAIN openStates : openStates[j].seq # <<>>
  <1>1. StartFunctions # {}
    BY FS_EmptySet
  <1>. QED
    BY <1>1 DEF StartFunctions

LEMMA FlagStep == TypeOK /\ LoopInv /\ DepthInv /\ FlagInv /\ [Next]_vars => FlagInv'
  <1> SUFFICES ASSUME TypeOK, LoopInv, DepthInv, FlagInv, [Next]_vars PROVE FlagInv'
    OBVIOUS
  <1> USE DEF vars, loopVars, searchVars, covVars, assignVars, history
  <1>. /\ i \in Nat /\ iteration \in Nat /\ txCount \in Nat /\ P1DL \in Nat \ {0}
       /\ TransactionCount \in Nat
    BY BoundsAssumption DEF TypeOK
  <1>1. CASE UNCHANGED vars
    BY <1>1 DEF FlagInv
  <1>2. CASE Preprocess
    <2>1. /\ pc = "loop" /\ pc' = "loop" /\ i = 0 /\ iteration' = iteration + 1 /\ UNCHANGED oneStart
      BY <1>2 DEF Preprocess
    <2>2. ~oneStart
      BY <2>1 DEF FlagInv, LoopInv
    <2>. QED
      BY <2>1, <2>2 DEF FlagInv
  <1>3. CASE StartPhase1
    <2>1. /\ pc = "loop" /\ pc' = "execute" /\ i < txCount /\ iteration' = iteration + 1
          /\ iteration + 1 <= P1DL + 1 /\ UNCHANGED <<txCount, oneStart>>
      BY <1>3 DEF StartPhase1
    <2>2. txCount = TransactionCount /\ ~oneStart
      BY <2>1 DEF LoopInv, FlagInv
    <2>. QED
      BY <2>1, <2>2 DEF FlagInv
  <1>4. CASE StartNoTarget
    <2>1. /\ Strategy = "mine" /\ pc' = "execute" /\ iteration' > P1DL + 1 /\ txCount' = iteration'
          /\ iteration' = iteration + 1
      BY <1>4 DEF StartNoTarget, StartPhase2, NothingToRun
    <2>. QED
      BY <2>1 DEF FlagInv
  <1>5. CASE StartWithStates
    <2>1. ~oneStart' /\ iteration' > P1DL + 1 /\ iteration' = iteration + 1
      BY <1>5, StartSteps DEF StartWithStates, StartPhase2
    <2>. QED
      BY <2>1 DEF FlagInv
  <1>6. CASE Assign \/ AssignNothing
    <2>1. pc = "assign" /\ UNCHANGED <<iteration, oneStart>>
      BY <1>6 DEF Assign, AssignNothing
    <2>2. ~oneStart /\ iteration > P1DL + 1
      BY <2>1 DEF FlagInv, DepthInv
    <2>. QED
      BY <2>1, <2>2 DEF FlagInv
  <1>7. CASE Execute
    <2>1. pc = "execute" /\ pc' = "stop" /\ UNCHANGED <<i, iteration, txCount, oneStart>>
      BY <1>7 DEF Execute
    <2>. QED
      BY <2>1 DEF FlagInv
  <1>8. CASE StopNoState
    <2>1. /\ pc = "stop" /\ iteration = 2 /\ pc' = "loop" /\ UNCHANGED <<iteration, oneStart>>
      BY <1>8 DEF StopNoState
    <2>2. ~oneStart
      BY <2>1 DEF FlagInv
    <2>. QED
      BY <2>1, <2>2 DEF FlagInv
  <1>9. CASE StopPhase1
    <2>1. pc = "stop" /\ pc' = "loop" /\ iteration <= P1DL /\ UNCHANGED <<iteration, oneStart>>
      BY <1>9 DEF StopPhase1, EndRound
    <2>2. ~oneStart
      BY <2>1 DEF FlagInv
    <2>. QED
      BY <2>1, <2>2 DEF FlagInv
  <1>10. CASE StopLastOfPhase1
    <2>1. /\ pc = "stop" /\ pc' = "loop" /\ iteration = P1DL + 1 /\ UNCHANGED <<iteration, openStates>>
      BY <1>10 DEF StopLastOfPhase1, EndRound
    <2>2. SUFFICES ASSUME oneStart'
                   PROVE  /\ txCount' = TransactionCount
                          /\ \E j \in DOMAIN openStates :
                               Len(openStates[j].seq) > 0 /\ Len(openStates[j].seq) <= P1DL
      BY <2>1 DEF FlagInv
    <2>3. ~oneStart
      BY <2>1 DEF FlagInv
    <2>4. ~termination' /\ Cardinality(StartFunctions) = 1
      BY <1>10, <2>2, <2>3 DEF StopLastOfPhase1
    <2>5. txCount' = txCount
      BY <1>10, <2>2, <2>4 DEF StopLastOfPhase1, EndRound, Covered
    <2>6. txCount = TransactionCount
      BY <2>1 DEF FlagInv
    <2>7. PICK j \in DOMAIN openStates : openStates[j].seq # <<>>
      BY <2>4, OneStartFunction
    <2>8. Len(openStates[j].seq) \in Nat \ {0}
      BY <2>7, OpenLengths
    <2>9. Len(openStates[j].seq) + 1 <= iteration
      BY <2>1, <2>8 DEF DepthInv, Recorded
    <2>10. Len(openStates[j].seq) > 0 /\ Len(openStates[j].seq) <= P1DL
      BY <2>1, <2>8, <2>9
    <2>. QED
      BY <2>5, <2>6, <2>10
  <1>11. CASE StopPhase2
    <2>1. /\ pc = "stop" /\ pc' = "loop" /\ iteration > P1DL + 1 /\ UNCHANGED <<iteration, oneStart>>
      BY <1>11 DEF StopPhase2, EndRound
    <2>2. SUFFICES ASSUME oneStart PROVE Strategy = "mine" /\ txCount' = iteration
      BY <2>1 DEF FlagInv
    <2>3. Strategy = "mine" /\ txCount = iteration
      BY <2>1, <2>2 DEF FlagInv
    <2>4. txCount' \in {txCount, iteration}
      BY <1>11 DEF StopPhase2, EndRound
    <2>. QED
      BY <2>3, <2>4
  <1>12. CASE LoopExit
    <2>1. pc = "loop" /\ pc' = "done" /\ UNCHANGED <<iteration, txCount, oneStart, openStates>>
      BY <1>12 DEF LoopExit
    <2>. QED
      BY <2>1 DEF FlagInv
  <1>13. CASE Finished
    BY <1>1, <1>13 DEF Finished
  <1>. QED
    BY <1>1, <1>2, <1>3, <1>4, <1>5, <1>6, <1>7, <1>8, <1>9, <1>10, <1>11, <1>12, <1>13 DEF Next

LEMMA FlagInvariant == Spec => []FlagInv
  <1>1. Init => FlagInv
    BY DEF Init, FlagInv
  <1>. QED
    BY <1>1, FlagStep, DepthInvariant, LoopInvariant, TypeCorrect, PTL DEF Spec

\* The round promised to a contract with a single start function takes place, with bfs and
\* with dfs.
THEOREM OneStartStateContinues ==
  ASSUME Strategy # "mine"
  PROVE  Spec => []OneStartContinues
  <1>1. TypeOK /\ ReasonInv /\ FlagInv => OneStartContinues
    <2> SUFFICES ASSUME TypeOK, ReasonInv, FlagInv, pc = "done", i < TransactionCount, oneStart
                 PROVE  FALSE
      BY DEF OneStartContinues
    <2>1. i \in Nat /\ TransactionCount \in Nat
      BY BoundsAssumption DEF TypeOK
    <2>2. i >= txCount /\ txCount = TransactionCount
      BY DEF ReasonInv, FlagInv
    <2>. QED
      BY <2>1, <2>2
  <1>. QED
    BY <1>1, ReasonInvariant, FlagInvariant, TypeCorrect, PTL

\* A key of a state whose sequence is below the limit and, for mine, of length one is
\* neither left out nor filtered away.
LEMMA KeySurvives ==
  ASSUME TypeOK, NEW j \in Kept, openStates[j].seq # <<>>,
         Strategy = "mine" => Len(openStates[j].seq) = 1,
         NEW q,
         IF Strategy = "mine" /\ OrganizedKeys # {}
         THEN q \in Filtered(queue \cup SavedKeys(OrganizedKeys))
         ELSE q = queue \cup SavedKeys(OrganizedKeys)
  PROVE  q # {}
  <1> DEFINE new == SavedKeys(OrganizedKeys)
  <1>1. PICK k \in OrganizedKeys : k.ws = openStates[j]
    BY KeysOfKept
  <1>2. KeySeq(k) = openStates[j].seq /\ KeySeq(k) \in Seq(Ftns) /\ KeySeq(k) # <<>>
    BY <1>1, OpenLengths DEF KeySeq, Kept
  <1>3. Len(KeySeq(k)) < SeqLenLimit
    BY <1>2 DEF Kept
  <1>4. KeySeq(k)[1] \in Ftns
    BY <1>2
  <1>5. Constructor # KeySeq(k)[1]
    BY <1>4, NamesAssumption DEF Ftns
  <1>6. k \in new
    BY <1>3, <1>5 DEF SavedKeys
  <1>. HIDE DEF new
  <1>7. CASE Strategy # "mine"
    BY <1>6, <1>7 DEF new
  <1>8. CASE Strategy = "mine"
    <2> DEFINE keys == queue \cup new
               live == {l \in keys : ~FallbackTail(KeySeq(l))}
               Group == {l \in live : KeySeq(l) = KeySeq(k)}
    <2>1. Len(KeySeq(k)) = 1
      BY <1>2, <1>8
    <2>2. ~FallbackTail(KeySeq(k))
      BY <2>1 DEF FallbackTail
    <2>3. k \in live /\ k \in Group
      BY <1>6, <2>2
    <2>4. q \in Filtered(keys)
      BY <1>1, <1>8 DEF new
    <2>5. \/ Group \subseteq q
          \/ Cardinality(Group \cap q) >= 3
      BY <2>3, <2>4 DEF Filtered
    <2>6. Cardinality({}) = 0
      BY FS_EmptySet
    <2>. HIDE DEF Group
    <2>7. Group \cap q = {} => Cardinality(Group \cap q) = 0
      BY <2>6
    <2>. QED
      BY <2>3, <2>5, <2>7
  <1>. QED
    BY <1>7, <1>8

\* pop() finds the state of the extra round.
THEOREM NeverCrashes ==
  ASSUME P1DL < SeqLenLimit, Strategy = "mine" => P1DL = 1
  PROVE  Spec => []NoCrash
  <1>1. TypeOK /\ LoopInv /\ FlagInv /\ NoCrash /\ [Next]_vars => NoCrash'
    <2> SUFFICES ASSUME TypeOK, LoopInv, FlagInv, NoCrash, [Next]_vars, pc' = "crashed"
                 PROVE  FALSE
      BY DEF NoCrash
    <2> USE DEF vars, loopVars, searchVars, covVars, assignVars, history
    <2>. /\ iteration \in Nat /\ txCount \in Nat /\ P1DL \in Nat \ {0} /\ SeqLenLimit \in Nat
         /\ i \in Nat /\ i < txCount => ~(i >= txCount)
      BY BoundsAssumption, LimitsAssumption DEF TypeOK
    <2>1. CASE StartWithStates
      <3>1. PICK q : /\ IF Strategy = "mine" /\ OrganizedKeys # {}
                        THEN q \in Filtered(queue \cup SavedKeys(OrganizedKeys))
                        ELSE q = queue \cup SavedKeys(OrganizedKeys)
                     /\ oneStart /\ q = {}
        BY <2>1, StartSteps DEF Run
      <3>2. pc = "loop" /\ i < txCount /\ iteration + 1 > P1DL + 1
        BY <2>1 DEF StartWithStates, StartPhase2
      <3>3. PICK j \in DOMAIN openStates :
               Len(openStates[j].seq) > 0 /\ Len(openStates[j].seq) <= P1DL
        BY <3>1, <3>2 DEF FlagInv, LoopInv
      <3>4. Len(openStates[j].seq) \in Nat /\ openStates[j].seq # <<>>
        BY <3>3, OpenLengths
      <3>5. j \in Kept
        BY <3>3, <3>4 DEF Kept
      <3>6. ASSUME Strategy = "mine"
            PROVE  Len(openStates[j].seq) = 1
        <4>1. P1DL = 1
          BY <3>6
        <4>2. \A n \in Nat : n > 0 /\ n <= 1 => n = 1
          OBVIOUS
        <4>. QED
          BY <3>3, <3>4, <4>1, <4>2
      <3>. QED
        BY <3>1, <3>4, <3>5, <3>6, KeySurvives
    <2>2. CASE Assign
      BY <2>2, AssignSteps DEF Run
    <2>3. CASE ~StartWithStates /\ ~Assign
      BY <2>3 DEF Next, NoCrash, Preprocess, StartPhase1, StartNoTarget, StartPhase2, NothingToRun,
                  AssignNothing, Execute, StopNoState, StopPhase1, StopLastOfPhase1, StopPhase2,
                  EndRound, LoopExit, Finished
    <2>. QED
      BY <2>1, <2>2, <2>3
  <1>2. Init => NoCrash
    BY DEF Init, NoCrash
  <1>. QED
    BY <1>1, <1>2, FlagInvariant, LoopInvariant, TypeCorrect, PTL DEF Spec

-------------------------------------------------------------------------------
(* Breadth first *)

\* What was executed is at depth d or above, what is queued at depth d or d + 1, in the
\* order of the indices.
QueueLayers(d, q) ==
  /\ \A k \in q : Len(k.ws.seq) \in {d, d + 1}
  /\ \A k, l \in q : k.idx < l.idx => Len(k.ws.seq) <= Len(l.ws.seq)

OpenAt(d) == \A j \in DOMAIN openStates : Len(openStates[j].seq) = d

\* The open states have the depth that the part of the round asks for.
Layered(d) ==
  /\ \A k \in ran : Len(k.ws.seq) >= 1 /\ Len(k.ws.seq) <= d
  /\ QueueLayers(d, queue)
  /\ pc \in {"loop", "stop", "done"} => OpenAt(d + 1)
  /\ pc = "execute" => OpenAt(d)

LayerInv ==
  /\ iteration <= P1DL + 1 =>
       /\ ran = {} /\ queue = {}
       /\ pc # "assign"
       /\ pc \in {"loop", "stop"} => OpenAt(IF iteration = 0 THEN 0 ELSE iteration - 1)
       /\ pc = "execute" => iteration >= 2 /\ OpenAt(iteration - 2)
  /\ iteration > P1DL + 1 => \E d \in Nat \ {0} : Layered(d)

\* A state taken from the front of the queue starts no layer above another one.
LEMMA RunLayered ==
  ASSUME Strategy = "bfs", NEW d \in Nat \ {0}, NEW q \in SUBSET Keys, QueueLayers(d, q),
         \A k \in ran : Len(k.ws.seq) >= 1 /\ Len(k.ws.seq) <= d,
         \A k, l \in q : k.idx = l.idx => k = l,
         NEW s, NEW fs, NEW k \in Candidates(q), Run(k, fs, q, s),
         \A l \in Keys : l.idx \in Nat /\ Len(l.ws.seq) \in Nat,
         \A l \in ran : Len(l.ws.seq) \in Nat
  PROVE  \E e \in Nat \ {0} : Layered(e)'
  <1>1. k \in q /\ k \in Keys /\ \A l \in q : k.idx <= l.idx
    BY DEF Candidates
  <1> DEFINE e == Len(k.ws.seq)
  <1>2. e \in Nat \ {0} /\ e \in {d, d + 1}
    BY <1>1 DEF QueueLayers
  <1>3. \A l \in q : l \in Keys /\ l.idx \in Nat /\ Len(l.ws.seq) \in Nat
    OBVIOUS
  <1>4. ASSUME NEW l \in q
        PROVE  Len(l.ws.seq) \in {e, e + 1}
    <2>1. l = k \/ k.idx < l.idx
      BY <1>1, <1>3
    <2>2. e <= Len(l.ws.seq) /\ Len(l.ws.seq) \in {d, d + 1}
      BY <1>1, <1>3, <2>1 DEF QueueLayers
    <2>. QED
      BY <1>2, <1>3, <2>2
  <1>5. /\ queue' = q \ {k} /\ ran' = ran \cup {k} /\ pc' = "execute" /\ openStates' = <<k.ws>>
    BY DEF Run
  <1>6. \A l \in ran' : Len(l.ws.seq) >= 1 /\ Len(l.ws.seq) <= e
    BY <1>2, <1>5
  <1>7. QueueLayers(e, queue')
    BY <1>4, <1>5 DEF QueueLayers
  <1>8. OpenAt(e)'
    <2>1. DOMAIN openStates' = {1} /\ openStates'[1] = k.ws
      BY <1>5
    <2>. QED
      BY <2>1 DEF OpenAt
  <1>9. Layered(e)'
    <2>. HIDE DEF e
    <2>. QED
      BY <1>5, <1>6, <1>7, <1>8 DEF Layered, QueueLayers
  <1>. QED
    BY <1>2, <1>9

LEMMA LayerStep ==
  ASSUME Strategy = "bfs", SilentEnd = {},
         TypeOK, KeysSound, LoopInv, LayerInv, [Next]_vars
  PROVE  LayerInv'
  <1> USE DEF vars, loopVars, searchVars, covVars, assignVars, history
  <1>. i \in Nat /\ iteration \in Nat /\ iteration' \in Nat /\ P1DL \in Nat \ {0}
    BY NextTypes, BoundsAssumption DEF TypeOK
  <1>0. /\ \A j \in DOMAIN openStates : Len(openStates[j].seq) \in Nat
        /\ \A l \in Keys : l.idx \in Nat /\ l.ws.seq \in Seq(Ftns) /\ Len(l.ws.seq) \in Nat
        /\ queue \subseteq Keys /\ ran \subseteq Keys
    <2>1. \A ws \in WorldStates : ws.seq \in Seq(Ftns)
      BY DEF WorldStates
    <2>. QED
      BY <2>1, OpenLengths DEF Keys, TypeOK
  <1>1. CASE UNCHANGED vars
    BY <1>1 DEF LayerInv, Layered, OpenAt
  <1>2. CASE Preprocess
    <2>1. /\ pc = "loop" /\ pc' = "loop" /\ i = 0 /\ iteration' = iteration + 1
          /\ UNCHANGED <<openStates, ran, queue>>
      BY <1>2 DEF Preprocess
    <2>2. iteration = 0 /\ ran = {} /\ queue = {} /\ OpenAt(0)
      BY <2>1 DEF LayerInv, LoopInv
    <2>3. OpenAt(0)' /\ iteration' = 1
      BY <2>1, <2>2 DEF OpenAt
    <2>. QED
      BY <2>1, <2>2, <2>3 DEF LayerInv
  <1>3. CASE StartPhase1
    <2>1. /\ pc = "loop" /\ pc' = "execute" /\ i > 0 /\ iteration' = iteration + 1
          /\ iteration + 1 <= P1DL + 1 /\ UNCHANGED <<openStates, ran, queue>>
      BY <1>3 DEF StartPhase1
    <2>2. iteration >= 1 /\ ran = {} /\ queue = {} /\ OpenAt(iteration - 1)
      BY <2>1 DEF LayerInv, LoopInv
    <2>3. OpenAt(iteration - 2)' /\ iteration' >= 2
      BY <2>1, <2>2 DEF OpenAt
    <2>. QED
      BY <2>1, <2>2, <2>3 DEF LayerInv
  <1>4. CASE StartNoTarget
    BY <1>4 DEF StartNoTarget
  <1>5. CASE StartWithStates
    <2> DEFINE new == SavedKeys(OrganizedKeys)
    <2>1. /\ pc = "loop" /\ i > 0 /\ iteration + 1 > P1DL + 1 /\ iteration' = iteration + 1
          /\ i < txCount
      BY <1>5 DEF StartWithStates, StartPhase2
    <2>2. PICK q \in SUBSET (queue \cup new) :
             \/ \E k \in Candidates(q) : Run(k, AssignAll, q, saved \cup new)
             \/ queue' = q /\ UNCHANGED ran /\ pc' \in {"crashed", "assign"}
      BY <1>5, StartSteps
    \* The open states are one transaction deeper than everything that was executed.
    <2> DEFINE Before(d) == /\ \A k \in ran : Len(k.ws.seq) >= 1 /\ Len(k.ws.seq) <= d
                            /\ QueueLayers(d, queue)
                            /\ OpenAt(d + 1) \/ (queue = {} /\ OpenAt(d))
    <2>3. \E d \in Nat \ {0} : Before(d)
      <3>1. CASE iteration <= P1DL + 1
        <4>1. ran = {} /\ queue = {} /\ iteration = P1DL + 1 /\ OpenAt(iteration - 1)
          BY <2>1, <3>1 DEF LayerInv
        <4>2. OpenAt(P1DL)
          BY <4>1
        <4>. QED
          BY <4>1, <4>2 DEF QueueLayers
      <3>2. CASE iteration > P1DL + 1
        BY <2>1, <3>2 DEF LayerInv, Layered
      <3>. QED
        BY <3>1, <3>2
    <2>4. PICK d \in Nat \ {0} : Before(d)
      BY <2>3
    <2>5. new \subseteq OrganizedKeys /\ new \subseteq Keys /\ q \subseteq Keys
      BY <1>0, SavedFilteredCandidates, OrganizedKeysProperties DEF TypeOK
    <2>6. \A k \in new : \E j \in DOMAIN openStates : k.ws = openStates[j]
      BY <2>5, KeysOfKept DEF Kept
    <2>7. \A k \in new : Len(k.ws.seq) \in {d, d + 1}
                        /\ (queue # {} => Len(k.ws.seq) = d + 1)
                        /\ \A l \in new : Len(k.ws.seq) = Len(l.ws.seq)
      BY <2>4, <2>6 DEF OpenAt
    <2>8. \A k \in queue, l \in new : k.idx < l.idx
      <3>1. \A k \in queue : k.idx < stateIndex /\ k.idx \in Nat
        BY <1>0 DEF KeysSound
      <3>2. \A l \in new : stateIndex <= l.idx /\ l.idx \in Nat /\ stateIndex \in Nat
        BY <1>0, <2>5, OrganizedKeysProperties DEF TypeOK
      <3>. QED
        BY <3>1, <3>2
    <2>. HIDE DEF new
    <2>9. QueueLayers(d, q)
      <3>1. \A k \in q : Len(k.ws.seq) \in {d, d + 1}
        BY <2>4, <2>7 DEF QueueLayers
      <3>2. ASSUME NEW k \in q, NEW l \in q, k.idx < l.idx
            PROVE  Len(k.ws.seq) <= Len(l.ws.seq)
        <4>1. CASE k \in queue /\ l \in queue
          BY <2>4, <3>2, <4>1 DEF QueueLayers
        <4>2. CASE k \in queue /\ l \in new
          BY <2>4, <2>7, <4>2 DEF QueueLayers
        <4>3. CASE k \in new /\ l \in queue
          <5>1. l.idx < k.idx /\ l.idx \in Nat /\ k.idx \in Nat
            BY <1>0, <2>5, <2>8, <4>3
          <5>. QED
            BY <3>2, <5>1
        <4>4. CASE k \in new /\ l \in new
          BY <2>7, <4>4
        <4>. QED
          BY <4>1, <4>2, <4>3, <4>4
      <3>. QED
        BY <3>1, <3>2 DEF QueueLayers
    <2>10. \A k, l \in q : k.idx = l.idx => k = l
      <3>1. Sound(q, saved \cup new, ran, stateIndex + Cardinality(Kept))
        BY <2>5, MergeSound
      <3>. QED
        BY <3>1 DEF Sound
    <2>11. CASE \E k \in Candidates(q) : Run(k, AssignAll, q, saved \cup new)
      <3>1. \E e \in Nat \ {0} : Layered(e)'
        BY <1>0, <2>4, <2>5, <2>9, <2>10, <2>11, RunLayered
      <3>. QED
        BY <2>1, <3>1 DEF LayerInv
    <2>12. CASE queue' = q /\ UNCHANGED ran /\ pc' \in {"crashed", "assign"}
      <3>1. Layered(d)'
        BY <2>4, <2>9, <2>12 DEF Layered, QueueLayers
      <3>. QED
        BY <2>1, <3>1 DEF LayerInv
    <2>. QED
      BY <2>2, <2>11, <2>12
  <1>6. CASE Assign
    <2>1. pc = "assign" /\ UNCHANGED iteration
      BY <1>6, AssignSteps
    <2>2. iteration > P1DL + 1
      BY <2>1 DEF LayerInv
    <2>3. PICK d \in Nat \ {0} : Layered(d)
      BY <2>2 DEF LayerInv
    <2>4. PICK k \in Candidates(queue) :
             \/ pc' = "assign" /\ queue' = queue \ {k} /\ UNCHANGED ran
             \/ \E fs : Run(k, fs, queue, saved)
      BY <1>6, AssignSteps
    <2>5. CASE pc' = "assign" /\ queue' = queue \ {k} /\ UNCHANGED ran
      <3>1. Layered(d)'
        BY <2>3, <2>5 DEF Layered, QueueLayers
      <3>. QED
        BY <2>1, <2>2, <3>1 DEF LayerInv
    <2>6. CASE \E fs : Run(k, fs, queue, saved)
      <3>1. \A x, y \in queue : x.idx = y.idx => x = y
        BY DEF KeysSound
      <3>2. \E e \in Nat \ {0} : Layered(e)'
        BY <1>0, <2>3, <2>6, <3>1, RunLayered DEF Layered
      <3>. QED
        BY <2>1, <2>2, <3>2 DEF LayerInv
    <2>. QED
      BY <2>4, <2>5, <2>6
  <1>7. CASE AssignNothing
    <2>1. /\ pc = "assign" /\ pc' = "execute" /\ openStates' = <<>>
          /\ UNCHANGED <<iteration, ran, queue>>
      BY <1>7 DEF AssignNothing
    <2>2. iteration > P1DL + 1
      BY <2>1 DEF LayerInv
    <2>3. PICK d \in Nat \ {0} : Layered(d)
      BY <2>2 DEF LayerInv
    <2>4. Layered(d)'
      BY <2>1, <2>3 DEF Layered, OpenAt
    <2>. QED
      BY <2>1, <2>2, <2>4 DEF LayerInv
  <1>8. CASE Execute
    <2>1. pc = "execute" /\ pc' = "stop" /\ UNCHANGED <<iteration, ran, queue>>
      BY <1>8 DEF Execute
    <2>2. \A d \in Nat : OpenAt(d) => OpenAt(d + 1)'
      <3>1. SUFFICES ASSUME NEW d \in Nat, OpenAt(d) PROVE OpenAt(d + 1)'
        OBVIOUS
      <3>2. CASE openStates = <<>> \/ timedOut
        <4>1. openStates' = <<>>
          BY <1>8, <3>2 DEF Execute
        <4>. QED
          BY <4>1 DEF OpenAt
      <3>3. CASE ~(openStates = <<>> \/ timedOut)
        <4>1. PICK n \in 0..MaxOpen : openStates' \in [1..n -> Successors]
          BY <1>8, <3>3 DEF Execute
        <4>2. ASSUME NEW m \in DOMAIN openStates'
              PROVE  Len(openStates'[m].seq) = d + 1
          <5>1. openStates'[m] \in Successors
            BY <4>1
          <5>2. PICK j \in DOMAIN openStates :
                   openStates'[m].seq = Append(openStates[j].seq, LastOf(openStates'[m].path))
            BY <5>1, SuccessorPaths
          <5>3. Len(openStates'[m].seq) = Len(openStates[j].seq) + 1
            BY <5>2, OpenLengths
          <5>. QED
            BY <3>1, <5>3 DEF OpenAt
        <4>. QED
          BY <4>2 DEF OpenAt
      <3>. QED
        BY <3>2, <3>3
    <2>3. CASE iteration <= P1DL + 1
      <3>1. iteration >= 2 /\ OpenAt(iteration - 2) /\ ran = {} /\ queue = {}
        BY <2>1, <2>3 DEF LayerInv
      <3>2. PICK d \in Nat : d = iteration - 2 /\ OpenAt(d)
        BY <3>1
      <3>3. OpenAt(d + 1)'
        BY <2>2, <3>2
      <3>4. OpenAt(iteration - 1)'
        BY <2>1, <3>2, <3>3 DEF OpenAt
      <3>. QED
        BY <2>1, <2>3, <3>1, <3>4 DEF LayerInv
    <2>4. CASE iteration > P1DL + 1
      <3>1. PICK d \in Nat \ {0} : Layered(d)
        BY <2>4 DEF LayerInv
      <3>2. OpenAt(d + 1)'
        BY <2>1, <2>2, <3>1 DEF Layered
      <3>3. Layered(d)'
        BY <2>1, <3>1, <3>2 DEF Layered
      <3>. QED
        BY <2>1, <2>4, <3>3 DEF LayerInv
    <2>. QED
      BY <2>3, <2>4
  <1>9. CASE StopNoState \/ StopPhase1 \/ StopLastOfPhase1 \/ StopPhase2
    <2>1. /\ pc = "stop" /\ pc' = "loop" /\ UNCHANGED <<iteration, openStates, ran, queue>>
      BY <1>9 DEF StopNoState, StopPhase1, StopLastOfPhase1, StopPhase2, EndRound
    <2>. QED
      BY <2>1 DEF LayerInv, Layered, OpenAt
  <1>10. CASE LoopExit
    <2>1. /\ pc = "loop" /\ pc' = "done" /\ UNCHANGED <<iteration, openStates, ran, queue>>
      BY <1>10 DEF LoopExit
    <2>. QED
      BY <2>1 DEF LayerInv, Layered, OpenAt
  <1>11. CASE Finished
    BY <1>1, <1>11 DEF Finished
  <1>. QED
    BY <1>1, <1>2, <1>3, <1>4, <1>5, <1>6, <1>7, <1>8, <1>9, <1>10, <1>11 DEF Next

\* With bfs no state waits above one that was executed, when every transaction that ends
\* records its function.
THEOREM SearchIsBreadthFirst ==
  ASSUME Strategy = "bfs", SilentEnd = {}
  PROVE  Spec => []BfsLayers
  <1>1. Init => LayerInv
    <2> SUFFICES ASSUME Init PROVE LayerInv
      OBVIOUS
    <2>1. /\ pc = "loop" /\ iteration = 0 /\ ran = {} /\ queue = {}
          /\ \A j \in DOMAIN openStates : openStates[j] = Genesis
      BY DEF Init
    <2>2. OpenAt(0)
      BY <2>1 DEF OpenAt, Genesis
    <2>. QED
      BY <2>1, <2>2, BoundsAssumption DEF LayerInv
  <1>2. TypeOK /\ LayerInv => BfsLayers
    <2> SUFFICES ASSUME TypeOK, LayerInv, NEW k \in ran, NEW l \in queue
                 PROVE  Len(KeySeq(k)) <= Len(KeySeq(l))
      BY DEF BfsLayers
    <2>1. k.ws.seq \in Seq(Ftns) /\ l.ws.seq \in Seq(Ftns)
      BY DEF TypeOK, Keys, WorldStates
    <2>2. iteration \in Nat /\ P1DL \in Nat
      BY BoundsAssumption DEF TypeOK
    <2>3. PICK d \in Nat \ {0} : Layered(d)
      BY <2>2 DEF LayerInv
    <2>4. Len(k.ws.seq) >= 1 /\ Len(k.ws.seq) <= d /\ Len(l.ws.seq) \in {d, d + 1}
      BY <2>3 DEF Layered, QueueLayers
    <2>5. KeySeq(k) = k.ws.seq /\ KeySeq(l) = l.ws.seq
      BY <2>1, <2>4 DEF KeySeq
    <2>. QED
      BY <2>1, <2>4, <2>5
  <1>3. TypeOK /\ KeysSound /\ LoopInv /\ LayerInv /\ [Next]_vars => LayerInv'
    BY LayerStep
  <1>. QED
    BY <1>1, <1>2, <1>3, KeysStaySound, LoopInvariant, TypeCorrect, PTL DEF Spec
===============================================================================
