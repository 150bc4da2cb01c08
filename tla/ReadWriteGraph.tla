----------------------------- MODULE ReadWriteGraph -----------------------------
(***************************************************************************)
(* The function read/write graph and the sequences found in it:               *)
(* fdg/fwrg_manager.py.  Functions are numbered in the order of the contract's *)
(* method identifiers; writes and reads are functions from functions to the   *)
(* slots they write, and read (in conditions, or anywhere).                   *)
(***************************************************************************)
EXTENDS Integers, Sequences, FiniteSets, SequencesExt, FiniteSetsExt

CONSTANT seq_len_limit

ASSUME LimitAssumption == seq_len_limit \in Nat \ {0}

\* The elements of s, each at its first place.
Distinct(s) ==
  LET upto[n \in 0..Len(s)] ==
        IF n = 0 THEN <<>>
        ELSE LET t == upto[n - 1] IN IF Contains(t, s[n]) THEN t ELSE Append(t, s[n])
  IN  upto[Len(s)]

\* _generate_fwrg, generate_graph_all_reads: who reads what a function writes.
_generate_fwrg(writes, reads) ==
  [f \in DOMAIN writes |-> {g \in DOMAIN reads : writes[f] \cap reads[g] # {}}]

\* _generate_frwg: a function that reads what nobody writes has no entry.
_generate_frwg(writes, reads) ==
  LET parents(g) == {f \in DOMAIN writes : writes[f] \cap reads[g] # {}}
  IN  [g \in {r \in DOMAIN reads : reads[r] = {} \/ parents(r) # {}} |-> parents(g)]

\* get_children_fwrg and its relatives
Listed(graph, f) == IF f \in DOMAIN graph THEN graph[f] ELSE {}

-------------------------------------------------------------------------------
(* AcyclicPath *)

\* One child of the last function of a path.  A function that depends on itself makes its
\* path one longer, for the children that come after it too.
Derive(p, child) ==
  IF child \notin ToSet(p.path) THEN [p EXCEPT !.derived = Append(@, Append(p.path, child))]
  ELSE LET path == IF p.path = <<child>> THEN <<child, child>> ELSE p.path
       IN  [p EXCEPT !.path = path, !.all = IF Contains(@, path) THEN @ ELSE Append(@, path)]

\* The children come in the order of the functions.
DeriveAll(fwrg, p, path) ==
  LET children == Listed(fwrg, Last(path))
      upto[g \in Nat] ==
        IF g = 0 THEN [p EXCEPT !.path = path]
        ELSE IF g \in children THEN Derive(upto[g - 1], g) ELSE upto[g - 1]
  IN  IF children = {}
      THEN [p EXCEPT !.all = IF Contains(@, path) THEN @ ELSE Append(@, path)]
      ELSE upto[Max(children)]

Longer(fwrg, p) ==
  LET upto[n \in 0..Len(p.derived)] ==
        IF n = 0 THEN [p EXCEPT !.derived = <<>>] ELSE DeriveAll(fwrg, upto[n - 1], p.derived[n])
  IN  upto[Len(p.derived)]

Paths(fwrg, start, rounds) ==
  LET after[n \in Nat] ==
        IF n = 0 THEN [path |-> <<>>, all |-> <<>>, derived |-> <<<<start>>>>]
        ELSE Longer(fwrg, after[n - 1])
      end == after[rounds]
  IN  end.all \o end.derived

\* Mutant: one function too few.
derive_paths_short(fwrg, start) == Paths(fwrg, start, seq_len_limit - 2)

derive_paths(fwrg, start) == Paths(fwrg, start, seq_len_limit - 1)

\* The paths to a deep function, cut behind it; those of one length are kept together.
organize_paths(paths, dk) ==
  LET Cuts(path) ==
        FlattenSeq([n \in DOMAIN path |-> IF n > 1 /\ path[n] = dk THEN <<SubSeq(path, 1, n)>> ELSE <<>>])
      found == Distinct(FlattenSeq([n \in DOMAIN paths |-> Cuts(paths[n])]))
      lengths == Distinct([n \in DOMAIN found |-> Len(found[n])])
      OfLength(l) == FlattenSeq([n \in DOMAIN found |-> IF Len(found[n]) = l THEN <<found[n]>> ELSE <<>>])
  IN  FlattenSeq([k \in DOMAIN lengths |-> OfLength(lengths[k])])

\* The deep functions that are found, each with its sequences.
AcyclicPath(fwrg, start_functions, dk_functions) ==
  LET paths == FlattenSeq([n \in DOMAIN start_functions |-> derive_paths(fwrg, start_functions[n])])
  IN  [dk \in {d \in dk_functions : organize_paths(paths, d) # <<>>} |-> organize_paths(paths, dk)]

-------------------------------------------------------------------------------
(* UpdateFWRG: a graph is a set of edges *)

construct_fwrg_targets(paths_df) ==
  UNION {{<<p[n], p[n + 1]>> : n \in 1..Len(p) - 1} : p \in UNION {ToSet(paths_df[dk]) : dk \in DOMAIN paths_df}}

\* belong_relation, for a sequence that is not longer than the other
Belongs(s1, s2) == ToSet(s1) \subseteq ToSet(s2)

\* The places of s2, from p.next up to e, are the segment that faces one of s1.
Facing(p, s2, e) ==
  LET here == {i \in p.next..Len(s2) : s2[i] = e}
      end == IF here = {} THEN Len(s2) ELSE Min(here) - 1
  IN  [first |-> p.next, last |-> end,
       next |-> IF p.next > Len(s2) THEN p.next ELSE IF here = {} THEN Len(s2) + 1 ELSE Min(here) + 1]

\* A segment of s1 and the one that faces it are joined in both orders.
Joined(s1, s2, p, f) ==
  IF p.first = 0 \/ f.first > f.last THEN {}
  ELSE {<<s2[f.last], s1[p.first]>>, <<s1[p.last], s2[f.first]>>}

\* Up to the last function of s1.
Walked(s1, s2) ==
  LET Step(p, n) ==
        IF s1[n] \notin ToSet(s2) THEN [p EXCEPT !.first = IF @ = 0 THEN n ELSE @, !.last = n]
        ELSE LET f == Facing(p, s2, s1[n])
             IN  [first |-> 0, last |-> 0, next |-> f.next, edges |-> p.edges \cup Joined(s1, s2, p, f)]
      upto[n \in 0..Len(s1)] ==
        IF n = 0 THEN [first |-> 0, last |-> 0, next |-> 1, edges |-> {}] ELSE Step(upto[n - 1], n)
  IN  upto[Len(s1)]

\* Mutant: the segments behind the last common function are not joined.
find_edges_inner(s1, s2) == Walked(s1, s2).edges

find_edges(s1, s2) ==
  LET end == Walked(s1, s2)
  IN  end.edges \cup Joined(s1, s2, end, Facing(end, s2, Last(s1)))

Combining(seq1, seq2) ==
  LET s1 == IF Len(seq1) > Len(seq2) THEN seq2 ELSE seq1
      s2 == IF Len(seq1) > Len(seq2) THEN seq1 ELSE seq2
  IN  IF Belongs(s1, s2) THEN {}
      ELSE IF ToSet(s1) \cap ToSet(s2) = {}
      THEN {<<Last(seq1), seq2[1]>>, <<Last(seq2), seq1[1]>>}
      ELSE find_edges(s1, s2)

\* add_edges_1
Augmented(paths_df) ==
  LET Before(dk, n) == Front(paths_df[dk][n])
  IN  construct_fwrg_targets(paths_df)
      \cup UNION {UNION {UNION {Combining(Before(dk, a), Before(dk, b)) : b \in a + 1..Len(paths_df[dk])} :
             a \in DOMAIN paths_df[dk]} : dk \in DOMAIN paths_df}

identity_dk_function_not_reachable(paths_df, dk_functions) == dk_functions \ DOMAIN paths_df
===============================================================================
