--------------------------- MODULE MCGuidedExecution ---------------------------
(* Instances of GuidedExecution for TLC: two functions and the fallback. *)
EXTENDS GuidedExecution, TLC

MCFunctions == {"f", "g"}
MCFallback == "fallback"
MCConstructor == "constructor"

\* f writes what g reads in a condition, g writes what f reads; the fallback writes
\* what g reads.
Chain == ("f" :> {"g"})
Cycle == [x \in {"f", "g", "fallback"} |-> IF x = "g" THEN {"f"} ELSE {"g"}]
MCGraphs == {Chain, Cycle}
MCAllReads == [x \in MCFunctions \cup {MCFallback} |-> IF x = "f" THEN {"f", "g"} ELSE {"f"}]
===============================================================================
