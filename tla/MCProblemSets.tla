--------------------------- MODULE MCProblemSets ---------------------------
(* ProblemSets for TLC: requests, problems and addresses are               *)
(* interchangeable, and what a request will not use any more is not looked *)
(* at.                                                                     *)
EXTENDS ProblemSets, TLC

Alike == Permutations(Requests) \cup Permutations(Problems) \cup Permutations(People)

InCopy(r)   == pc[r] \in {"row", "link"}
InUpdate(r) == pc[r] \in {"update", "lock", "add", "commit"}

Ahead == <<sets, sourceVars, shares, copies, pc, crossed, over, taken,
           [r \in {q \in Requests : pc[q] = "insert"} |-> limit[r]],
           [r \in {q \in Requests : InCopy(q)} |-> <<todo[r], hand[r]>>],
           [r \in {q \in Requests : InUpdate(q)} |-> <<doomed[r], added[r]>>],
           [r \in {q \in Requests : InUpdate(q) \/ Replaced(q)} |-> <<list[r], earlier[r]>>]>>
=============================================================================
