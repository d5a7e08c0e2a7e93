--------------------------- MODULE MCProblemFiles ---------------------------
(* Model values for ProblemFiles: selections of one file. A selection of  *)
(* several that stops half-way is one that stores its file and then meets  *)
(* the fault.                                                              *)
EXTENDS ProblemFiles

CONSTANTS p1, c1, r1, n1, u1, u2

MCBatches == {<<n1>>}
=============================================================================
