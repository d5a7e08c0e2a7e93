--------------------------- MODULE MCRateLimiter ---------------------------
(* RateLimiter for TLC: two clients of the auth policy and one of the      *)
(* upload policy, whose window is longer.                                  *)
EXTENDS RateLimiter, TLC

Windows == [k \in Keys |-> IF k = "file_upload" THEN 4 ELSE 3]
Limits  == [k \in Keys |-> IF k = "file_upload" THEN 1 ELSE 2]

Alike == Permutations(Requests)
=============================================================================
