-------------------------- MODULE MCReviewSession --------------------------
(* Model values for ReviewSession: pages and requests are interchangeable. *)
EXTENDS ReviewSession, TLC

Alike == Permutations(Tabs) \cup Permutations(Requests)
=============================================================================
