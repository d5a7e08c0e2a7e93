----------------------------- MODULE MCAccounts -----------------------------
(* Accounts for TLC: requests and passwords are interchangeable, and states *)
(* that differ only in what a request has read or was asked to write and    *)
(* will not use any more are visited once.                                  *)
EXTENDS Accounts, TLC

Alike == Permutations(Requests) \cup Permutations(Passwords)

UsesRead(r)  == pc[r] \in {"login", "change", "issue"}
UsesPatch(r) == pc[r] \in Writing \cup {"switch", "flag"}

Ahead == <<account, profile, tokens, pc, history,
           [r \in {q \in Requests : UsesRead(q)} |-> read[r]],
           [r \in {q \in Requests : UsesPatch(q)} |-> patch[r]]>>
=============================================================================
