---------------------------- MODULE DailyBudget ----------------------------
(***************************************************************************)
(* What the daily AI quota promises, without requests, transactions or     *)
(* locks: each day has a counter that moves by whole units, one at a time, *)
(* and never moves past every limit that anybody configured.               *)
(***************************************************************************)
EXTENDS Integers

CONSTANTS Days,    \* the calendar days (usage_quotas.period_start)
          Grants   \* every limit that may be in force

VARIABLE used      \* [Days -> Nat]

Init == used = [d \in Days |-> 0]

(* One unit of day d is spent, under one of the limits. *)
Spend(d) ==
    /\ \E g \in Grants : used[d] < g
    /\ used' = [used EXCEPT ![d] = @ + 1]

Next == \E d \in Days : Spend(d)

Spec == Init /\ [][Next]_used
=============================================================================
