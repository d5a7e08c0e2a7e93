---------------------------- MODULE RateLimiter ----------------------------
(***************************************************************************)
(* The in-memory rate limiter (state.rs) and the middleware that asks it   *)
(* before every request (middleware.rs): one bucket of admission times for *)
(* each policy and client, all of them under one mutex.                    *)
(*                                                                         *)
(* A request takes its time stamp first and waits for the mutex then, so   *)
(* stamps reach a bucket out of order. Above 10,000 buckets a caller drops *)
(* those that hold nothing from its own window, which may be shorter than  *)
(* the window of the bucket it drops.                                      *)
(***************************************************************************)
EXTENDS Naturals, FiniteSets

CONSTANTS Requests,    \* each is made once
          Keys,        \* policy:client
          Window,      \* the window of a key's policy
          MaxRequests, \* what its policy admits in a window
          Many,        \* 10,000
          Lag,         \* the longest wait for the mutex
          MaxTime      \* bound of the clock

ASSUME RequestsAssumption == IsFiniteSet(Requests)
ASSUME PolicyAssumption   == Window \in [Keys -> Nat] /\ MaxRequests \in [Keys -> Nat \ {0}]
ASSUME BoundAssumption    == Many \in Nat /\ Lag \in Nat /\ MaxTime \in Nat

VARIABLES clock,
          buckets,  \* who is in the bucket of a key; an empty one is absent
          pc,       \* where each request stands
          at,       \* its time stamp
          key,      \* its key
          counted   \* history: admitted since the key was last forgotten

vars == <<clock, buckets, pc, at, key, counted>>

TypeOK ==
    /\ clock \in Nat
    /\ buckets \in [Keys -> SUBSET Requests]
    /\ pc \in [Requests -> {"new", "waiting", "admitted", "refused", "lost"}]
    /\ at \in [Requests -> Nat]
    /\ key \in [Requests -> Keys]
    /\ counted \in [Keys -> SUBSET Requests]

Init ==
    /\ clock = 0
    /\ buckets = [k \in Keys |-> {}]
    /\ pc = [r \in Requests |-> "new"]
    /\ at = [r \in Requests |-> 0]
    /\ \E k \in Keys : key = [r \in Requests |-> k]
    /\ counted = [k \in Keys |-> {}]

(* now.duration_since(seen_at) < window; the difference saturates at zero. *)
BugWithinChecked(r, q, window) == at[q] <= at[r] /\ at[r] < at[q] + window

Within(r, q, window) == at[r] < at[q] + window

(* rate_limit and the first line of check_with_limit. OPTIONS requests and *)
(* rejected paths do not come here.                                        *)
BugArriveNoPolicy(r) ==
    /\ pc[r] = "new"
    /\ pc' = [pc EXCEPT ![r] = "waiting"]
    /\ at' = [at EXCEPT ![r] = clock]
    /\ key' = [key EXCEPT ![r] = "anonymous"]
    /\ UNCHANGED <<clock, buckets, counted>>

Arrive(r) ==
    /\ pc[r] = "new"
    /\ pc' = [pc EXCEPT ![r] = "waiting"]
    /\ at' = [at EXCEPT ![r] = clock]
    /\ \E k \in Keys : key' = [key EXCEPT ![r] = k]
    /\ UNCHANGED <<clock, buckets, counted>>

Recent(r) == {q \in buckets[key[r]] : Within(r, q, Window[key[r]])}

Full(r) == Cardinality(Recent(r)) >= MaxRequests[key[r]]

With(r) == [buckets EXCEPT ![key[r]] = Recent(r) \cup {r}]

Stale(r) == {k \in Keys : \A q \in With(r)[k] : ~Within(r, q, Window[key[r]])}

(* The keys whose bucket goes: none until there are too many buckets.      *)
Pruned(r) ==
    IF Cardinality({k \in Keys : With(r)[k] # {}}) > Many THEN Stale(r) ELSE {}

(* Dropped although its own window has not passed.                         *)
Forgotten(r) == {k \in Pruned(r) : Window[key[r]] < Window[k]}

BugCountRefused(r) ==
    /\ pc' = [pc EXCEPT ![r] = "refused"]
    /\ buckets' = With(r)
    /\ UNCHANGED counted

Refuse(r) ==
    /\ pc' = [pc EXCEPT ![r] = "refused"]
    /\ buckets' = [buckets EXCEPT ![key[r]] = Recent(r)]
    /\ UNCHANGED counted

Admit(r) ==
    /\ pc' = [pc EXCEPT ![r] = "admitted"]
    /\ buckets' = [k \in Keys |-> IF k \in Pruned(r) THEN {} ELSE With(r)[k]]
    /\ counted' = [k \in Keys |->
                      IF k \in Forgotten(r) THEN {}
                      ELSE IF k = key[r] THEN counted[k] \cup {r}
                      ELSE counted[k]]

(* The rest of check_with_limit, in one piece under the mutex.             *)
Check(r) ==
    /\ pc[r] = "waiting"
    /\ IF Full(r) THEN Refuse(r) ELSE Admit(r)
    /\ UNCHANGED <<clock, at, key>>

(* The buckets live in memory only.                                        *)
Restart ==
    /\ buckets' = [k \in Keys |-> {}]
    /\ counted' = [k \in Keys |-> {}]
    /\ pc' = [r \in Requests |-> IF pc[r] = "waiting" THEN "lost" ELSE pc[r]]
    /\ UNCHANGED <<clock, at, key>>

Tick ==
    /\ clock < MaxTime
    /\ \A r \in Requests : pc[r] = "waiting" => clock < at[r] + Lag
    /\ clock' = clock + 1
    /\ UNCHANGED <<buckets, pc, at, key, counted>>

Next ==
    \/ \E r \in Requests : Arrive(r) \/ Check(r)
    \/ Restart
    \/ Tick

Spec == Init /\ [][Next]_vars

----------------------------------------------------------------------------
(* Properties. *)

Together(k, a) ==
    {b \in counted[k] : at[a] <= at[b] /\ at[b] + Lag < at[a] + Window[k]}

(* A policy holds in every window, not only in those that start with a     *)
(* bucket: nowhere on the time line do more than MaxRequests admitted      *)
(* requests lie closer together than the window, shortened by the longest  *)
(* wait for the mutex. A restart, and a caller of a shorter window above   *)
(* 10,000 buckets, begin the count anew; a caller of the same or a longer  *)
(* window never does.                                                      *)
WindowRespected ==
    \A k \in Keys : \A a \in counted[k] : Cardinality(Together(k, a)) <= MaxRequests[k]

Before(r) ==
    {q \in Requests : /\ pc[q] = "admitted" /\ key[q] = key[r]
                      /\ Within(r, q, Window[key[r]])}

(* Nobody is refused without as many admitted requests of the same policy  *)
(* and client in the window: refused ones, other policies and other        *)
(* clients never count.                                                    *)
RefusedIsFull ==
    \A r \in Requests :
        pc[r] = "refused" => Cardinality(Before(r)) >= MaxRequests[key[r]]
=============================================================================
