------------------------- MODULE RateLimiterProofs -------------------------
(***************************************************************************)
(* RateLimiter, for any policies, clients and waits: its types, the limit  *)
(* in every window, and that nobody is refused below it.                   *)
(***************************************************************************)
EXTENDS RateLimiter, FiniteSetTheorems, TLAPS

(* No request is from the future, and none waits longer than Lag.          *)
Stamped ==
    \A r \in Requests :
        /\ pc[r] # "new" => at[r] <= clock
        /\ pc[r] = "waiting" => clock <= at[r] + Lag

(* Buckets and counts hold admitted requests of their own key.             *)
Owned ==
    \A k \in Keys : \A r \in buckets[k] \cup counted[k] : pc[r] = "admitted" /\ key[r] = k

(* A counted request leaves its bucket only when its window has passed.    *)
Kept ==
    \A k \in Keys : \A r \in counted[k] : r \in buckets[k] \/ at[r] + Window[k] <= clock

IInv == TypeOK /\ Stamped /\ Owned /\ Kept /\ WindowRespected /\ RefusedIsFull

(* Sets of requests are finite and grow in number as they grow.            *)
LEMMA Counting ==
    ASSUME NEW S \in SUBSET Requests, NEW T \in SUBSET S
    PROVE  /\ IsFiniteSet(S) /\ IsFiniteSet(T)
           /\ Cardinality(S) \in Nat /\ Cardinality(T) \in Nat
           /\ Cardinality(T) <= Cardinality(S)
<1>1. IsFiniteSet(S) BY RequestsAssumption, FS_Subset
<1>2. IsFiniteSet(T) /\ Cardinality(T) <= Cardinality(S) BY <1>1, FS_Subset
<1> QED BY <1>1, <1>2, FS_CardinalityType

(* One more request is at most one more in number.                         *)
LEMMA OneMore ==
    ASSUME NEW S \in SUBSET Requests, NEW T \in SUBSET Requests, NEW r \in Requests,
           S \subseteq T \cup {r}, NEW n \in Nat, Cardinality(T) < n
    PROVE  Cardinality(S) <= n
<1>1. IsFiniteSet(T) /\ Cardinality(T) \in Nat BY Counting
<1>2. Cardinality(T \cup {r}) <= Cardinality(T) + 1 /\ Cardinality(T \cup {r}) \in Nat
      BY <1>1, FS_AddElement
<1>3. Cardinality(S) <= Cardinality(T \cup {r}) /\ Cardinality(S) \in Nat
      BY Counting, T \cup {r} \in SUBSET Requests
<1> QED BY <1>1, <1>2, <1>3

LEMMA Initially == Init => IInv
<1> SUFFICES ASSUME Init PROVE IInv OBVIOUS
<1>1. TypeOK BY BoundAssumption DEF Init, TypeOK
<1>2. Stamped /\ Owned /\ Kept /\ RefusedIsFull
      BY DEF Init, Stamped, Owned, Kept, RefusedIsFull
<1>3. WindowRespected BY DEF Init, WindowRespected
<1> QED BY <1>1, <1>2, <1>3 DEF IInv

(* A new request is in no bucket and in no count.                          *)
LEMMA ArriveKeeps ==
    ASSUME IInv, NEW r \in Requests, Arrive(r)
    PROVE  IInv'
<1> USE DEF IInv
<1>1. TypeOK' BY DEF TypeOK, Arrive
<1>2. Stamped' BY BoundAssumption DEF TypeOK, Arrive, Stamped
<1>3. \A q \in Requests : pc[q] # "new" => at'[q] = at[q] /\ key'[q] = key[q] /\ pc'[q] = pc[q]
      BY DEF TypeOK, Arrive
<1>4. \A q \in Requests : pc'[q] \in {"admitted", "refused"} => pc[q] = pc'[q]
      BY DEF TypeOK, Arrive
<1>5. Owned' BY <1>3 DEF TypeOK, Arrive, Owned
<1>6. Kept' BY <1>3 DEF TypeOK, Arrive, Owned, Kept
<1>7. WindowRespected'
  <2> SUFFICES ASSUME NEW k \in Keys, NEW a \in counted[k]
               PROVE  Cardinality(Together(k, a)') <= MaxRequests[k]
      BY DEF WindowRespected, Arrive
  <2>1. Together(k, a)' = Together(k, a) BY <1>3 DEF TypeOK, Arrive, Owned, Together
  <2> QED BY <2>1 DEF WindowRespected
<1>8. RefusedIsFull'
  <2> SUFFICES ASSUME NEW q \in Requests, pc'[q] = "refused"
               PROVE  Cardinality(Before(q)') >= MaxRequests[key'[q]]
      BY DEF RefusedIsFull
  <2>1. pc[q] = "refused" /\ key'[q] = key[q] /\ at'[q] = at[q] BY <1>3, <1>4
  <2>2. Before(q)' = Before(q) BY <1>3, <1>4, <2>1 DEF Before, Within
  <2> QED BY <2>1, <2>2 DEF RefusedIsFull
<1> QED BY <1>1, <1>2, <1>5, <1>6, <1>7, <1>8

(* After a refusal the bucket has lost only what is out of its window.     *)
LEMMA RefuseKeeps ==
    ASSUME IInv, NEW r \in Requests, Check(r), Full(r)
    PROVE  IInv'
<1> USE DEF IInv
<1> DEFINE k0 == key[r]
<1>0. /\ pc[r] = "waiting" /\ pc' = [pc EXCEPT ![r] = "refused"]
      /\ buckets' = [buckets EXCEPT ![k0] = Recent(r)]
      /\ UNCHANGED <<clock, at, key, counted>> /\ k0 \in Keys
      BY DEF Check, Refuse, TypeOK
<1>a. Recent(r) \subseteq buckets[k0] /\ Recent(r) \in SUBSET Requests
      BY <1>0 DEF Recent, TypeOK
<1>1. TypeOK' BY <1>0, <1>a DEF TypeOK
<1>2. Stamped' BY <1>0 DEF TypeOK, Stamped
<1>3. \A q \in Requests : pc[q] = "admitted" => pc'[q] = "admitted" BY <1>0 DEF TypeOK
<1>4. Owned' BY <1>0, <1>3, <1>a DEF TypeOK, Owned
<1>5. Kept'
  <2> SUFFICES ASSUME NEW k \in Keys, NEW q \in counted[k]
               PROVE  q \in buckets'[k] \/ at[q] + Window[k] <= clock
      BY <1>0 DEF Kept
  <2>1. CASE q \notin buckets[k] BY <2>1 DEF Kept
  <2>2. CASE q \in buckets[k] /\ k # k0 BY <2>2, <1>0 DEF TypeOK
  <2>3. CASE q \in buckets[k] /\ k = k0
    <3>1. CASE q \in Recent(r) BY <3>1, <2>3, <1>0 DEF TypeOK
    <3>2. CASE q \notin Recent(r)
      <4>1. at[q] + Window[k] <= at[r]
            BY <3>2, <2>3, PolicyAssumption DEF Recent, Within, TypeOK
      <4>2. at[r] <= clock BY <1>0 DEF Stamped
      <4> QED BY <4>1, <4>2, PolicyAssumption DEF TypeOK
    <3> QED BY <3>1, <3>2
  <2> QED BY <2>1, <2>2, <2>3
<1>6. WindowRespected' BY <1>0 DEF WindowRespected, Together
<1>7. RefusedIsFull'
  <2> SUFFICES ASSUME NEW q \in Requests, pc'[q] = "refused"
               PROVE  Cardinality(Before(q)') >= MaxRequests[key[q]]
      BY <1>0 DEF RefusedIsFull
  <2>1. Before(q)' = Before(q) BY <1>0 DEF Before, Within, TypeOK
  <2>2. CASE q # r BY <2>1, <2>2, <1>0 DEF RefusedIsFull, TypeOK
  <2>3. CASE q = r
    <3>1. Recent(r) \subseteq Before(r)
          BY <1>0 DEF Recent, Before, Owned, TypeOK
    <3>2. Cardinality(Recent(r)) <= Cardinality(Before(r))
          /\ Cardinality(Recent(r)) \in Nat /\ Cardinality(Before(r)) \in Nat
          BY <3>1, Counting, Before(r) \in SUBSET Requests DEF Before
    <3>3. Cardinality(Recent(r)) >= MaxRequests[k0] BY DEF Full
    <3> QED BY <2>1, <2>3, <3>2, <3>3, <1>0, PolicyAssumption
  <2> QED BY <2>2, <2>3
<1> QED BY <1>1, <1>2, <1>4, <1>5, <1>6, <1>7

(* A bucket that loses a counted request has outlived its window, unless   *)
(* the whole key is forgotten.                                             *)
LEMMA AdmitKeeps ==
    ASSUME IInv, NEW r \in Requests, Check(r), ~Full(r)
    PROVE  IInv'
<1> USE DEF IInv
<1> DEFINE k0 == key[r]
<1>0. /\ pc[r] = "waiting" /\ pc' = [pc EXCEPT ![r] = "admitted"]
      /\ buckets' = [k \in Keys |-> IF k \in Pruned(r) THEN {} ELSE With(r)[k]]
      /\ counted' = [k \in Keys |->
                        IF k \in Forgotten(r) THEN {}
                        ELSE IF k = k0 THEN counted[k] \cup {r}
                        ELSE counted[k]]
      /\ UNCHANGED <<clock, at, key>> /\ k0 \in Keys
      BY DEF Check, Admit, TypeOK
<1>a. Recent(r) \subseteq buckets[k0] /\ Recent(r) \in SUBSET Requests
      BY <1>0 DEF Recent, TypeOK
<1>b. With(r) \in [Keys -> SUBSET Requests] BY <1>a, <1>0 DEF With, TypeOK
<1>c. \A k \in Keys : With(r)[k] \subseteq IF k = k0 THEN buckets[k] \cup {r} ELSE buckets[k]
      BY <1>a, <1>0 DEF With, TypeOK
<1>1. TypeOK' BY <1>0, <1>b DEF TypeOK
<1>2. Stamped' BY <1>0 DEF TypeOK, Stamped
<1>3. \A q \in Requests : pc[q] = "admitted" => pc'[q] = "admitted" BY <1>0 DEF TypeOK
<1>d. pc'[r] = "admitted" BY <1>0 DEF TypeOK
<1>4. Owned'
  <2> SUFFICES ASSUME NEW k \in Keys, NEW q \in buckets'[k] \cup counted'[k]
               PROVE  pc'[q] = "admitted" /\ key[q] = k
      BY <1>0 DEF Owned
  <2>1. q \in buckets[k] \cup counted[k] \/ (k = k0 /\ q = r) BY <1>0, <1>c
  <2>2. CASE q \in buckets[k] \cup counted[k] BY <2>2, <1>3 DEF Owned, TypeOK
  <2> QED BY <2>1, <2>2, <1>d
<1>5. Kept'
  <2> SUFFICES ASSUME NEW k \in Keys, NEW q \in counted'[k], q \notin buckets'[k]
               PROVE  at[q] + Window[k] <= clock
      BY <1>0 DEF Kept
  <2>0. /\ at[r] <= clock /\ q \in Requests /\ at[q] \in Nat /\ at[r] \in Nat /\ clock \in Nat
        /\ Window[k] \in Nat /\ Window[k0] \in Nat
        BY <1>0, <1>1, PolicyAssumption DEF Stamped, TypeOK
  <2>1. k \notin Forgotten(r) BY <1>0
  <2>2. q \in counted[k] \/ (k = k0 /\ q = r) BY <1>0
  <2>3. CASE q \in With(r)[k]
    <3>1. k \in Pruned(r) BY <2>3, <1>0
    <3>2. ~Within(r, q, Window[k0]) BY <3>1, <2>3 DEF Pruned, Stale
    <3>3. Window[k] <= Window[k0] BY <3>1, <2>1, <2>0 DEF Forgotten
    <3> QED BY <3>2, <3>3, <2>0 DEF Within
  <2>4. CASE q \notin With(r)[k]
    <3>1. CASE k # k0
      <4>1. q \in counted[k] /\ q \notin buckets[k] BY <3>1, <2>2, <2>4, <1>0 DEF With, TypeOK
      <4> QED BY <4>1 DEF Kept
    <3>2. CASE k = k0
      <4>1. q \in counted[k] /\ q \notin Recent(r) BY <3>2, <2>2, <2>4, <1>0 DEF With, TypeOK
      <4>2. CASE q \notin buckets[k] BY <4>1, <4>2 DEF Kept
      <4>3. CASE q \in buckets[k]
        <5>1. ~Within(r, q, Window[k]) BY <4>1, <4>3, <3>2 DEF Recent
        <5> QED BY <5>1, <2>0 DEF Within
      <4> QED BY <4>2, <4>3
    <3> QED BY <3>1, <3>2
  <2> QED BY <2>3, <2>4
<1>6. WindowRespected'
  <2> SUFFICES ASSUME NEW k \in Keys, NEW a \in counted'[k]
               PROVE  Cardinality(Together(k, a)') <= MaxRequests[k]
      BY DEF WindowRespected
  <2>0. /\ k \notin Forgotten(r) /\ MaxRequests[k] \in Nat /\ Window[k] \in Nat /\ Lag \in Nat
        /\ counted'[k] \in SUBSET Requests
        BY <1>0, <1>1, PolicyAssumption, BoundAssumption DEF TypeOK
  <2>1. CASE r \notin Together(k, a)' /\ a \in counted[k]
    <3>1. counted'[k] = IF k = k0 THEN counted[k] \cup {r} ELSE counted[k] BY <1>0, <2>0
    <3>2. Together(k, a)' \subseteq Together(k, a) BY <3>1, <2>1, <1>0 DEF Together
    <3>3. Together(k, a) \in SUBSET Requests BY DEF Together, TypeOK
    <3>4. /\ Cardinality(Together(k, a)') <= Cardinality(Together(k, a))
          /\ Cardinality(Together(k, a)') \in Nat /\ Cardinality(Together(k, a)) \in Nat
          BY <3>2, <3>3, Counting
    <3>5. Cardinality(Together(k, a)) <= MaxRequests[k] BY <2>1 DEF WindowRespected
    <3> QED BY <3>4, <3>5, <2>0
  <2>2. CASE r \notin Together(k, a)' /\ a \notin counted[k]
    <3>1. a = r BY <2>2, <1>0, <2>0
    <3>2. \A b \in Together(k, a)' : b \in Recent(r)
      <4> SUFFICES ASSUME NEW b \in Together(k, a)' PROVE b \in Recent(r) OBVIOUS
      <4>1. b \in counted[k] /\ k = k0 /\ b # r BY <2>2, <3>1, <1>0, <2>0 DEF Together
      <4>2. at[r] <= at[b] /\ at[b] + Lag < at[r] + Window[k] BY <3>1, <1>0 DEF Together
      <4>3. /\ at[b] \in Nat /\ at[r] \in Nat /\ clock \in Nat /\ at[r] <= clock
            /\ clock <= at[r] + Lag /\ b \in Requests
            BY <4>1, <1>0, <2>0 DEF TypeOK, Stamped
      <4>4. at[r] < at[b] + Window[k] BY <4>2, <4>3, <2>0
      <4>5. ~(at[b] + Window[k] <= clock) BY <4>2, <4>3, <2>0
      <4>6. b \in buckets[k] BY <4>1, <4>5 DEF Kept
      <4> QED BY <4>1, <4>4, <4>6 DEF Recent, Within
    <3>3. k = k0 /\ Together(k, a)' \subseteq Recent(r) \cup {r}
          BY <3>1, <3>2, <2>2, <1>0, <2>0
    <3>4. Cardinality(Recent(r)) < MaxRequests[k]
          BY <3>3, <2>0, <1>a, Counting DEF Full
    <3>5. Together(k, a)' \in SUBSET Requests BY <2>0 DEF Together
    <3> QED BY <3>3, <3>4, <3>5, <1>a, <2>0, OneMore
  <2>3. CASE r \in Together(k, a)'
    <3> DEFINE S == Together(k, a)'
    <3>1. k = k0
      <4>1. r \notin counted[k] BY <1>0 DEF Owned
      <4> QED BY <4>1, <2>3, <1>0, <2>0 DEF Together
    <3>2. \A b \in S : b = r \/ b \in Recent(r)
      <4> SUFFICES ASSUME NEW b \in S, b # r PROVE b \in Recent(r) OBVIOUS
      <4>1. b \in counted[k] BY <1>0, <2>0 DEF Together
      <4>2. at[a] <= at[b] /\ at[r] + Lag < at[a] + Window[k] BY <2>3, <1>0 DEF Together
      <4>3. /\ at[b] \in Nat /\ at[r] \in Nat /\ at[a] \in Nat /\ clock \in Nat
            /\ clock <= at[r] + Lag /\ b \in Requests
            BY <4>1, <1>0, <2>0 DEF TypeOK, Stamped
      <4>4. at[r] < at[b] + Window[k] BY <4>2, <4>3, <2>0
      <4>5. ~(at[b] + Window[k] <= clock) BY <4>2, <4>3, <2>0
      <4>6. b \in buckets[k] BY <4>1, <4>5 DEF Kept
      <4> QED BY <3>1, <4>4, <4>6 DEF Recent, Within
    <3>3. S \subseteq Recent(r) \cup {r} BY <3>2
    <3>4. Cardinality(Recent(r)) < MaxRequests[k]
          BY <3>1, <2>0, <1>a, Counting DEF Full
    <3>5. S \in SUBSET Requests BY <2>0 DEF Together
    <3> QED BY <3>3, <3>4, <3>5, <1>a, <2>0, OneMore
  <2> QED BY <2>1, <2>2, <2>3
<1>7. RefusedIsFull'
  <2> SUFFICES ASSUME NEW q \in Requests, pc'[q] = "refused"
               PROVE  Cardinality(Before(q)') >= MaxRequests[key[q]]
      BY <1>0 DEF RefusedIsFull
  <2>1. pc[q] = "refused" BY <1>0 DEF TypeOK
  <2>2. Before(q) \subseteq Before(q)' BY <1>0, <1>3 DEF Before, Within
  <2>3. Before(q)' \in SUBSET Requests BY DEF Before
  <2>4. /\ Cardinality(Before(q)) <= Cardinality(Before(q)')
        /\ Cardinality(Before(q)) \in Nat /\ Cardinality(Before(q)') \in Nat
        BY <2>2, <2>3, Counting
  <2>5. Cardinality(Before(q)) >= MaxRequests[key[q]] BY <2>1 DEF RefusedIsFull
  <2>6. MaxRequests[key[q]] \in Nat BY PolicyAssumption DEF TypeOK
  <2> QED BY <2>4, <2>5, <2>6
<1> QED BY <1>1, <1>2, <1>4, <1>5, <1>6, <1>7

LEMMA RestartKeeps ==
    ASSUME IInv, Restart
    PROVE  IInv'
<1> USE DEF IInv
<1>1. TypeOK' BY DEF TypeOK, Restart
<1>2. Stamped' BY DEF TypeOK, Restart, Stamped
<1>3. Owned' /\ Kept' BY DEF Restart, Owned, Kept
<1>4. WindowRespected' BY DEF Restart, WindowRespected
<1>5. RefusedIsFull'
  <2> SUFFICES ASSUME NEW q \in Requests, pc'[q] = "refused"
               PROVE  Cardinality(Before(q)') >= MaxRequests[key[q]]
      BY DEF RefusedIsFull, Restart
  <2>1. pc[q] = "refused" BY DEF Restart, TypeOK
  <2>2. Before(q)' = Before(q) BY DEF Before, Within, Restart
  <2> QED BY <2>1, <2>2 DEF RefusedIsFull
<1> QED BY <1>1, <1>2, <1>3, <1>4, <1>5

LEMMA TickKeeps ==
    ASSUME IInv, Tick
    PROVE  IInv'
<1> USE DEF IInv
<1>1. TypeOK' BY DEF TypeOK, Tick
<1>2. Stamped' BY BoundAssumption DEF TypeOK, Tick, Stamped
<1>3. Owned' BY DEF Tick, Owned
<1>4. Kept'
  <2> SUFFICES ASSUME NEW k \in Keys, NEW q \in counted[k], at[q] + Window[k] <= clock
               PROVE  at[q] + Window[k] <= clock + 1
      BY DEF Tick, Kept
  <2>1. at[q] \in Nat /\ Window[k] \in Nat /\ clock \in Nat BY PolicyAssumption DEF TypeOK
  <2> QED BY <2>1
<1>5. WindowRespected' BY DEF Tick, WindowRespected, Together
<1>6. RefusedIsFull' BY DEF Tick, RefusedIsFull, Before, Within
<1> QED BY <1>1, <1>2, <1>3, <1>4, <1>5, <1>6

LEMMA Preserved == IInv /\ [Next]_vars => IInv'
<1> SUFFICES ASSUME IInv, [Next]_vars PROVE IInv' OBVIOUS
<1>1. CASE \E r \in Requests : Arrive(r) BY <1>1, ArriveKeeps
<1>2. CASE \E r \in Requests : Check(r)
  <2>1. PICK r \in Requests : Check(r) BY <1>2
  <2>2. CASE Full(r) BY <2>1, <2>2, RefuseKeeps
  <2>3. CASE ~Full(r) BY <2>1, <2>3, AdmitKeeps
  <2> QED BY <2>2, <2>3
<1>3. CASE Restart BY <1>3, RestartKeeps
<1>4. CASE Tick BY <1>4, TickKeeps
<1>5. CASE UNCHANGED vars
      BY <1>5 DEF vars, IInv, TypeOK, Stamped, Owned, Kept, WindowRespected, Together,
                  RefusedIsFull, Before, Within
<1> QED BY <1>1, <1>2, <1>3, <1>4, <1>5 DEF Next

(* The inductive invariant: buckets and counts hold admitted requests of   *)
(* their key, and a counted request leaves its bucket only after its       *)
(* window.                                                                 *)
THEOREM LimiterInvariant == Spec => []IInv
BY Initially, Preserved, PTL DEF Spec

(* Types, for any policies and clients.                                    *)
THEOREM TypeCorrect == Spec => []TypeOK
BY LimiterInvariant, PTL DEF IInv

(* In no window, shortened by the longest wait, are more requests admitted *)
(* than the policy allows (check_with_limit).                              *)
THEOREM LimitHolds == Spec => []WindowRespected
BY LimiterInvariant, PTL DEF IInv

(* Nobody is refused below the limit (check_with_limit).                   *)
THEOREM RefusalsAreFair == Spec => []RefusedIsFull
BY LimiterInvariant, PTL DEF IInv

----------------------------------------------------------------------------
(* A bucket never outgrows its policy, so the limiter's memory is bounded  *)
(* by its keys: a refused request leaves no trace in it and an admitted    *)
(* one first drops what is out of the window (check_with_limit).           *)
BucketsBounded == \A k \in Keys : Cardinality(buckets[k]) <= MaxRequests[k]

LEMMA BucketsInitially == Init => BucketsBounded
<1> SUFFICES ASSUME Init, NEW k \in Keys PROVE Cardinality(buckets[k]) <= MaxRequests[k]
    BY DEF BucketsBounded
<1>1. buckets[k] = {} BY DEF Init
<1> QED BY <1>1, FS_EmptySet, PolicyAssumption

LEMMA BucketsStay == IInv /\ BucketsBounded /\ [Next]_vars => BucketsBounded'
<1> SUFFICES ASSUME IInv, BucketsBounded, [Next]_vars, NEW k \in Keys
             PROVE  Cardinality(buckets'[k]) <= MaxRequests[k]
    BY DEF BucketsBounded
<1> USE DEF IInv
<1>0. Cardinality(buckets[k]) <= MaxRequests[k] /\ MaxRequests[k] \in Nat /\ MaxRequests[k] # 0
      BY PolicyAssumption DEF BucketsBounded
<1>1. CASE buckets'[k] = buckets[k] BY <1>0, <1>1
<1>2. CASE buckets'[k] = {} BY <1>0, <1>2, FS_EmptySet
<1>3. ASSUME NEW r \in Requests, Check(r), k = key[r], Full(r)
      PROVE  Cardinality(buckets'[k]) <= MaxRequests[k]
  <2>1. buckets'[k] = Recent(r) BY <1>3 DEF Check, Refuse, TypeOK
  <2>2. Recent(r) \subseteq buckets[k] /\ buckets[k] \in SUBSET Requests
        BY <1>3 DEF Recent, TypeOK
  <2>3. /\ Cardinality(Recent(r)) <= Cardinality(buckets[k])
        /\ Cardinality(Recent(r)) \in Nat /\ Cardinality(buckets[k]) \in Nat
        BY <2>2, Counting
  <2> QED BY <2>1, <2>3, <1>0
<1>4. ASSUME NEW r \in Requests, Check(r), k = key[r], ~Full(r), buckets'[k] # {}
      PROVE  Cardinality(buckets'[k]) <= MaxRequests[k]
  <2>1. Recent(r) \in SUBSET Requests BY DEF Recent, TypeOK
  <2>2. buckets'[k] = Recent(r) \cup {r} BY <1>4 DEF Check, Admit, With, TypeOK
  <2>3. Cardinality(Recent(r)) < MaxRequests[k] BY <1>4, <1>0, <2>1, Counting DEF Full
  <2>4. buckets'[k] \in SUBSET Requests BY <2>1, <2>2
  <2> QED BY <2>1, <2>2, <2>3, <2>4, <1>0, OneMore
<1>5. ASSUME NEW r \in Requests, Check(r), k # key[r]
      PROVE  buckets'[k] = buckets[k] \/ buckets'[k] = {}
      BY <1>5 DEF Check, Refuse, Admit, With, TypeOK
<1>6. CASE \E r \in Requests : Check(r)
  <2>1. PICK r \in Requests : Check(r) BY <1>6
  <2> QED BY <2>1, <1>1, <1>2, <1>3, <1>4, <1>5
<1>7. CASE Restart BY <1>7, <1>2 DEF Restart
<1>8. CASE Tick \/ UNCHANGED vars \/ \E r \in Requests : Arrive(r)
      BY <1>8, <1>1 DEF Tick, vars, Arrive
<1> QED BY <1>6, <1>7, <1>8 DEF Next

(* A bucket holds at most what its policy admits (check_with_limit).       *)
THEOREM MemoryIsBounded == Spec => []BucketsBounded
<1>1. Spec => []IInv BY LimiterInvariant
<1>2. Init => BucketsBounded BY BucketsInitially
<1>3. IInv /\ BucketsBounded /\ [Next]_vars => BucketsBounded' BY BucketsStay
<1> QED BY <1>1, <1>2, <1>3, PTL DEF Spec
=============================================================================
