---------------------------- MODULE QuotaProofs ----------------------------
(***************************************************************************)
(* Proofs, for any requests, limits and number of days, that the quota     *)
(* transactions lose no charge, count none twice, exceed no limit and      *)
(* implement the atomic counter of DailyBudget.                            *)
(***************************************************************************)
EXTENDS Quota, FiniteSetTheorems, TLAPS

----------------------------------------------------------------------------
(* The inductive invariant. *)

(* The transaction of a request holds the row of its day. *)
TxHoldsLock == \A r \in Requests : pc[r] \in InTx => rowLock[day[r]] = r

(* The row lock is never leaked: whoever holds it is inside the            *)
(* transaction for that day, so a crashed request cannot block the user.   *)
LockHeldInTx ==
    \A d \in Days : rowLock[d] # NoRequest =>
        pc[rowLock[d]] \in InTx /\ day[rowLock[d]] = d

(* Under the lock the count that was returned is the committed one, and    *)
(* after the increment it is one more and still within the limit read.     *)
CountFresh ==
    \A r \in Requests :
        /\ pc[r] = "locked"  => count[r] = usage[day[r]]
        /\ pc[r] = "counted" => count[r] = usage[day[r]] + 1 /\ count[r] <= limit[r]

(* Where a request is charged and where it cannot be. *)
ChargedByPC ==
    \A r \in Requests :
        /\ pc[r] \in {"new", "defaults", "limit"} \cup InTx => ~charged[r]
        /\ pc[r] \in {"charged", "calling", "served"} => charged[r]

IInv ==
    /\ TypeOK
    /\ LockHeldInTx
    /\ TxHoldsLock
    /\ CountFresh
    /\ ChargedByPC
    /\ EveryChargeCounted
    /\ UsageWithinGrant

----------------------------------------------------------------------------
(* Type correctness of the quota state, which the other proofs start from. *)
THEOREM TypeCorrect == Spec => []TypeOK
<1> USE LimitsAssumption, NoLimitAssumption, RequestsAssumption, DayAssumption
        DEF TypeOK, Days, AllLimits, PCs, InTx, Finished, RowFree, ReleaseRow, AtLimit
<1>1. Init => TypeOK
  BY DEF Init
<1>2. TypeOK /\ [Next]_vars => TypeOK'
  <2> SUFFICES ASSUME TypeOK, [Next]_vars PROVE TypeOK'
    OBVIOUS
  <2>1. ASSUME NEW r \in Requests, Step(r) PROVE TypeOK'
    <3>1. CASE ReadDefaults(r)
      BY <3>1 DEF ReadDefaults, Goto, limitVars
    <3>2. CASE ReadLimit(r)
      BY <3>2 DEF ReadLimit, Goto, Effective, limitVars
    <3>3. CASE UpsertRow(r)
      BY <3>3 DEF UpsertRow, Goto, limitVars
    <3>4. CASE Deny(r)
      BY <3>4 DEF Deny, Goto, limitVars
    <3>5. CASE Increment(r)
      BY <3>5 DEF Increment, Goto, limitVars
    <3>6. CASE Commit(r)
      BY <3>6 DEF Commit, Goto, limitVars
    <3>7. CASE Gate(r)
      BY <3>7 DEF Gate, Goto, limitVars
    <3>8. CASE GeminiReply(r)
      BY <3>8 DEF GeminiReply, Goto, limitVars
    <3>9. QED
      BY <2>1, <3>1, <3>2, <3>3, <3>4, <3>5, <3>6, <3>7, <3>8 DEF Step
  <2>2. ASSUME NEW r \in Requests, Abort(r) PROVE TypeOK'
    BY <2>2 DEF Abort, limitVars
  <2>3. CASE SetOverride
    BY <2>3 DEF SetOverride, requestVars
  <2>4. CASE SetDefault
    BY <2>4 DEF SetDefault, requestVars
  <2>5. CASE Midnight
    BY <2>5 DEF Midnight, requestVars
  <2>6. CASE UNCHANGED vars
    BY <2>6 DEF vars
  <2>7. QED
    BY <2>1, <2>2, <2>3, <2>4, <2>5, <2>6 DEF Next
<1>3. QED
  BY <1>1, <1>2, PTL DEF Spec

----------------------------------------------------------------------------
(* The row lock: one transaction per day's row, and under it the count is  *)
(* the committed one.                                                      *)
LEMMA CountsAreNumbers ==
    ASSUME TypeOK, NEW r \in Requests
    PROVE  day[r] \in Days /\ usage[day[r]] \in Nat /\ limit[r] \in Nat
BY LimitsAssumption DEF TypeOK, AllLimits

LEMMA LockStep ==
    ASSUME TypeOK, TypeOK', LockHeldInTx, TxHoldsLock, CountFresh, ChargedByPC, [Next]_vars
    PROVE  (LockHeldInTx /\ TxHoldsLock /\ CountFresh /\ ChargedByPC)'
<1> USE LimitsAssumption, NoLimitAssumption, RequestsAssumption, DayAssumption
        DEF TypeOK, Days, AllLimits, PCs, InTx, Finished, RowFree, ReleaseRow, AtLimit,
            LockHeldInTx, TxHoldsLock, CountFresh, ChargedByPC
<1>1. ASSUME NEW r \in Requests, Step(r)
      PROVE  (LockHeldInTx /\ TxHoldsLock /\ CountFresh /\ ChargedByPC)'
  <2>1. CASE ReadDefaults(r)
    BY <2>1 DEF ReadDefaults, Goto, limitVars
  <2>2. CASE ReadLimit(r)
    BY <2>2 DEF ReadLimit, Goto, limitVars
  <2>3. CASE UpsertRow(r)
    BY <2>3 DEF UpsertRow, Goto, limitVars
  <2>4. CASE Deny(r)
    BY <2>4 DEF Deny, Goto, limitVars
  <2>5. CASE Increment(r)
    <3>1. pc[r] = "locked" /\ ~(count[r] >= limit[r])
      BY <2>5 DEF Increment, Goto
    <3>2. count[r] = usage[day[r]]
      BY <3>1
    <3>3. usage[day[r]] \in Nat /\ limit[r] \in Nat
      BY CountsAreNumbers
    <3>4. usage[day[r]] + 1 <= limit[r]
      BY <3>1, <3>2, <3>3
    <3>5. QED
      BY <2>5, <3>1, <3>3, <3>4 DEF Increment, Goto, limitVars
  <2>6. CASE Commit(r)
    BY <2>6 DEF Commit, Goto, limitVars
  <2>7. CASE Gate(r)
    BY <2>7 DEF Gate, Goto, limitVars
  <2>8. CASE GeminiReply(r)
    BY <2>8 DEF GeminiReply, Goto, limitVars
  <2>9. QED
    BY <1>1, <2>1, <2>2, <2>3, <2>4, <2>5, <2>6, <2>7, <2>8 DEF Step
<1>2. ASSUME NEW r \in Requests, Abort(r)
      PROVE  (LockHeldInTx /\ TxHoldsLock /\ CountFresh /\ ChargedByPC)'
  BY <1>2 DEF Abort, limitVars
<1>3. CASE SetOverride
  BY <1>3 DEF SetOverride, requestVars
<1>4. CASE SetDefault
  BY <1>4 DEF SetDefault, requestVars
<1>5. CASE Midnight
  BY <1>5 DEF Midnight, requestVars
<1>6. CASE UNCHANGED vars
  BY <1>6 DEF vars
<1>7. QED
  BY <1>1, <1>2, <1>3, <1>4, <1>5, <1>6 DEF Next

----------------------------------------------------------------------------
(* The charges. *)

(* Only a commit charges, and only the request that commits. *)
LEMMA OnlyCommitCharges ==
    ASSUME TypeOK, ChargedByPC, [Next]_vars, ~ \E r \in Requests : Commit(r)
    PROVE  usage' = usage /\ \A d \in Days : ChargedOn(d)' = ChargedOn(d)
<1>1. ASSUME NEW r \in Requests, ReadLimit(r)
      PROVE  usage' = usage /\ \A d \in Days : ChargedOn(d)' = ChargedOn(d)
  BY <1>1 DEF ReadLimit, Goto, limitVars, ChargedOn, ChargedByPC, TypeOK
<1>2. ASSUME NEW r \in Requests, Step(r), ~ReadLimit(r)
      PROVE  usage' = usage /\ charged' = charged /\ day' = day
  BY <1>2 DEF Step, ReadDefaults, UpsertRow, Deny, Increment, Gate, GeminiReply
<1>3. ASSUME NEW r \in Requests, Abort(r)
      PROVE  usage' = usage /\ charged' = charged /\ day' = day
  BY <1>3 DEF Abort
<1>4. ASSUME SetOverride \/ SetDefault \/ Midnight \/ UNCHANGED vars
      PROVE  usage' = usage /\ charged' = charged /\ day' = day
  BY <1>4 DEF SetOverride, SetDefault, Midnight, requestVars, vars
<1>5. ASSUME usage' = usage, charged' = charged, day' = day
      PROVE  usage' = usage /\ \A d \in Days : ChargedOn(d)' = ChargedOn(d)
  BY <1>5 DEF ChargedOn
<1>6. QED
  BY <1>1, <1>2, <1>3, <1>4, <1>5 DEF Next

(* A commit adds its request to the charges of its day, and nothing else.  *)
LEMMA CommitCharges ==
    ASSUME TypeOK, LockHeldInTx, CountFresh, ChargedByPC,
           NEW r \in Requests, Commit(r)
    PROVE  /\ usage' = [usage EXCEPT ![day[r]] = @ + 1]
           /\ usage[day[r]] < limit[r]
           /\ r \notin ChargedOn(day[r])
           /\ \A d \in Days : ChargedOn(d)' =
                 IF d = day[r] THEN ChargedOn(d) \cup {r} ELSE ChargedOn(d)
<1>1. pc[r] = "counted" /\ count[r] = usage[day[r]] + 1 /\ count[r] <= limit[r] /\ ~charged[r]
  BY DEF Commit, Goto, CountFresh, ChargedByPC, InTx
<1>2. usage[day[r]] \in Nat /\ limit[r] \in Nat
  BY CountsAreNumbers
<1>3. charged' = [charged EXCEPT ![r] = TRUE] /\ day' = day
  BY DEF Commit
<1>4. ASSUME NEW d \in Days
      PROVE ChargedOn(d)' = IF d = day[r] THEN ChargedOn(d) \cup {r} ELSE ChargedOn(d)
  BY <1>1, <1>3 DEF ChargedOn, TypeOK
<1>5. QED
  BY <1>1, <1>2, <1>4 DEF Commit, ChargedOn, TypeOK

LEMMA ChargedFinite == \A d \in Days : IsFiniteSet(ChargedOn(d))
  BY RequestsAssumption, FS_Subset DEF ChargedOn

LEMMA ChargeStep ==
    ASSUME TypeOK, LockHeldInTx, CountFresh, ChargedByPC,
           EveryChargeCounted, UsageWithinGrant, [Next]_vars
    PROVE  (EveryChargeCounted /\ UsageWithinGrant)'
<1>1. CASE ~ \E r \in Requests : Commit(r)
  <2>1. usage' = usage /\ \A d \in Days : ChargedOn(d)' = ChargedOn(d)
    BY <1>1, OnlyCommitCharges
  <2>2. EveryChargeCounted'
    BY <2>1 DEF EveryChargeCounted
  <2>3. ASSUME NEW r \in Requests, charged[r]
        PROVE  limit'[r] = limit[r]
    BY <2>3 DEF Next, Step, ReadDefaults, ReadLimit, UpsertRow, Deny, Increment, Commit, Gate,
                GeminiReply, Abort, SetOverride, SetDefault, Midnight, requestVars, vars, Goto,
                ChargedByPC, TypeOK
  <2>4. UsageWithinGrant'
    BY <2>1, <2>3 DEF UsageWithinGrant, ChargedOn
  <2>5. QED
    BY <2>2, <2>4
<1>2. ASSUME NEW r \in Requests, Commit(r)
      PROVE  (EveryChargeCounted /\ UsageWithinGrant)'
  <2>1. /\ usage' = [usage EXCEPT ![day[r]] = @ + 1]
        /\ usage[day[r]] < limit[r]
        /\ r \notin ChargedOn(day[r])
        /\ \A d \in Days : ChargedOn(d)' =
              IF d = day[r] THEN ChargedOn(d) \cup {r} ELSE ChargedOn(d)
    BY <1>2, CommitCharges
  <2>2. limit' = limit /\ usage \in [Days -> Nat] /\ day[r] \in Days /\ limit[r] \in Nat
    BY <1>2, LimitsAssumption DEF Commit, TypeOK, AllLimits
  <2>3. ASSUME NEW d \in Days
        PROVE  usage'[d] = Cardinality(ChargedOn(d)')
    <3>1. CASE d = day[r]
      <4>1. Cardinality(ChargedOn(d) \cup {r}) = Cardinality(ChargedOn(d)) + 1
        BY <2>1, <3>1, ChargedFinite, FS_AddElement
      <4>2. QED
        BY <2>1, <2>2, <3>1, <4>1 DEF EveryChargeCounted
    <3>2. CASE d # day[r]
      BY <2>1, <2>2, <3>2 DEF EveryChargeCounted
    <3>3. QED
      BY <3>1, <3>2
  <2>4. ASSUME NEW d \in Days, usage'[d] > 0
        PROVE  \E s \in ChargedOn(d)' : usage'[d] <= limit'[s]
    <3>1. CASE d = day[r]
      BY <2>1, <2>2, <3>1
    <3>2. CASE d # day[r]
      BY <2>1, <2>2, <2>4, <3>2 DEF UsageWithinGrant
    <3>3. QED
      BY <3>1, <3>2
  <2>5. QED
    BY <2>3, <2>4 DEF EveryChargeCounted, UsageWithinGrant
<1>3. QED
  BY <1>1, <1>2

----------------------------------------------------------------------------
(* The inductive invariant, and the invariants it gives. *)
THEOREM QuotaInvariant == Spec => []IInv
<1>1. Init => IInv
  <2> SUFFICES ASSUME Init PROVE IInv
    OBVIOUS
  <2>1. TypeOK
    BY LimitsAssumption, NoLimitAssumption, RequestsAssumption, DayAssumption
       DEF Init, TypeOK, Days, AllLimits, PCs
  <2>2. LockHeldInTx /\ TxHoldsLock /\ CountFresh /\ ChargedByPC
    BY DEF Init, LockHeldInTx, TxHoldsLock, CountFresh, ChargedByPC, InTx
  <2>3. \A d \in Days : ChargedOn(d) = {}
    BY DEF Init, ChargedOn
  <2>4. EveryChargeCounted /\ UsageWithinGrant
    BY <2>3, FS_EmptySet DEF Init, EveryChargeCounted, UsageWithinGrant
  <2>5. QED
    BY <2>1, <2>2, <2>4 DEF IInv
<1>2. IInv /\ TypeOK' /\ [Next]_vars => IInv'
  BY LockStep, ChargeStep DEF IInv
<1>3. QED
  BY <1>1, <1>2, TypeCorrect, PTL DEF Spec

(* A crashed or failed request never leaves the user's row locked. *)
THEOREM LockNeverLeaked == Spec => []LockHeldInTx
BY QuotaInvariant, PTL DEF IInv

(* The row of a day counts exactly the requests charged on it. *)
THEOREM NoChargeLost == Spec => []EveryChargeCounted
BY QuotaInvariant, PTL DEF IInv

(* No day's count passes the limits its requests had read. *)
THEOREM GrantRespected == Spec => []UsageWithinGrant
BY QuotaInvariant, PTL DEF IInv

(* The model is only called by a request that was charged. *)
THEOREM CallIsCharged == Spec => []NoFreeCall
<1>1. IInv => NoFreeCall
  BY DEF IInv, ChargedByPC, NoFreeCall
<1>2. QED
  BY <1>1, QuotaInvariant, PTL

----------------------------------------------------------------------------
(* The transactions, with their locks, aborts and stale reads, implement   *)
(* the atomic daily counter: a commit is a Spend, the rest are stutters.   *)
THEOREM Implementation == Spec => ImplementsBudget
<1>1. Init => Budget!Init
  BY DEF Init, Budget!Init
<1>2. IInv /\ [Next]_vars => [Budget!Next]_usage
  <2> SUFFICES ASSUME IInv, [Next]_vars PROVE [Budget!Next]_usage
    OBVIOUS
  <2>1. CASE ~ \E r \in Requests : Commit(r)
    BY <2>1, OnlyCommitCharges DEF IInv
  <2>2. ASSUME NEW r \in Requests, Commit(r) PROVE Budget!Next
    <3>1. /\ usage' = [usage EXCEPT ![day[r]] = @ + 1]
          /\ usage[day[r]] < limit[r]
      BY <2>2, CommitCharges DEF IInv
    <3>2. day[r] \in Days /\ limit[r] \in AllLimits
      BY DEF IInv, TypeOK
    <3>3. Budget!Spend(day[r])
      BY <3>1, <3>2 DEF Budget!Spend
    <3>4. QED
      BY <3>2, <3>3 DEF Budget!Next
  <2>3. QED
    BY <2>1, <2>2
<1>3. QED
  BY <1>1, <1>2, QuotaInvariant, PTL DEF Spec, ImplementsBudget, Budget!Spec

----------------------------------------------------------------------------
(* How far the row and the answers can be apart: the run QuotaLastUnit     *)
(* shows a unit that is charged and refused, and the theorems below say    *)
(* how many of a day's units can be lost that way.                         *)

Calling == {"calling", "served"}

CalledOn(d) == {r \in Requests : day[r] = d /\ pc[r] \in Calling}

(* The charges of a day are numbered: each charged request owns the count  *)
(* that its transaction returned, and no other request of that day has it. *)
ChargesNumbered ==
    /\ \A r \in Requests : charged[r] => count[r] \in 1..usage[day[r]]
    /\ \A r, s \in Requests :
          charged[r] /\ charged[s] /\ day[r] = day[s] /\ count[r] = count[s] => r = s

(* A request passes the gate strictly below the limit it read, and is      *)
(* charged at most at that limit.                                          *)
GateBelowLimit ==
    \A r \in Requests : /\ charged[r] => count[r] <= limit[r]
                        /\ pc[r] \in Calling => count[r] < limit[r]

(* A request is refused on a count that the row really had reached.        *)
RefusedOnCount ==
    \A r \in Requests : pc[r] = "refused" =>
        count[r] >= limit[r] /\ count[r] <= usage[day[r]]

Numbered == ChargesNumbered /\ GateBelowLimit /\ RefusedOnCount

(* The requests that got through to the model on a day are fewer than the  *)
(* limit one of them had read: under one limit n, at most n - 1 of the n   *)
(* units buy a call.                                                       *)
CallsBelowLimit ==
    \A d \in Days : CalledOn(d) # {} =>
        \E r \in CalledOn(d) : Cardinality(CalledOn(d)) < limit[r]

(* Nobody is refused while the day still has room under the limit the      *)
(* request had read: the row had reached it.                               *)
RefusedAtLimit ==
    \A r \in Requests : pc[r] = "refused" => usage[day[r]] >= limit[r]

(* At most one unit is lost to a refusal for each day and limit: two       *)
(* requests that read the same limit are never both charged and refused.   *)
OneUnitLost ==
    \A r, s \in Requests :
        /\ charged[r] /\ pc[r] = "refused"
        /\ charged[s] /\ pc[s] = "refused"
        /\ day[r] = day[s] /\ limit[r] = limit[s]
        => r = s

(* No configuration error of the administrator compounds: a day's count    *)
(* stays within every bound of the limits that can be in force.            *)
WithinEveryBound ==
    \A n \in Nat : (\A g \in AllLimits : g <= n) => \A d \in Days : usage[d] <= n

(* The count of a day never falls and never jumps, so a reader of the row  *)
(* (get_quota) sees the units used as they are spent, one by one.          *)
OneUnitAtATime == \A d \in Days : usage'[d] \in {usage[d], usage[d] + 1}

(* A request only moves forward, whatever the others do, so it takes at    *)
(* most seven steps from its arrival to its answer.                        *)
Rank == [new |-> 7, defaults |-> 6, limit |-> 5, locked |-> 4, counted |-> 3,
         charged |-> 2, calling |-> 1, refused |-> 0, served |-> 0, failed |-> 0]

OnlyForward == \A r \in Requests : pc'[r] # pc[r] => Rank[pc'[r]] < Rank[pc[r]]

(* A step of the requests other than a commit or a read keeps the charges, *)
(* their days and their limits.                                            *)
LEMMA ChargedKeep ==
    ASSUME TypeOK, ChargedByPC, [Next]_vars, NEW r \in Requests, charged[r]
    PROVE  /\ charged'[r] /\ day'[r] = day[r] /\ limit'[r] = limit[r]
           /\ count'[r] = count[r]
BY DEF TypeOK, ChargedByPC, InTx, Next, Step, ReadDefaults, ReadLimit, UpsertRow, Deny,
       Increment, Commit, Gate, GeminiReply, Abort, SetOverride, SetDefault, Midnight,
       requestVars, limitVars, vars, Goto

(* The row of a day never loses a unit. *)
LEMMA UsageGrows ==
    ASSUME IInv, [Next]_vars, NEW d \in Days
    PROVE  usage'[d] \in {usage[d], usage[d] + 1}
<1>1. CASE ~ \E r \in Requests : Commit(r)
  BY <1>1, OnlyCommitCharges DEF IInv
<1>2. ASSUME NEW r \in Requests, Commit(r)
      PROVE  usage'[d] \in {usage[d], usage[d] + 1}
  BY <1>2, CommitCharges DEF IInv, TypeOK
<1>3. QED
  BY <1>1, <1>2

LEMMA NumberedStep ==
    ASSUME IInv, IInv', Numbered, [Next]_vars
    PROVE  Numbered'
<1>1. /\ \A r \in Requests : day[r] \in Days /\ usage[day[r]] \in Nat
                             /\ limit[r] \in Nat /\ count[r] \in Nat
      /\ \A r \in Requests : (day[r])' \in Days /\ (usage[day[r]])' \in Nat
                             /\ (limit[r])' \in Nat /\ (count[r])' \in Nat
  BY LimitsAssumption DEF IInv, TypeOK, AllLimits
<1>2. \A d \in Days : usage'[d] >= usage[d]
  BY UsageGrows DEF IInv, TypeOK
<1>3. ASSUME NEW r \in Requests, charged'[r]
      PROVE  \/ charged[r] /\ day'[r] = day[r] /\ limit'[r] = limit[r] /\ count'[r] = count[r]
             \/ Commit(r)
  <2>1. CASE charged[r]
    BY <2>1, ChargedKeep DEF IInv
  <2>2. CASE ~charged[r]
    BY <1>3, <2>2 DEF IInv, TypeOK, Next, Step, ReadDefaults, ReadLimit, UpsertRow, Deny,
       Increment, Commit, Gate, GeminiReply, Abort, SetOverride, SetDefault, Midnight,
       requestVars, limitVars, vars
  <2>3. QED
    BY <2>1, <2>2
<1>4. ASSUME NEW r \in Requests, Commit(r)
      PROVE  /\ (count[r])' = (usage[day[r]])' /\ (count[r])' = usage[day[r]] + 1
             /\ (count[r])' <= (limit[r])' /\ day' = day
  BY <1>1, <1>4 DEF IInv, TypeOK, CountFresh, Commit, Goto
<1>5. ChargesNumbered'
  <2>1. ASSUME NEW r \in Requests, charged'[r]
        PROVE  (count[r])' \in 1..(usage[day[r]])'
    <3>1. CASE charged[r] /\ day'[r] = day[r] /\ count'[r] = count[r]
      BY <1>1, <1>2, <3>1 DEF Numbered, ChargesNumbered
    <3>2. CASE Commit(r)
      BY <1>1, <1>4, <3>2
    <3>3. QED
      BY <1>3, <2>1, <3>1, <3>2
  <2>2. ASSUME NEW r \in Requests, NEW s \in Requests, charged[r], Commit(s),
               (day[r])' = (day[s])', day'[r] = day[r], count'[r] = count[r]
        PROVE  (count[r])' # (count[s])'
    <3>1. day[r] = day[s] /\ (count[s])' = usage[day[s]] + 1
      BY <1>4, <2>2
    <3>2. count[r] <= usage[day[s]]
      BY <1>1, <2>2, <3>1 DEF Numbered, ChargesNumbered
    <3>3. QED
      BY <1>1, <2>2, <3>1, <3>2
  <2>3. ASSUME NEW r \in Requests, NEW s \in Requests, Commit(r), Commit(s)
        PROVE  r = s
    BY <2>3 DEF IInv, CountFresh, TxHoldsLock, TypeOK, InTx, Commit, Goto
  <2>4. ASSUME NEW r \in Requests, NEW s \in Requests, charged'[r], charged'[s],
               (day[r])' = (day[s])', (count[r])' = (count[s])'
        PROVE  r = s
    <3>1. CASE Commit(r)
      BY <1>3, <2>2, <2>3, <2>4, <3>1
    <3>2. CASE Commit(s)
      BY <1>3, <2>2, <2>3, <2>4, <3>2
    <3>3. CASE ~Commit(r) /\ ~Commit(s)
      <4>1. /\ charged[r] /\ day'[r] = day[r] /\ count'[r] = count[r]
            /\ charged[s] /\ day'[s] = day[s] /\ count'[s] = count[s]
        BY <1>3, <2>4, <3>3
      <4>2. QED
        BY <2>4, <4>1 DEF Numbered, ChargesNumbered
    <3>4. QED
      BY <3>1, <3>2, <3>3
  <2>5. QED
    BY <2>1, <2>4 DEF ChargesNumbered
<1>6. GateBelowLimit'
  <2>1. ASSUME NEW r \in Requests, charged'[r]
        PROVE  (count[r])' <= (limit[r])'
    BY <1>3, <1>4, <2>1 DEF Numbered, GateBelowLimit
  <2>2. ASSUME NEW r \in Requests, pc'[r] \in Calling
        PROVE  (count[r])' < (limit[r])'
    <3>1. CASE Gate(r)
      <4>1. pc'[r] = (IF Refuses(r) THEN "refused" ELSE "calling")
            /\ count' = count /\ limit' = limit
        BY <3>1 DEF Gate, Goto, limitVars, IInv, TypeOK
      <4>2. ~Refuses(r)
        BY <2>2, <4>1 DEF Calling
      <4>3. count[r] < limit[r]
        BY <1>1, <4>2 DEF Refuses, Allowed, Remaining
      <4>4. QED
        BY <4>1, <4>3
    <3>2. CASE ~Gate(r)
      <4>1. pc[r] \in Calling
        BY <2>2, <3>2 DEF IInv, TypeOK, Calling, Next, Step, ReadDefaults, ReadLimit, UpsertRow,
           Deny, Increment, Commit, Gate, GeminiReply, Abort, SetOverride, SetDefault, Midnight,
           requestVars, limitVars, vars, Goto
      <4>2. charged[r]
        BY <4>1 DEF IInv, ChargedByPC, Calling
      <4>3. QED
        BY <4>1, <4>2, ChargedKeep DEF IInv, Numbered, GateBelowLimit
    <3>3. QED
      BY <3>1, <3>2
  <2>3. QED
    BY <2>1, <2>2 DEF GateBelowLimit
<1>7. RefusedOnCount'
  <2>1. ASSUME NEW r \in Requests, pc'[r] = "refused"
        PROVE  (count[r])' >= (limit[r])' /\ (count[r])' <= (usage[day[r]])'
    <3>1. CASE pc[r] = "refused"
      <4>1. day'[r] = day[r] /\ limit'[r] = limit[r] /\ count'[r] = count[r]
        BY <3>1 DEF IInv, TypeOK, InTx, Next, Step, ReadDefaults, ReadLimit, UpsertRow, Deny,
           Increment, Commit, Gate, GeminiReply, Abort, SetOverride, SetDefault, Midnight,
           requestVars, limitVars, vars, Goto
      <4>2. QED
        BY <1>1, <1>2, <3>1, <4>1 DEF Numbered, RefusedOnCount
    <3>2. CASE Deny(r)
      BY <1>1, <3>2 DEF Deny, Goto, limitVars, AtLimit, IInv, CountFresh
    <3>3. CASE Gate(r)
      <4>1. pc'[r] = (IF Refuses(r) THEN "refused" ELSE "calling") /\ charged[r]
            /\ count' = count /\ limit' = limit /\ day' = day /\ usage' = usage
        BY <3>3 DEF Gate, Goto, IInv, TypeOK, ChargedByPC
      <4>2. Refuses(r)
        BY <2>1, <4>1
      <4>3. count[r] >= limit[r]
        BY <1>1, <4>2 DEF Refuses, Allowed
      <4>4. QED
        BY <1>1, <4>1, <4>3 DEF Numbered, ChargesNumbered
    <3>4. CASE pc[r] # "refused" /\ ~Deny(r) /\ ~Gate(r)
      BY <2>1, <3>4 DEF IInv, TypeOK, Next, Step, ReadDefaults, ReadLimit, UpsertRow,
         Deny, Increment, Commit, Gate, GeminiReply, Abort, SetOverride, SetDefault, Midnight,
         requestVars, limitVars, vars, Goto
    <3>5. QED
      BY <3>1, <3>2, <3>3, <3>4
  <2>2. QED
    BY <2>1 DEF RefusedOnCount
<1>8. QED
  BY <1>5, <1>6, <1>7 DEF Numbered

(* The charges of a day are numbered, the gate lets nobody through at the  *)
(* limit, and every refusal has a count behind it.                         *)
THEOREM ChargesAreNumbered == Spec => []Numbered
<1>1. Init => Numbered
  BY DEF Init, Numbered, ChargesNumbered, GateBelowLimit, RefusedOnCount, Calling
<1>2. IInv /\ IInv' /\ Numbered /\ [Next]_vars => Numbered'
  BY NumberedStep
<1>3. QED
  BY <1>1, <1>2, QuotaInvariant, PTL DEF Spec

(* Distinct numbers below k leave room for fewer than k requests. *)
LEMMA DistinctCounts ==
    ASSUME NEW S, NEW f, NEW k \in Nat \ {0},
           \A r \in S : f[r] \in 1..(k - 1),
           \A r, s \in S : f[r] = f[s] => r = s
    PROVE  IsFiniteSet(S) /\ Cardinality(S) < k
<1> DEFINE g == [r \in S |-> f[r]]
<1>1. g \in Injection(S, 1..(k - 1))
  BY DEF Injection, IsInjective
<1>2. IsFiniteSet(1..(k - 1)) /\ Cardinality(1..(k - 1)) = k - 1
  BY FS_Interval, FS_EmptySet
<1>3. IsFiniteSet(S) /\ Cardinality(S) <= k - 1
  BY <1>1, <1>2, FS_Injection
<1>4. Cardinality(S) \in Nat
  BY <1>3, FS_CardinalityType
<1>5. QED
  BY <1>3, <1>4

(* A day's calls of the model stay strictly below a limit in force: the    *)
(* unit at the limit is the only one that buys no call.                    *)
THEOREM CallsStayBelow == Spec => []CallsBelowLimit
<1>1. IInv /\ Numbered => CallsBelowLimit
  <2> SUFFICES ASSUME IInv, Numbered, NEW d \in Days, CalledOn(d) # {}
               PROVE  \E r \in CalledOn(d) : Cardinality(CalledOn(d)) < limit[r]
    BY DEF CallsBelowLimit
  <2> DEFINE k == Cardinality(CalledOn(d))
  <2>1. \A r \in CalledOn(d) : /\ r \in Requests /\ charged[r] /\ day[r] = d
                               /\ count[r] \in Nat \ {0} /\ limit[r] \in Nat /\ count[r] < limit[r]
    <3> SUFFICES ASSUME NEW r \in CalledOn(d)
                 PROVE  /\ r \in Requests /\ charged[r] /\ day[r] = d
                        /\ count[r] \in Nat \ {0} /\ limit[r] \in Nat /\ count[r] < limit[r]
      OBVIOUS
    <3>1. r \in Requests /\ pc[r] \in Calling /\ day[r] = d
      BY DEF CalledOn
    <3>2. charged[r]
      BY <3>1 DEF Calling, IInv, ChargedByPC
    <3>3. usage[d] \in Nat /\ limit[r] \in Nat
      BY <3>1, CountsAreNumbers DEF IInv, TypeOK
    <3>4. count[r] \in 1..usage[d] /\ count[r] < limit[r]
      BY <3>1, <3>2 DEF Numbered, ChargesNumbered, GateBelowLimit
    <3>5. QED
      BY <3>1, <3>2, <3>3, <3>4
  <2>2. \A r, s \in CalledOn(d) : count[r] = count[s] => r = s
    BY <2>1 DEF Numbered, ChargesNumbered
  <2>3. IsFiniteSet(CalledOn(d))
    BY RequestsAssumption, FS_Subset DEF CalledOn
  <2>4. k \in Nat \ {0}
    BY <2>3, FS_CardinalityType, FS_EmptySet
  <2>5. \E r \in CalledOn(d) : count[r] >= k
    <3> SUFFICES ASSUME \A r \in CalledOn(d) : ~(count[r] >= k) PROVE FALSE
      OBVIOUS
    <3>1. \A r \in CalledOn(d) : count[r] \in 1..(k - 1)
      BY <2>1, <2>4
    <3>2. Cardinality(CalledOn(d)) < k
      BY <2>2, <2>4, <3>1, DistinctCounts
    <3>3. QED
      BY <2>4, <3>2
  <2>6. PICK r \in CalledOn(d) : count[r] >= k
    BY <2>5
  <2>7. k < limit[r]
    BY <2>1, <2>4, <2>6
  <2>8. QED
    BY <2>7
<1>2. QED
  BY <1>1, QuotaInvariant, ChargesAreNumbered, PTL

(* A refusal is never spurious: the row had reached the request's limit. *)
THEOREM RefusalsJustified == Spec => []RefusedAtLimit
<1>1. IInv /\ Numbered => RefusedAtLimit
  <2> SUFFICES ASSUME IInv, Numbered, NEW r \in Requests, pc[r] = "refused"
               PROVE  usage[day[r]] >= limit[r]
    BY DEF RefusedAtLimit
  <2>1. usage[day[r]] \in Nat /\ limit[r] \in Nat /\ count[r] \in Nat
    BY CountsAreNumbers DEF IInv, TypeOK
  <2>2. count[r] >= limit[r] /\ count[r] <= usage[day[r]]
    BY DEF Numbered, RefusedOnCount
  <2>3. QED
    BY <2>1, <2>2
<1>2. QED
  BY <1>1, QuotaInvariant, ChargesAreNumbered, PTL

(* The unit lost to a refusal that the run QuotaLastUnit finds is the only *)
(* one of its day and limit.                                               *)
THEOREM LossIsOneUnit == Spec => []OneUnitLost
<1>1. IInv /\ Numbered => OneUnitLost
  <2> SUFFICES ASSUME IInv, Numbered, NEW r \in Requests, NEW s \in Requests,
                      charged[r], pc[r] = "refused", charged[s], pc[s] = "refused",
                      day[r] = day[s], limit[r] = limit[s]
               PROVE  r = s
    BY DEF OneUnitLost
  <2>1. \A q \in Requests : limit[q] \in Nat /\ count[q] \in Nat
    BY CountsAreNumbers DEF IInv, TypeOK
  <2>2. count[r] = limit[r] /\ count[s] = limit[s]
    BY <2>1 DEF Numbered, RefusedOnCount, GateBelowLimit
  <2>3. QED
    BY <2>2 DEF Numbered, ChargesNumbered
<1>2. QED
  BY <1>1, QuotaInvariant, ChargesAreNumbered, PTL

----------------------------------------------------------------------------
(* What the atomic counter promises, carried over to the transactions.     *)

(* Every day's count stays within any bound of the limits that can be in   *)
(* force, whichever of them was in force when.                             *)
THEOREM BoundedByLimits == Spec => []WithinEveryBound
<1>1. IInv => WithinEveryBound
  <2> SUFFICES ASSUME IInv, NEW n \in Nat, \A g \in AllLimits : g <= n, NEW d \in Days
               PROVE  usage[d] <= n
    BY DEF WithinEveryBound
  <2>1. usage[d] \in Nat
    BY DEF IInv, TypeOK
  <2>2. CASE usage[d] = 0
    BY <2>2
  <2>3. CASE usage[d] > 0
    <3>1. PICK r \in ChargedOn(d) : usage[d] <= limit[r]
      BY <2>3 DEF IInv, UsageWithinGrant
    <3>2. r \in Requests /\ limit[r] \in AllLimits /\ limit[r] \in Nat
      BY LimitsAssumption DEF ChargedOn, IInv, TypeOK, AllLimits
    <3>3. QED
      BY <2>1, <3>1, <3>2
  <2>4. QED
    BY <2>1, <2>2, <2>3
<1>2. QED
  BY <1>1, QuotaInvariant, PTL

(* A day's count moves up by one unit at a time and never down, through    *)
(* aborts, limit changes and midnight.                                     *)
THEOREM UnitsAreSpentSingly == Spec => [][OneUnitAtATime]_vars
<1>1. IInv /\ [Next]_vars => [OneUnitAtATime]_vars
  BY UsageGrows DEF OneUnitAtATime
<1>2. QED
  BY <1>1, QuotaInvariant, PTL DEF Spec

(* No request goes back: there is no retry loop inside a request, so with  *)
(* LockNeverLeaked the wait for the row is the only wait there is.         *)
THEOREM RequestsOnlyAdvance == Spec => [][OnlyForward]_vars
<1>1. TypeOK /\ [Next]_vars => [OnlyForward]_vars
  <2> SUFFICES ASSUME TypeOK, [Next]_vars, NEW r \in Requests, pc'[r] # pc[r]
               PROVE  Rank[pc'[r]] < Rank[pc[r]]
    BY DEF OnlyForward
  <2>1. Step(r) \/ Abort(r)
    BY DEF TypeOK, Next, Step, ReadDefaults, ReadLimit, UpsertRow, Deny, Increment, Commit,
       Gate, GeminiReply, Abort, SetOverride, SetDefault, Midnight, requestVars, vars, Goto
  <2>2. <<pc[r], pc'[r]>> \in
           {<<"new", "defaults">>, <<"defaults", "limit">>, <<"limit", "locked">>,
            <<"locked", "refused">>, <<"locked", "counted">>, <<"counted", "charged">>,
            <<"charged", "refused">>, <<"charged", "calling">>, <<"calling", "served">>,
            <<"calling", "failed">>, <<"defaults", "failed">>, <<"limit", "failed">>,
            <<"charged", "failed">>, <<"locked", "failed">>, <<"counted", "failed">>}
    BY <2>1 DEF TypeOK, Step, ReadDefaults, ReadLimit, UpsertRow, Deny, Increment, Commit,
       Gate, GeminiReply, Abort, Goto, InTx
  <2>3. QED
    BY <2>2 DEF Rank
<1>2. QED
  BY <1>1, TypeCorrect, PTL DEF Spec
=============================================================================
