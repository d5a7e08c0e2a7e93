------------------------------- MODULE Quota -------------------------------
(***************************************************************************)
(* The daily AI quota of one user and one resource                         *)
(* (backend/src/services/quota.rs) under concurrent requests: every        *)
(* request of routes/ai.rs that costs a unit, the administrator who        *)
(* changes the limits meanwhile, midnight, and failures.                   *)
(*                                                                         *)
(* check_and_increment_quota reads the configured defaults outside its     *)
(* transaction, the user's override inside it, and then takes the row      *)
(* lock of usage_quotas with an upsert that holds to the commit.           *)
(***************************************************************************)
EXTENDS Integers, FiniteSets

CONSTANTS Requests,      \* the requests that may arrive
          Limits,        \* the limits an administrator may set
          DefaultLimit,  \* hardcoded_default of the resource
          NoLimit,       \* no override row, no configured default
          NoRequest,     \* nobody holds the row lock
          MaxDay         \* bound: the last day reached

ASSUME LimitsAssumption   == Limits \subseteq Nat /\ DefaultLimit \in Nat
ASSUME NoLimitAssumption  == NoLimit \notin Nat
ASSUME RequestsAssumption == IsFiniteSet(Requests) /\ NoRequest \notin Requests
ASSUME DayAssumption      == MaxDay \in Nat

VARIABLES today,       \* Utc::now().date_naive()
          configured,  \* the resource's entry in admin_settings limit defaults
          override,    \* user_quota_overrides.daily_limit
          usage,       \* committed usage_quotas.usage_count of each day (0: no row)
          rowLock,     \* the transaction holding the row of each day
          pc,          \* where each request stands
          dflt,        \* the configured default a request read
          limit,       \* the effective limit a request read
          day,         \* the day a request counts for
          count,       \* the count its transaction returned
          charged      \* history: the commit of its increment took effect

limitVars   == <<today, configured, override>>
requestVars == <<pc, dflt, limit, day, count, charged>>
vars == <<today, configured, override, usage, rowLock,
          pc, dflt, limit, day, count, charged>>

Days      == 0..MaxDay
AllLimits == Limits \cup {DefaultLimit}
InTx      == {"locked", "counted"}
Finished  == {"refused", "served", "failed"}
PCs       == {"new", "defaults", "limit", "charged", "calling"} \cup InTx \cup Finished

TypeOK ==
    /\ today \in Days
    /\ configured \in Limits \cup {NoLimit}
    /\ override \in Limits \cup {NoLimit}
    /\ usage \in [Days -> Nat]
    /\ rowLock \in [Days -> Requests \cup {NoRequest}]
    /\ pc \in [Requests -> PCs]
    /\ dflt \in [Requests -> Limits \cup {NoLimit}]
    /\ limit \in [Requests -> AllLimits]
    /\ day \in [Requests -> Days]
    /\ count \in [Requests -> Nat]
    /\ charged \in [Requests -> BOOLEAN]

Init ==
    /\ today = 0
    /\ configured = NoLimit
    /\ override = NoLimit
    /\ usage = [d \in Days |-> 0]
    /\ rowLock = [d \in Days |-> NoRequest]
    /\ pc = [r \in Requests |-> "new"]
    /\ dflt = [r \in Requests |-> NoLimit]
    /\ limit = [r \in Requests |-> DefaultLimit]
    /\ day = [r \in Requests |-> 0]
    /\ count = [r \in Requests |-> 0]
    /\ charged = [r \in Requests |-> FALSE]

(* The override wins over the configured default, which wins over the      *)
(* hardcoded one. (A definition whose name begins with Bug is a plausible  *)
(* mistake in the one that follows it; no specification uses it, and a     *)
(* property that holds is shown to fail with the mistake in place.)        *)
BugNoFallback(o, c) == IF o # NoLimit THEN o ELSE c

Effective(o, c) ==
    IF o # NoLimit THEN o ELSE IF c # NoLimit THEN c ELSE DefaultLimit

(* The lock of the day's row, which the upsert waits for.                  *)
BugNoLock(d) == TRUE
RowFree(d)   == rowLock[d] = NoRequest

BugKeepRow(r) == rowLock
ReleaseRow(r) == [rowLock EXCEPT ![day[r]] = NoRequest]

BugOffByOne(r) == count[r] > limit[r]
AtLimit(r)     == count[r] >= limit[r]

Goto(r, from, to) == pc[r] = from /\ pc' = [pc EXCEPT ![r] = to]

----------------------------------------------------------------------------
(* The steps of check_and_increment_quota.                                 *)

ReadDefaults(r) ==
    /\ Goto(r, "new", "defaults")
    /\ dflt' = [dflt EXCEPT ![r] = configured]
    /\ UNCHANGED <<limitVars, usage, rowLock, limit, day, count, charged>>

(* begin; the override; and `today`, taken with no await in between. *)
ReadLimit(r) ==
    /\ Goto(r, "defaults", "limit")
    /\ limit' = [limit EXCEPT ![r] = Effective(override, dflt[r])]
    /\ day' = [day EXCEPT ![r] = today]
    /\ UNCHANGED <<limitVars, usage, rowLock, dflt, count, charged>>

(* insert .. on conflict do update .. returning usage_count: waits for the *)
(* row and then sees its last committed count.                             *)
UpsertRow(r) ==
    /\ RowFree(day[r])
    /\ Goto(r, "limit", "locked")
    /\ rowLock' = [rowLock EXCEPT ![day[r]] = r]
    /\ count' = [count EXCEPT ![r] = usage[day[r]]]
    /\ UNCHANGED <<limitVars, usage, dflt, limit, day, charged>>

(* The row is at the limit: commit nothing new, and the caller answers     *)
(* Forbidden, as Gate below does for a count at the limit.                 *)
Deny(r) ==
    /\ AtLimit(r)
    /\ Goto(r, "locked", "refused")
    /\ rowLock' = ReleaseRow(r)
    /\ UNCHANGED <<limitVars, usage, dflt, limit, day, count, charged>>

(* update .. set usage_count = usage_count + 1 returning usage_count, not  *)
(* yet committed.                                                          *)
Increment(r) ==
    /\ ~AtLimit(r)
    /\ Goto(r, "locked", "counted")
    /\ count' = [count EXCEPT ![r] = usage[day[r]] + 1]
    /\ UNCHANGED <<limitVars, usage, rowLock, dflt, limit, day, charged>>

BugCommitToday(r) ==
    /\ Goto(r, "counted", "charged")
    /\ usage' = [usage EXCEPT ![today] = count[r]]
    /\ rowLock' = ReleaseRow(r)
    /\ charged' = [charged EXCEPT ![r] = TRUE]
    /\ UNCHANGED <<limitVars, dflt, limit, day, count>>

Commit(r) ==
    /\ Goto(r, "counted", "charged")
    /\ usage' = [usage EXCEPT ![day[r]] = count[r]]
    /\ rowLock' = ReleaseRow(r)
    /\ charged' = [charged EXCEPT ![r] = TRUE]
    /\ UNCHANGED <<limitVars, dflt, limit, day, count>>

----------------------------------------------------------------------------
(* The route handler once the transaction has returned.                    *)

Allowed(r)   == count[r] < limit[r]
Remaining(r) == IF limit[r] >= count[r] THEN limit[r] - count[r] ELSE 0
Refuses(r)   == ~Allowed(r) /\ Remaining(r) = 0

BugGateBeforeCommit(r) ==
    /\ Goto(r, "counted", IF Refuses(r) THEN "refused" ELSE "calling")
    /\ UNCHANGED <<limitVars, usage, rowLock, dflt, limit, day, count, charged>>

Gate(r) ==
    /\ Goto(r, "charged", IF Refuses(r) THEN "refused" ELSE "calling")
    /\ UNCHANGED <<limitVars, usage, rowLock, dflt, limit, day, count, charged>>

(* generate_json answers, or fails: no unit is given back. *)
GeminiReply(r) ==
    /\ \E end \in {"served", "failed"} : Goto(r, "calling", end)
    /\ UNCHANGED <<limitVars, usage, rowLock, dflt, limit, day, count, charged>>

(* A database error, a lost commit reply or a crash of the server ends the *)
(* request; an open transaction rolls back and frees the row.              *)
Abort(r) ==
    /\ pc[r] \in {"defaults", "limit", "charged"} \cup InTx
    /\ pc' = [pc EXCEPT ![r] = "failed"]
    /\ rowLock' = IF pc[r] \in InTx THEN ReleaseRow(r) ELSE rowLock
    /\ UNCHANGED <<limitVars, usage, dflt, limit, day, count, charged>>

----------------------------------------------------------------------------
(* The administrator, and midnight UTC.                                    *)

(* set_quota_override, with a limit or with null. *)
SetOverride ==
    /\ override' \in (Limits \cup {NoLimit}) \ {override}
    /\ UNCHANGED <<today, configured, usage, rowLock, requestVars>>

(* set_limit_defaults for this resource. *)
SetDefault ==
    /\ configured' \in (Limits \cup {NoLimit}) \ {configured}
    /\ UNCHANGED <<today, override, usage, rowLock, requestVars>>

Midnight ==
    /\ today < MaxDay
    /\ today' = today + 1
    /\ UNCHANGED <<configured, override, usage, rowLock, requestVars>>

Step(r) ==
    \/ ReadDefaults(r) \/ ReadLimit(r) \/ UpsertRow(r) \/ Deny(r)
    \/ Increment(r) \/ Commit(r) \/ Gate(r) \/ GeminiReply(r)

Next ==
    \/ \E r \in Requests : Step(r) \/ Abort(r)
    \/ SetOverride \/ SetDefault \/ Midnight

(* A request that has started runs on; its arrival is nobody's duty.       *)
Fairness == \A r \in Requests : WF_vars(pc[r] # "new" /\ Step(r))

Spec     == Init /\ [][Next]_vars
FairSpec == Spec /\ Fairness

----------------------------------------------------------------------------
(* Properties. *)

ChargedOn(d) == {r \in Requests : charged[r] /\ day[r] = d}

(* No charge is lost and none is counted twice, whatever the interleaving, *)
(* the failures and the day changes: the row of a day counts exactly the   *)
(* requests whose increment committed for that day.                        *)
EveryChargeCounted == \A d \in Days : usage[d] = Cardinality(ChargedOn(d))

(* A stale default or a lowered override never lets the row pass every     *)
(* limit: the count of a day is within the limit that some request charged *)
(* on that day had read.                                                   *)
UsageWithinGrant ==
    \A d \in Days : usage[d] > 0 => \E r \in ChargedOn(d) : usage[d] <= limit[r]

(* The model is never called for free: a request that got through to it    *)
(* has its unit committed on the row, even when it raced an abort.         *)
NoFreeCall == \A r \in Requests : pc[r] \in {"calling", "served"} => charged[r]

(* A started request gets an answer: the row lock never starves it.        *)
RequestAnswered == \A r \in Requests : pc[r] = "defaults" ~> pc[r] \in Finished

(* What the extract page assumes (image-scan-uploader.tsx:451,             *)
(* `quotaExhausted = quota !== null && quota.remaining <= 0`): as long as  *)
(* a unit remains a request may use it. So no request is both charged its  *)
(* unit and refused.                                                       *)
RemainingUnitUsable == \A r \in Requests : ~(charged[r] /\ pc[r] = "refused")

Budget == INSTANCE DailyBudget WITH Days <- Days, Grants <- AllLimits, used <- usage

(* The transactions implement the atomic daily counter.                    *)
ImplementsBudget == Budget!Spec
=============================================================================
