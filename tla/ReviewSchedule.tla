--------------------------- MODULE ReviewSchedule ---------------------------
(***************************************************************************)
(* One problem of one user and its spaced repetition: concurrent attempts  *)
(* (backend/src/routes/attempts.rs), which mark the problem and then move  *)
(* its SM-2 schedule (backend/src/services/review.rs) in separate          *)
(* statements without a transaction, while the problem is created, edited  *)
(* or deleted and midnights pass.                                          *)
(*                                                                         *)
(* Time is counted in the user's local days, ease factors in hundredths.   *)
(***************************************************************************)
EXTENDS Integers, FiniteSets

CONSTANTS Slots,     \* attempt requests that may overlap
          Grades,    \* the statuses given, of "wrong", "needs_review", "mastered"
          NoGrade,   \* a request that has no status to give
          MaxDay,    \* bound: the last day reached
          LastDate   \* NaiveDate::MAX, the last day of the calendar

ASSUME GradesAssumption == Grades \subseteq {"wrong", "needs_review", "mastered"}
ASSUME NoGradeAssumption == NoGrade \notin Grades
ASSUME DayAssumption == MaxDay \in Nat /\ LastDate \in Nat

VARIABLES today,      \* the user's local day
          exists,     \* the row in problems
          creating,   \* create_problem has still to call ensure_initial_schedule
          status,     \* problems.status
          scheduled,  \* the row in review_schedule
          row,        \* its columns (the defaults while there is none)
          pc,         \* where each request stands
          grade,      \* the status a request gives
          work,       \* the schedule a request read, then the one it will write
          reviewed    \* history: days on which a schedule was computed

problemVars == <<exists, creating, status>>
scheduleVars == <<scheduled, row>>
vars == <<today, exists, creating, status, scheduled, row, pc, grade, work,
          reviewed>>

Days     == 0..MaxDay
Never    == -1
Statuses == Grades \cup {"needs_review"}

Schedules == [rep : Nat, ease : Nat, interval : Nat, last : Days \cup {Never}, due : Nat]

TypeOK ==
    /\ today \in Days
    /\ exists \in BOOLEAN
    /\ creating \in BOOLEAN
    /\ status \in Statuses
    /\ scheduled \in BOOLEAN
    /\ row \in Schedules
    /\ pc \in [Slots -> {"idle", "checked", "recorded", "marked", "read", "computed",
                         "done", "panicked"}]
    /\ grade \in [Slots -> Grades \cup {NoGrade}]
    /\ work \in [Slots -> Schedules]
    /\ reviewed \subseteq Days

(* The defaults of a row, and of update_review_schedule when there is none. *)
NewSchedule == [rep |-> 0, ease |-> 250, interval |-> 1, last |-> Never, due |-> 0]

Init ==
    /\ today = 0
    /\ exists = TRUE /\ creating = TRUE /\ status = "needs_review"
    /\ scheduled = FALSE /\ row = NewSchedule
    /\ pc = [r \in Slots |-> "idle"]
    /\ grade = [r \in Slots |-> NoGrade]
    /\ work = [r \in Slots |-> NewSchedule]
    /\ reviewed = {}

----------------------------------------------------------------------------
(* The SM-2 algorithm.                                                     *)

(* interval * ease, rounded, in parts that stay small. *)
Stretched(interval, ease) ==
    interval * (ease \div 100) + (interval * (ease % 100) + 50) \div 100

AtLeast(m, n) == IF n < m THEN m ELSE n

BugOffByOne(s) ==
    IF s.rep = 1 THEN 1 ELSE IF s.rep = 2 THEN 3 ELSE AtLeast(1, Stretched(s.interval, s.ease))

NextInterval(s) ==
    IF s.rep = 0 THEN 1 ELSE IF s.rep = 1 THEN 3 ELSE AtLeast(1, Stretched(s.interval, s.ease))

NextEase(s, g) == AtLeast(130, IF g = "mastered" THEN s.ease + 10 ELSE s.ease - 14)

BugStepBack(s) == s.rep - 1
Reset(s)       == 0

(* calculate_sm2_next_review, for a review on day d. *)
Advanced(s, g, d) ==
    LET interval == IF g = "wrong" THEN 1 ELSE NextInterval(s)
    IN [rep |-> IF g = "wrong" THEN Reset(s) ELSE s.rep + 1,
        ease |-> IF g = "wrong" THEN s.ease ELSE NextEase(s, g),
        interval |-> interval, last |-> d, due |-> d + interval]

Refreshed(s, d) == [s EXCEPT !.last = d, !.due = d + s.interval]

BugNoGuard(s, d) == FALSE
SameDay(s, d)    == s.last = d

(* calculate_review_schedule_update. *)
Update(s, g, d) == IF SameDay(s, d) THEN Refreshed(s, d) ELSE Advanced(s, g, d)

----------------------------------------------------------------------------
(* create_attempt_typed. *)

Goto(r, from, to) == pc[r] = from /\ pc' = [pc EXCEPT ![r] = to]

(* The problem is read and the answer graded: the status comes with the    *)
(* self-assessment, or from an auto-marked answer. (An answer beyond       *)
(* grading leaves problem and schedule alone.)                             *)
Begin(r, g) ==
    /\ exists
    /\ Goto(r, "idle", "checked")
    /\ grade' = [grade EXCEPT ![r] = g]
    /\ UNCHANGED <<today, problemVars, scheduleVars, work, reviewed>>

(* The handler is over: answered, or given up with what was written left. *)
Forget(r) ==
    /\ grade' = [grade EXCEPT ![r] = NoGrade]
    /\ work' = [work EXCEPT ![r] = NewSchedule]

(* insert into attempts, whose foreign key wants the problem. *)
Record(r) ==
    /\ exists
    /\ Goto(r, "checked", "recorded")
    /\ UNCHANGED <<today, problemVars, scheduleVars, grade, work, reviewed>>

(* update problems set status: no row is no error. *)
Mark(r) ==
    /\ Goto(r, "recorded", "marked")
    /\ status' = IF exists THEN grade[r] ELSE status
    /\ UNCHANGED <<today, exists, creating, scheduleVars, grade, work, reviewed>>

ReadSchedule(r) ==
    /\ Goto(r, "marked", "read")
    /\ work' = [work EXCEPT ![r] = row]
    /\ UNCHANGED <<today, problemVars, scheduleVars, grade, reviewed>>

(* After the time zone has been read: Utc::now() and the update, which     *)
(* panics when the date of the next review is off the calendar.            *)
Compute(r) ==
    LET next == Update(work[r], grade[r], today)
    IN /\ next.due <= LastDate
       /\ Goto(r, "read", "computed")
       /\ work' = [work EXCEPT ![r] = next]
       /\ reviewed' = reviewed \cup {today}
       /\ UNCHANGED <<today, problemVars, scheduleVars, grade>>

Panic(r) ==
    /\ Update(work[r], grade[r], today).due > LastDate
    /\ Goto(r, "read", "panicked")
    /\ UNCHANGED <<today, problemVars, scheduleVars, grade, work, reviewed>>

(* insert .. on conflict do update, whose foreign key wants the problem. *)
BugNoForeignKey == TRUE
Referenced      == exists

Upsert(r) ==
    /\ Referenced
    /\ Goto(r, "computed", "done")
    /\ scheduled' = TRUE /\ row' = work[r]
    /\ Forget(r)
    /\ UNCHANGED <<today, problemVars, reviewed>>

(* A database error (a foreign key's, when the problem is gone) or a crash. *)
Fail(r) ==
    /\ pc[r] \in {"checked", "recorded", "marked", "read", "computed"}
    /\ pc' = [pc EXCEPT ![r] = "idle"]
    /\ Forget(r)
    /\ UNCHANGED <<today, problemVars, scheduleVars, reviewed>>

----------------------------------------------------------------------------
(* The user, create_problem and time.                                      *)

(* The assessment form that follows an attempt: update_attempt writes the  *)
(* confirmed status into the attempt's row, which nothing here reads, and  *)
(* into no other.                                                          *)
Confirm(r) ==
    /\ Goto(r, "done", "idle")
    /\ UNCHANGED <<today, problemVars, scheduleVars, grade, work, reviewed>>

(* update_problem with a status. *)
EditStatus(s) ==
    /\ exists
    /\ status' = s
    /\ UNCHANGED <<today, exists, creating, scheduleVars, pc, grade, work, reviewed>>

(* ensure_initial_schedule, on conflict do nothing; or create_problem ends *)
(* in an error before it.                                                  *)
BugOverwrite  == [NewSchedule EXCEPT !.due = today]
KeptOrDefault == IF scheduled THEN row ELSE [NewSchedule EXCEPT !.due = today]

EnsureSchedule ==
    /\ creating /\ creating' = FALSE
    /\ \/ exists /\ scheduled' = TRUE /\ row' = KeptOrDefault
       \/ UNCHANGED scheduleVars
    /\ UNCHANGED <<today, exists, status, pc, grade, work, reviewed>>

(* delete_problem; attempts and schedule go with it (on delete cascade). *)
DeleteProblem ==
    /\ exists /\ exists' = FALSE
    /\ scheduled' = FALSE /\ row' = NewSchedule
    /\ UNCHANGED <<today, creating, status, pc, grade, work, reviewed>>

Midnight ==
    /\ today < MaxDay
    /\ today' = today + 1
    /\ UNCHANGED <<problemVars, scheduleVars, pc, grade, work, reviewed>>

Step(r) ==
    \/ Record(r) \/ Mark(r) \/ ReadSchedule(r) \/ Compute(r) \/ Panic(r)
    \/ Upsert(r) \/ Fail(r) \/ Confirm(r)

Next ==
    \/ \E r \in Slots : Step(r)
    \/ \E r \in Slots, g \in Grades : Begin(r, g)
    \/ \E s \in Grades : EditStatus(s)
    \/ EnsureSchedule \/ DeleteProblem \/ Midnight

Spec == Init /\ [][Next]_vars

----------------------------------------------------------------------------
(* Properties. *)

ReviewedBy(d) == Cardinality({e \in reviewed : e <= d})

(* spaced-repetition.ts:122-125, the same-day guard "prevents              *)
(* double-advancement": the problem has never more repetitions than days   *)
(* on which it was reviewed, even when attempts work on stale schedules    *)
(* and write them late or out of order.                                    *)
RepsWithinDays == row.rep <= ReviewedBy(row.last)

(* Whatever attempts interleave or fail half-way, the columns belong       *)
(* together: the due day is the interval after the last review, the ease   *)
(* factor keeps its floor, and with every repetition the interval grows.   *)
WellFormed(s) ==
    /\ s.last # Never => s.due = s.last + s.interval
    /\ s.ease >= 130
    /\ s.interval >= 1
    /\ s.rep >= 2 => s.interval > s.rep

ScheduleWellFormed == WellFormed(row)

(* An attempt that is late does not bring back what delete_problem         *)
(* removed.                                                                *)
NothingOutlivesProblem == ~exists => ~scheduled

(* No step but the deletion makes a reviewed problem a new one again:      *)
(* neither the late ensure_initial_schedule nor a stale attempt.           *)
ReviewsNotForgotten == [][exists' /\ row.last # Never => row'.last # Never]_vars
=============================================================================
