----------------------- MODULE ReviewScheduleProofs -----------------------
(***************************************************************************)
(* Proofs, for any number of overlapping attempts and any calendar, that   *)
(* the schedule of a problem stays well-formed, advances at most once a    *)
(* day, is not forgotten and goes with the problem.                        *)
(***************************************************************************)
EXTENDS ReviewSchedule, FiniteSetTheorems, TLAPS

----------------------------------------------------------------------------
(* What holds of the row holds of every schedule an attempt works on: it   *)
(* is one that was in force at some time, its last review is past, and its *)
(* repetitions are on different days. Here on day t, after reviews on R.   *)
Plausible(s, t, R) ==
    /\ WellFormed(s)
    /\ s.last <= t
    /\ s.rep <= Cardinality({e \in R : e <= s.last})

RowPlausible  == Plausible(row, today, reviewed)
WorkPlausible == \A r \in Slots : Plausible(work[r], today, reviewed)

(* A request on its way to mark the problem has a status to give.          *)
GradeGiven == \A r \in Slots : pc[r] \in {"checked", "recorded"} => grade[r] \in Grades

(* A schedule about to be written has a last review; a problem without a   *)
(* row has none.                                                           *)
ReviewKnown ==
    /\ \A r \in Slots : pc[r] = "computed" => work[r].last # Never
    /\ ~scheduled => row.last = Never

IInv ==
    /\ TypeOK /\ GradeGiven /\ RowPlausible /\ WorkPlausible /\ ReviewKnown
    /\ NothingOutlivesProblem

----------------------------------------------------------------------------
(* Arithmetic of the SM-2 algorithm.                                       *)

(* With an ease factor of at least 1.30 an interval does not shrink, and   *)
(* one of three days or more grows.                                        *)
LEMMA StretchedGrows ==
  ASSUME NEW interval \in Nat, NEW ease \in Nat, interval >= 1, ease >= 130
  PROVE  /\ Stretched(interval, ease) \in Nat
         /\ Stretched(interval, ease) >= interval
         /\ interval >= 3 => Stretched(interval, ease) > interval
<1> DEFINE a == ease \div 100
           b == ease % 100
           c == (interval * b + 50) \div 100
<1>1. a \in Nat /\ b \in Nat /\ ease = 100 * a + b /\ b < 100
  OBVIOUS
<1>2. a >= 1 /\ (a = 1 => b >= 30)
  BY <1>1
<1> HIDE DEF a, b
<1>3. interval * b \in Nat /\ (b >= 30 => interval * b >= interval * 30)
  BY <1>1
<1>4. c \in Nat /\ (interval >= 3 /\ b >= 30 => c >= 1)
  <2> DEFINE x == interval * b
  <2>1. x \in Nat /\ (interval >= 3 /\ b >= 30 => x >= 90)
    BY <1>3
  <2> HIDE DEF x
  <2>2. (x + 50) \div 100 \in Nat /\ (x >= 90 => (x + 50) \div 100 >= 1)
    BY <2>1
  <2>3. QED
    BY <2>1, <2>2 DEF x
<1> HIDE DEF c
<1>5. interval * a \in Nat /\ interval * a >= interval /\ (a >= 2 => interval * a > interval)
  <2>1. CASE a = 1
    BY <2>1
  <2>2. CASE a >= 2
    <3>1. interval * a >= interval * 2
      BY <1>1, <2>2
    <3>2. QED
      BY <1>1, <2>2, <3>1
  <2>3. QED
    BY <1>1, <1>2, <2>1, <2>2
<1>6. Stretched(interval, ease) = interval * a + c
  BY DEF Stretched, a, b, c
<1>7. QED
  BY <1>1, <1>2, <1>4, <1>5, <1>6

(* A well-formed schedule that advances is well-formed, and its             *)
(* repetitions grow by one or are reset.                                   *)
LEMMA AdvancedWellFormed ==
  ASSUME NEW s \in Schedules, NEW g, NEW d \in Days, WellFormed(s)
  PROVE  /\ Advanced(s, g, d) \in Schedules
         /\ WellFormed(Advanced(s, g, d))
         /\ Advanced(s, g, d).last = d
         /\ Advanced(s, g, d).rep <= s.rep + 1
<1> DEFINE i == NextInterval(s)
           f == NextEase(s, g)
<1>1. s.rep \in Nat /\ s.ease \in Nat /\ s.interval \in Nat /\ s.ease >= 130 /\ s.interval >= 1
  BY DEF Schedules, WellFormed
<1>2. f \in Nat /\ f >= 130
  BY <1>1 DEF NextEase, AtLeast
<1>3. i \in Nat /\ i >= 1 /\ (s.rep >= 1 => i > s.rep + 1)
  <2>1. CASE s.rep = 0
    BY <2>1 DEF NextInterval
  <2>2. CASE s.rep = 1
    BY <2>2 DEF NextInterval
  <2>3. CASE s.rep >= 2
    <3>1. s.interval > s.rep
      BY <2>3 DEF WellFormed
    <3> DEFINE x == Stretched(s.interval, s.ease)
    <3> HIDE DEF x
    <3>2. s.interval >= 3
      BY <1>1, <2>3, <3>1
    <3>3. x \in Nat /\ x > s.interval
      BY <1>1, <3>2, StretchedGrows DEF x
    <3>4. i = x
      BY <1>1, <2>3, <3>3 DEF NextInterval, AtLeast, x
    <3>5. QED
      BY <1>1, <2>3, <3>1, <3>3, <3>4
  <2>4. QED
    BY <1>1, <2>1, <2>2, <2>3
<1> HIDE DEF i, f
<1>4. CASE g = "wrong"
  <2>1. Advanced(s, g, d) = [rep |-> 0, ease |-> s.ease, interval |-> 1, last |-> d, due |-> d + 1]
    BY <1>4 DEF Advanced, Reset
  <2>2. QED
    BY <1>1, <2>1 DEF WellFormed, Schedules, Days
<1>5. CASE g # "wrong"
  <2>1. Advanced(s, g, d) = [rep |-> s.rep + 1, ease |-> f, interval |-> i, last |-> d, due |-> d + i]
    BY <1>5 DEF Advanced, i, f
  <2>2. QED
    BY <1>1, <1>2, <1>3, <2>1 DEF WellFormed, Schedules, Days
<1>6. QED
  BY <1>4, <1>5

LEMMA RefreshedWellFormed ==
  ASSUME NEW s \in Schedules, NEW d \in Days, WellFormed(s)
  PROVE  /\ Refreshed(s, d) \in Schedules
         /\ WellFormed(Refreshed(s, d))
         /\ Refreshed(s, d).last = d
         /\ Refreshed(s, d).rep = s.rep
<1>1. Refreshed(s, d) \in Schedules
  <2>1. d \in Nat /\ s.interval \in Nat
    BY DayAssumption DEF Days, Schedules
  <2>2. d + s.interval \in Nat
    BY <2>1
  <2>3. QED
    BY <2>2 DEF Refreshed, Schedules
<1>2. /\ Refreshed(s, d).rep = s.rep /\ Refreshed(s, d).ease = s.ease
      /\ Refreshed(s, d).interval = s.interval /\ Refreshed(s, d).last = d
      /\ Refreshed(s, d).due = d + s.interval
  BY DEF Refreshed, Schedules
<1>3. QED
  BY <1>1, <1>2 DEF WellFormed

----------------------------------------------------------------------------
(* Counting the days of review.                                            *)

LEMMA ReviewDaysFinite ==
  ASSUME NEW S \in SUBSET Days, NEW d \in Int
  PROVE  /\ IsFiniteSet({e \in S : e <= d})
         /\ Cardinality({e \in S : e <= d}) \in Nat
<1>1. IsFiniteSet(Days)
  BY FS_Interval, DayAssumption DEF Days
<1>2. IsFiniteSet({e \in S : e <= d})
  BY <1>1, FS_Subset
<1>3. QED
  BY <1>2, FS_CardinalityType

(* More days of review, counted up to a later day, are not fewer.          *)
LEMMA ReviewDaysGrow ==
  ASSUME NEW S \in SUBSET Days, NEW T \in SUBSET Days, S \subseteq T,
         NEW d \in Int, NEW e \in Int, d <= e
  PROVE  Cardinality({x \in S : x <= d}) <= Cardinality({x \in T : x <= e})
<1>1. \A x \in S : x \in Int
  BY DayAssumption DEF Days
<1>2. {x \in S : x <= d} \subseteq {x \in T : x <= e}
  BY <1>1
<1>3. QED
  BY <1>2, ReviewDaysFinite, FS_Subset

(* A review on a later day is one day more.                                *)
LEMMA ReviewDaysAdd ==
  ASSUME NEW S \in SUBSET Days, NEW d \in Int, NEW e \in Days, d < e
  PROVE  Cardinality({x \in S : x <= d}) + 1 <= Cardinality({x \in S \cup {e} : x <= e})
<1> DEFINE A == {x \in S : x <= d}
           B == {x \in S \cup {e} : x <= e}
<1>1. A \cup {e} \subseteq B /\ e \notin A
  <2>1. e \in Int /\ \A x \in S : x \in Int
    BY DayAssumption DEF Days
  <2>2. \A x \in A \cup {e} : x \in S \cup {e} /\ x <= e
    BY <2>1
  <2>3. e \notin A
    BY <2>1
  <2>4. QED
    BY <2>2, <2>3
<1>2. IsFiniteSet(A) /\ Cardinality(A) \in Nat
  BY ReviewDaysFinite
<1>3. IsFiniteSet(B)
  <2>1. S \cup {e} \in SUBSET Days /\ e \in Int
    BY DEF Days
  <2>2. QED
    BY <2>1, ReviewDaysFinite
<1>4. IsFiniteSet(A \cup {e}) /\ Cardinality(A \cup {e}) = Cardinality(A) + 1
  BY <1>1, <1>2, FS_AddElement
<1>5. Cardinality(A \cup {e}) <= Cardinality(B)
  BY <1>1, <1>3, <1>4, FS_Subset
<1>6. QED
  BY <1>4, <1>5
----------------------------------------------------------------------------
(* A schedule stays plausible as time goes on.                             *)

LEMMA PlausibleLater ==
  ASSUME NEW s \in Schedules, NEW t \in Days, NEW u \in Days, t <= u,
         NEW R \in SUBSET Days, NEW S \in SUBSET Days, R \subseteq S, Plausible(s, t, R)
  PROVE  Plausible(s, u, S)
<1>1. s.last \in Int /\ s.rep \in Nat /\ t \in Int /\ u \in Int
  BY DayAssumption DEF Schedules, Days, Never
<1>2. s.last <= s.last
  BY <1>1
<1>3. Cardinality({e \in R : e <= s.last}) <= Cardinality({e \in S : e <= s.last})
  BY <1>1, <1>2, ReviewDaysGrow
<1>4. /\ Cardinality({e \in R : e <= s.last}) \in Nat
      /\ Cardinality({e \in S : e <= s.last}) \in Nat
  BY <1>1, ReviewDaysFinite
<1>5. QED
  BY <1>1, <1>3, <1>4 DEF Plausible

(* The update of a plausible schedule, on day t, is plausible.             *)
LEMMA UpdatePlausible ==
  ASSUME NEW s \in Schedules, NEW g, NEW t \in Days, NEW R \in SUBSET Days, Plausible(s, t, R)
  PROVE  /\ Update(s, g, t) \in Schedules
         /\ Update(s, g, t).last = t
         /\ Plausible(Update(s, g, t), t, R \cup {t})
<1> DEFINE n == Update(s, g, t)
<1>1. t \in Int /\ s.last \in Int /\ s.rep \in Nat /\ R \cup {t} \in SUBSET Days
  BY DayAssumption DEF Schedules, Days, Never
<1>2. WellFormed(s) /\ s.last <= t /\ s.rep <= Cardinality({e \in R : e <= s.last})
  BY DEF Plausible
<1>3. /\ Cardinality({e \in R : e <= s.last}) \in Nat
      /\ Cardinality({e \in R \cup {t} : e <= t}) \in Nat
  BY <1>1, ReviewDaysFinite
<1>4. CASE SameDay(s, t)
  <2>1. n \in Schedules /\ WellFormed(n) /\ n.last = t /\ n.rep = s.rep
    BY <1>2, <1>4, RefreshedWellFormed DEF Update
  <2>2. Cardinality({e \in R : e <= s.last}) <= Cardinality({e \in R \cup {t} : e <= t})
    BY <1>1, <1>2, ReviewDaysGrow
  <2> HIDE DEF n
  <2>3. Plausible(n, t, R \cup {t})
    BY <1>1, <1>2, <1>3, <2>1, <2>2 DEF Plausible
  <2>4. QED
    BY <2>1, <2>3 DEF n
<1>5. CASE ~SameDay(s, t)
  <2>1. n \in Schedules /\ WellFormed(n) /\ n.last = t /\ n.rep <= s.rep + 1
    BY <1>2, <1>5, AdvancedWellFormed DEF Update
  <2>2. s.last < t
    BY <1>1, <1>2, <1>5 DEF SameDay
  <2>3. Cardinality({e \in R : e <= s.last}) + 1 <= Cardinality({e \in R \cup {t} : e <= t})
    BY <1>1, <2>2, ReviewDaysAdd
  <2> HIDE DEF n
  <2>4. n.rep \in Nat
    BY <2>1 DEF Schedules
  <2>5. Plausible(n, t, R \cup {t})
    BY <1>1, <1>2, <1>3, <2>1, <2>3, <2>4 DEF Plausible
  <2>6. QED
    BY <2>1, <2>5 DEF n
<1>6. QED
  BY <1>4, <1>5

(* The schedule of a problem not yet reviewed is plausible.                *)
LEMMA NewPlausible ==
  ASSUME NEW t \in Days, NEW R \in SUBSET Days, NEW d \in Nat
  PROVE  /\ NewSchedule \in Schedules /\ Plausible(NewSchedule, t, R)
         /\ [NewSchedule EXCEPT !.due = d] \in Schedules
         /\ Plausible([NewSchedule EXCEPT !.due = d], t, R)
<1>1. Never \in Int /\ t \in Nat
  BY DayAssumption DEF Never, Days
<1>2. Cardinality({e \in R : e <= Never}) \in Nat
  BY <1>1, ReviewDaysFinite
<1>3. NewSchedule \in Schedules /\ [NewSchedule EXCEPT !.due = d] \in Schedules
  BY DEF NewSchedule, Schedules
<1>4. \A s \in {NewSchedule, [NewSchedule EXCEPT !.due = d]} :
          s.rep = 0 /\ s.last = Never /\ WellFormed(s)
  BY DEF WellFormed, NewSchedule
<1>5. \A s \in {NewSchedule, [NewSchedule EXCEPT !.due = d]} : Plausible(s, t, R)
  <2>1. Never <= t
    BY <1>1 DEF Never
  <2>2. ASSUME NEW s, s.rep = 0, s.last = Never, WellFormed(s)
        PROVE  Plausible(s, t, R)
    <3>1. {e \in R : e <= s.last} = {e \in R : e <= Never}
      BY <2>2
    <3>2. QED
      BY <1>2, <2>1, <2>2, <3>1 DEF Plausible
  <2>3. QED
    BY <1>4, <2>2
<1>6. QED
  BY <1>3, <1>5

----------------------------------------------------------------------------
(* Initial states and steps.                                               *)

LEMMA Initially == Init => IInv
<1> SUFFICES ASSUME Init PROVE IInv
  OBVIOUS
<1>1. today \in Days /\ reviewed \in SUBSET Days
  BY DayAssumption DEF Init, Days
<1>2. NewSchedule \in Schedules /\ Plausible(NewSchedule, today, reviewed)
  BY <1>1, NewPlausible
<1>3. TypeOK
  BY <1>1, <1>2 DEF Init, TypeOK, Statuses
<1>4. RowPlausible /\ WorkPlausible
  BY <1>2 DEF Init, RowPlausible, WorkPlausible
<1>5. GradeGiven /\ ReviewKnown /\ NothingOutlivesProblem
  BY DEF Init, GradeGiven, ReviewKnown, NothingOutlivesProblem, NewSchedule
<1>6. QED
  BY <1>3, <1>4, <1>5 DEF IInv

(* What each kind of step leaves to show: the row or a schedule in work is *)
(* replaced by a plausible one, or a day or a review is added.             *)

LEMMA TypeStep == ASSUME IInv, [Next]_vars PROVE TypeOK'
<1> USE DEF TypeOK, problemVars, scheduleVars, Goto
<1>1. TypeOK /\ NewSchedule \in Schedules /\ [NewSchedule EXCEPT !.due = today] \in Schedules
  <2>1. TypeOK /\ today \in Nat
    BY DayAssumption DEF IInv, Days
  <2>2. QED
    BY <2>1, NewPlausible
<1>2. ASSUME NEW r \in Slots, Step(r) PROVE TypeOK'
  <2>1. CASE Record(r) \/ Mark(r) \/ ReadSchedule(r) \/ Panic(r) \/ Confirm(r)
    <3>1. Mark(r) => grade[r] \in Statuses
      BY DEF Mark, IInv, GradeGiven, Statuses
    <3>2. QED
      BY <1>1, <2>1, <3>1 DEF Record, Mark, ReadSchedule, Panic, Confirm
  <2>2. CASE Compute(r)
    <3>1. Update(work[r], grade[r], today) \in Schedules
      BY <1>1, UpdatePlausible DEF IInv, WorkPlausible
    <3>2. QED
      BY <1>1, <2>2, <3>1 DEF Compute
  <2>3. CASE Upsert(r)
    BY <1>1, <2>3 DEF Upsert, Forget
  <2>4. CASE Fail(r)
    BY <1>1, <2>4 DEF Fail, Forget
  <2>5. QED
    BY <1>2, <2>1, <2>2, <2>3, <2>4 DEF Step
<1>3. ASSUME NEW r \in Slots, NEW g \in Grades, Begin(r, g) PROVE TypeOK'
  BY <1>1, <1>3 DEF Begin
<1>4. ASSUME NEW g \in Grades, EditStatus(g) PROVE TypeOK'
  BY <1>1, <1>4 DEF EditStatus, Statuses
<1>5. CASE EnsureSchedule \/ DeleteProblem
  BY <1>1, <1>5 DEF EnsureSchedule, KeptOrDefault, DeleteProblem
<1>6. CASE Midnight
  BY <1>1, <1>6, DayAssumption DEF Midnight, Days
<1>7. CASE UNCHANGED vars
  BY <1>1, <1>7 DEF vars
<1>8. QED
  BY <1>2, <1>3, <1>4, <1>5, <1>6, <1>7 DEF Next

(* The days and the reviews only grow.                                     *)
LEMMA TimePasses ==
  ASSUME IInv, [Next]_vars
  PROVE  /\ today \in Days /\ today' \in Days /\ today <= today'
         /\ reviewed \in SUBSET Days /\ reviewed' \in SUBSET Days /\ reviewed \subseteq reviewed'
<1> USE DEF problemVars, scheduleVars
<1>1. TypeOK /\ TypeOK'
  BY TypeStep DEF IInv
<1>2. today \in Int
  BY <1>1, DayAssumption DEF TypeOK, Days
<1>3. ASSUME NEW r \in Slots, Step(r) PROVE today' = today /\ reviewed \subseteq reviewed'
  BY <1>3 DEF Step, Record, Mark, ReadSchedule, Compute, Panic, Upsert, Fail, Confirm
<1>4. ASSUME \/ \E r \in Slots, g \in Grades : Begin(r, g)
             \/ \E s \in Grades : EditStatus(s)
             \/ EnsureSchedule \/ DeleteProblem \/ UNCHANGED vars
      PROVE  today' = today /\ reviewed \subseteq reviewed'
  BY <1>4 DEF Begin, EditStatus, EnsureSchedule, DeleteProblem, vars
<1>5. ASSUME Midnight PROVE today' = today + 1 /\ reviewed \subseteq reviewed'
  BY <1>5 DEF Midnight
<1>6. today <= today' /\ reviewed \subseteq reviewed'
  BY <1>2, <1>3, <1>4, <1>5 DEF Next
<1>7. QED
  BY <1>1, <1>6 DEF TypeOK

LEMMA RowStep == ASSUME IInv, [Next]_vars PROVE RowPlausible'
<1> USE DEF problemVars, scheduleVars
<1>1. TypeOK /\ RowPlausible /\ WorkPlausible
  BY DEF IInv
<1>2. ASSUME NEW s \in Schedules, Plausible(s, today, reviewed)
      PROVE  Plausible(s, today', reviewed')
  BY <1>2, TimePasses, PlausibleLater
<1>3. CASE row' = row
  BY <1>1, <1>2, <1>3 DEF RowPlausible, TypeOK
<1>4. ASSUME NEW r \in Slots, row' = work[r] PROVE RowPlausible'
  BY <1>1, <1>2, <1>4 DEF RowPlausible, WorkPlausible, TypeOK
<1>5. CASE row' = NewSchedule \/ row' = [NewSchedule EXCEPT !.due = today]
  <2>1. today \in Nat
    BY <1>1, DayAssumption DEF TypeOK, Days
  <2>2. QED
    BY <1>5, <2>1, TimePasses, NewPlausible DEF RowPlausible
<1>6. \/ row' = row
      \/ \E r \in Slots : row' = work[r]
      \/ row' = NewSchedule \/ row' = [NewSchedule EXCEPT !.due = today]
  <2>1. ASSUME NEW r \in Slots, Step(r) PROVE row' = row \/ row' = work[r]
    BY <2>1 DEF Step, Record, Mark, ReadSchedule, Compute, Panic, Upsert, Fail, Confirm
  <2>2. CASE \/ \E r \in Slots, g \in Grades : Begin(r, g)
             \/ \E s \in Grades : EditStatus(s)
             \/ Midnight \/ UNCHANGED vars
    BY <2>2 DEF Begin, EditStatus, Midnight, vars
  <2>3. CASE EnsureSchedule \/ DeleteProblem
    BY <2>3 DEF EnsureSchedule, KeptOrDefault, DeleteProblem
  <2>4. QED
    BY <2>1, <2>2, <2>3 DEF Next
<1>7. QED
  BY <1>3, <1>4, <1>5, <1>6

LEMMA WorkStep == ASSUME IInv, [Next]_vars PROVE WorkPlausible'
<1> USE DEF problemVars, scheduleVars
<1>1. TypeOK /\ RowPlausible /\ WorkPlausible /\ TypeOK'
  BY TypeStep DEF IInv
<1>2. ASSUME NEW s \in Schedules, Plausible(s, today, reviewed)
      PROVE  Plausible(s, today', reviewed')
  BY <1>2, TimePasses, PlausibleLater
<1>3. SUFFICES ASSUME NEW q \in Slots PROVE Plausible(work'[q], today', reviewed')
  BY DEF WorkPlausible
<1>4. work[q] \in Schedules /\ Plausible(work[q], today', reviewed')
  BY <1>1, <1>2 DEF WorkPlausible, TypeOK
<1>5. CASE work' = work
  BY <1>4, <1>5
<1>6. ASSUME NEW r \in Slots, Step(r) PROVE Plausible(work'[q], today', reviewed')
  <2>1. CASE Record(r) \/ Mark(r) \/ Panic(r) \/ Confirm(r)
    BY <1>4, <2>1 DEF Record, Mark, Panic, Confirm
  <2>2. CASE ReadSchedule(r)
    <3>1. work'[q] \in {row, work[q]}
      BY <1>1, <2>2 DEF ReadSchedule, TypeOK
    <3>2. Plausible(row, today', reviewed')
      BY <1>1, <1>2 DEF RowPlausible, TypeOK
    <3>3. QED
      BY <1>4, <3>1, <3>2
  <2>3. CASE Compute(r)
    <3> DEFINE n == Update(work[r], grade[r], today)
    <3>1. Plausible(n, today, reviewed \cup {today})
      BY <1>1, UpdatePlausible DEF WorkPlausible, TypeOK
    <3> HIDE DEF n
    <3>2. work'[q] \in {n, work[q]} /\ today' = today /\ reviewed' = reviewed \cup {today}
      BY <1>1, <2>3 DEF Compute, TypeOK, n
    <3>3. QED
      BY <1>4, <3>1, <3>2
  <2>4. CASE Upsert(r) \/ Fail(r)
    <3>1. work'[q] \in {NewSchedule, work[q]}
      BY <1>1, <2>4 DEF Upsert, Fail, Forget, TypeOK
    <3>2. Plausible(NewSchedule, today', reviewed')
      BY TimePasses, NewPlausible
    <3>3. QED
      BY <1>4, <3>1, <3>2
  <2>5. QED
    BY <1>6, <2>1, <2>2, <2>3, <2>4 DEF Step
<1>7. CASE \/ \E r \in Slots, g \in Grades : Begin(r, g)
           \/ \E s \in Grades : EditStatus(s)
           \/ EnsureSchedule \/ DeleteProblem \/ Midnight \/ UNCHANGED vars
  BY <1>5, <1>7 DEF Begin, EditStatus, EnsureSchedule, DeleteProblem, Midnight, vars
<1>8. QED
  BY <1>6, <1>7 DEF Next

LEMMA GradeStep == ASSUME IInv, [Next]_vars PROVE GradeGiven'
<1> USE DEF GradeGiven, problemVars, scheduleVars, Goto
<1>1. TypeOK /\ GradeGiven
  BY DEF IInv
<1>2. ASSUME NEW r \in Slots, Step(r) PROVE GradeGiven'
  <2>1. CASE Record(r) \/ Mark(r) \/ ReadSchedule(r) \/ Compute(r) \/ Panic(r) \/ Confirm(r)
    BY <1>1, <2>1 DEF Record, Mark, ReadSchedule, Compute, Panic, Confirm, TypeOK
  <2>2. CASE Upsert(r) \/ Fail(r)
    BY <1>1, <2>2 DEF Upsert, Fail, Forget, TypeOK
  <2>3. QED
    BY <1>2, <2>1, <2>2 DEF Step
<1>3. ASSUME NEW r \in Slots, NEW g \in Grades, Begin(r, g) PROVE GradeGiven'
  BY <1>1, <1>3 DEF Begin, TypeOK
<1>4. CASE \/ \E s \in Grades : EditStatus(s)
           \/ EnsureSchedule \/ DeleteProblem \/ Midnight \/ UNCHANGED vars
  BY <1>1, <1>4 DEF EditStatus, EnsureSchedule, DeleteProblem, Midnight, vars
<1>5. QED
  BY <1>2, <1>3, <1>4 DEF Next

LEMMA KnownStep == ASSUME IInv, [Next]_vars PROVE ReviewKnown'
<1> USE DEF ReviewKnown, problemVars, scheduleVars, Goto
<1>1. TypeOK /\ ReviewKnown
  BY DEF IInv
<1>2. ASSUME NEW r \in Slots, Step(r) PROVE ReviewKnown'
  <2>1. CASE Record(r) \/ Mark(r) \/ ReadSchedule(r) \/ Panic(r) \/ Confirm(r)
    BY <1>1, <2>1 DEF Record, Mark, ReadSchedule, Panic, Confirm, TypeOK
  <2>2. CASE Compute(r)
    <3> DEFINE n == Update(work[r], grade[r], today)
    <3>1. n.last = today /\ today # Never
      <4>1. n.last = today
        BY <1>1, UpdatePlausible DEF IInv, WorkPlausible, TypeOK
      <4>2. today # Never
        BY <1>1, DayAssumption DEF TypeOK, Days, Never
      <4>3. QED
        BY <4>1, <4>2
    <3> HIDE DEF n
    <3>2. /\ work' = [work EXCEPT ![r] = n] /\ pc' = [pc EXCEPT ![r] = "computed"]
          /\ UNCHANGED <<scheduled, row>>
      BY <2>2 DEF Compute, n
    <3>3. QED
      BY <1>1, <3>1, <3>2 DEF TypeOK
  <2>3. CASE Upsert(r)
    BY <1>1, <2>3 DEF Upsert, Forget, TypeOK
  <2>4. CASE Fail(r)
    BY <1>1, <2>4 DEF Fail, Forget, TypeOK
  <2>5. QED
    BY <1>2, <2>1, <2>2, <2>3, <2>4 DEF Step
<1>3. CASE \/ \E r \in Slots, g \in Grades : Begin(r, g)
           \/ \E s \in Grades : EditStatus(s)
           \/ EnsureSchedule \/ Midnight \/ UNCHANGED vars
  BY <1>1, <1>3 DEF Begin, EditStatus, EnsureSchedule, Midnight, vars, TypeOK
<1>4. CASE DeleteProblem
  BY <1>1, <1>4 DEF DeleteProblem, NewSchedule
<1>5. QED
  BY <1>2, <1>3, <1>4 DEF Next

LEMMA DeletionStep == ASSUME IInv, [Next]_vars PROVE NothingOutlivesProblem'
<1> USE DEF NothingOutlivesProblem, problemVars, scheduleVars
<1>1. NothingOutlivesProblem
  BY DEF IInv
<1>2. ASSUME NEW r \in Slots, Step(r) PROVE NothingOutlivesProblem'
  BY <1>1, <1>2 DEF Step, Record, Mark, ReadSchedule, Compute, Panic, Upsert, Referenced, Fail,
                    Confirm
<1>3. CASE \/ \E r \in Slots, g \in Grades : Begin(r, g)
           \/ \E s \in Grades : EditStatus(s)
           \/ EnsureSchedule \/ DeleteProblem \/ Midnight \/ UNCHANGED vars
  BY <1>1, <1>3 DEF Begin, EditStatus, EnsureSchedule, DeleteProblem, Midnight, vars
<1>4. QED
  BY <1>2, <1>3 DEF Next

LEMMA ForgottenStep ==
  ASSUME IInv, [Next]_vars, exists', row.last # Never
  PROVE  row'.last # Never
<1> USE DEF problemVars, scheduleVars
<1>1. TypeOK /\ ReviewKnown
  BY DEF IInv
<1>2. ASSUME NEW r \in Slots, Step(r) PROVE row'.last # Never
  <2>1. CASE Upsert(r)
    BY <1>1, <2>1 DEF Upsert, ReviewKnown, Goto
  <2>2. CASE row' = row
    BY <2>2
  <2>3. QED
    BY <1>2, <2>1, <2>2 DEF Step, Record, Mark, ReadSchedule, Compute, Panic, Fail, Confirm
<1>3. CASE EnsureSchedule
  BY <1>1, <1>3 DEF EnsureSchedule, KeptOrDefault, ReviewKnown
<1>4. CASE DeleteProblem
  BY <1>4 DEF DeleteProblem
<1>5. CASE \/ \E r \in Slots, g \in Grades : Begin(r, g)
           \/ \E s \in Grades : EditStatus(s)
           \/ Midnight \/ UNCHANGED vars
  BY <1>5 DEF Begin, EditStatus, Midnight, vars
<1>6. QED
  BY <1>2, <1>3, <1>4, <1>5 DEF Next

----------------------------------------------------------------------------
(* The inductive invariant: the type of every variable, and that the row   *)
(* and every schedule in work are plausible.                               *)
THEOREM ScheduleInvariant == Spec => []IInv
<1>1. IInv /\ [Next]_vars => IInv'
  BY TypeStep, GradeStep, RowStep, WorkStep, KnownStep, DeletionStep DEF IInv
<1>2. QED
  BY Initially, <1>1, PTL DEF Spec

(* Type correctness of the schedule of a problem.                          *)
THEOREM TypeCorrect == Spec => []TypeOK
<1>1. IInv => TypeOK
  BY DEF IInv
<1>2. QED
  BY ScheduleInvariant, <1>1, PTL

(* update_review_schedule advances a schedule at most once a day, also     *)
(* when attempts read it before and write it after one another.            *)
THEOREM AtMostOncePerDay == Spec => []RepsWithinDays
<1>1. IInv => RepsWithinDays
  BY DEF IInv, RowPlausible, Plausible, RepsWithinDays, ReviewedBy
<1>2. QED
  BY ScheduleInvariant, <1>1, PTL

(* The columns of the schedule belong together, and its intervals grow     *)
(* with its repetitions.                                                   *)
THEOREM RowWellFormed == Spec => []ScheduleWellFormed
<1>1. IInv => ScheduleWellFormed
  BY DEF IInv, RowPlausible, Plausible, ScheduleWellFormed
<1>2. QED
  BY ScheduleInvariant, <1>1, PTL

(* No attempt brings the schedule of a deleted problem back.               *)
THEOREM NoScheduleLeft == Spec => []NothingOutlivesProblem
<1>1. IInv => NothingOutlivesProblem
  BY DEF IInv
<1>2. QED
  BY ScheduleInvariant, <1>1, PTL

(* Neither ensure_initial_schedule nor a late attempt makes a reviewed     *)
(* problem a new one.                                                      *)
THEOREM ReviewsRemembered == Spec => ReviewsNotForgotten
<1>1. IInv /\ [Next]_vars => (exists' /\ row.last # Never => row'.last # Never)
  BY ForgottenStep
<1>2. IInv /\ [Next]_vars => [exists' /\ row.last # Never => row'.last # Never]_vars
  BY <1>1
<1>3. QED
  BY ScheduleInvariant, <1>2, PTL DEF Spec, ReviewsNotForgotten

----------------------------------------------------------------------------
(* What the same-day guard and the calendar mean for the rest of the row.  *)

(* The last review took place, and the ease factor has gained at most a    *)
(* tenth for each day with a review, however often "wrong" has reset the   *)
(* repetitions meanwhile.                                                  *)
Earned(s, R) ==
    /\ s.last # Never => s.last \in R
    /\ s.ease <= 250 + 10 * Cardinality({e \in R : e <= s.last})

RowEarned  == Earned(row, reviewed)
WorkEarned == \A r \in Slots : Earned(work[r], reviewed)

(* A date that is stored, or about to be, is a date of the calendar.       *)
DueOnCalendar  == row.last # Never => row.due <= LastDate
WorkOnCalendar == \A r \in Slots : pc[r] = "computed" => work[r].due <= LastDate

Merits == RowEarned /\ WorkEarned /\ DueOnCalendar /\ WorkOnCalendar

(* Merits are kept as reviews are added.                                   *)
LEMMA EarnedLater ==
  ASSUME NEW s \in Schedules, NEW R \in SUBSET Days, NEW S \in SUBSET Days, R \subseteq S,
         Earned(s, R)
  PROVE  Earned(s, S)
<1>1. s.last \in Int /\ s.ease \in Nat
  BY DayAssumption DEF Schedules, Days, Never
<1>2. s.last <= s.last
  BY <1>1
<1>3. Cardinality({e \in R : e <= s.last}) <= Cardinality({e \in S : e <= s.last})
  BY <1>1, <1>2, ReviewDaysGrow
<1>4. /\ Cardinality({e \in R : e <= s.last}) \in Nat
      /\ Cardinality({e \in S : e <= s.last}) \in Nat
  BY <1>1, ReviewDaysFinite
<1>5. QED
  BY <1>1, <1>3, <1>4 DEF Earned

(* A first review of the day may add a tenth, a further one adds nothing.  *)
LEMMA UpdateEarned ==
  ASSUME NEW s \in Schedules, NEW g, NEW t \in Days, NEW R \in SUBSET Days,
         Plausible(s, t, R), Earned(s, R)
  PROVE  Earned(Update(s, g, t), R \cup {t})
<1> DEFINE n == Update(s, g, t)
           before == Cardinality({e \in R : e <= s.last})
           after == Cardinality({e \in R \cup {t} : e <= t})
<1>1. t \in Int /\ s.last \in Int /\ s.ease \in Nat /\ R \cup {t} \in SUBSET Days /\ s.last <= t
  BY DayAssumption DEF Schedules, Days, Never, Plausible
<1>2. before \in Nat /\ after \in Nat
  BY <1>1, ReviewDaysFinite
<1>3. n.last = t
  BY UpdatePlausible
<1>4. n.ease <= 250 + 10 * after
  <2>1. s.ease <= 250 + 10 * before
    BY DEF Earned
  <2>2. CASE SameDay(s, t)
    <3>1. n.ease = s.ease
      BY <2>2 DEF Update, Refreshed, Schedules
    <3>2. before <= after
      BY <1>1, ReviewDaysGrow
    <3> HIDE DEF n, before, after
    <3>3. QED
      BY <1>1, <1>2, <2>1, <3>1, <3>2
  <2>3. CASE ~SameDay(s, t)
    <3>1. n.ease = IF g = "wrong" THEN s.ease ELSE NextEase(s, g)
      BY <2>3 DEF Update, Advanced
    <3>2. n.ease <= 130 \/ n.ease <= s.ease + 10
      BY <1>1, <3>1 DEF NextEase, AtLeast
    <3>3. s.last < t
      BY <1>1, <2>3 DEF SameDay
    <3>4. before + 1 <= after
      BY <1>1, <3>3, ReviewDaysAdd
    <3>5. n.ease \in Nat
      BY UpdatePlausible DEF Schedules
    <3> HIDE DEF n, before, after
    <3>6. QED
      BY <1>1, <1>2, <2>1, <3>2, <3>4, <3>5
  <2>4. QED
    BY <2>2, <2>3
<1> HIDE DEF n
<1>5. {e \in R \cup {t} : e <= n.last} = {e \in R \cup {t} : e <= t}
  BY <1>3
<1>6. QED
  BY <1>3, <1>4, <1>5 DEF Earned, n

(* An unreviewed row has the ease factor it starts with.                   *)
LEMMA NewEarned ==
  ASSUME NEW R \in SUBSET Days, NEW s, s.last = Never, s.ease = 250
  PROVE  Earned(s, R)
<1>1. Never \in Int
  BY DEF Never
<1>2. Cardinality({e \in R : e <= Never}) \in Nat
  BY <1>1, ReviewDaysFinite
<1>3. {e \in R : e <= s.last} = {e \in R : e <= Never}
  OBVIOUS
<1>4. QED
  BY <1>2, <1>3 DEF Earned

LEMMA MeritsInitially == Init => Merits
<1> SUFFICES ASSUME Init PROVE Merits
  OBVIOUS
<1>1. reviewed \in SUBSET Days /\ NewSchedule.last = Never /\ NewSchedule.ease = 250
  BY DEF Init, NewSchedule
<1>2. Earned(NewSchedule, reviewed)
  BY <1>1, NewEarned
<1>3. QED
  BY <1>1, <1>2 DEF Init, Merits, RowEarned, WorkEarned, DueOnCalendar, WorkOnCalendar

(* Where the row comes from: a schedule in work that has been computed, or *)
(* the defaults.                                                           *)
LEMMA RowComesFrom ==
  ASSUME [Next]_vars
  PROVE  \/ row' = row
         \/ row' \in {NewSchedule, [NewSchedule EXCEPT !.due = today]}
         \/ \E r \in Slots : pc[r] = "computed" /\ row' = work[r]
<1> USE DEF problemVars, scheduleVars, Goto
<1>1. ASSUME NEW r \in Slots, Step(r)
      PROVE  row' = row \/ (pc[r] = "computed" /\ row' = work[r])
  BY <1>1 DEF Step, Record, Mark, ReadSchedule, Compute, Panic, Upsert, Fail, Confirm
<1>2. CASE \/ \E r \in Slots, g \in Grades : Begin(r, g)
           \/ \E s \in Grades : EditStatus(s)
           \/ Midnight \/ UNCHANGED vars
  BY <1>2 DEF Begin, EditStatus, Midnight, vars
<1>3. CASE EnsureSchedule \/ DeleteProblem
  BY <1>3 DEF EnsureSchedule, KeptOrDefault, DeleteProblem
<1>4. QED
  BY <1>1, <1>2, <1>3 DEF Next

LEMMA RowMerits ==
  ASSUME IInv, Merits, [Next]_vars
  PROVE  RowEarned' /\ DueOnCalendar'
<1>1. TypeOK /\ reviewed \in SUBSET Days /\ reviewed' \in SUBSET Days /\ reviewed \subseteq reviewed'
  BY TimePasses DEF IInv
<1>2. CASE row' = row
  BY <1>1, <1>2, EarnedLater DEF Merits, RowEarned, DueOnCalendar, TypeOK
<1>3. CASE row' \in {NewSchedule, [NewSchedule EXCEPT !.due = today]}
  <2>1. row'.last = Never /\ row'.ease = 250
    BY <1>3 DEF NewSchedule
  <2>2. QED
    BY <1>1, <2>1, NewEarned DEF RowEarned, DueOnCalendar
<1>4. ASSUME NEW r \in Slots, pc[r] = "computed", row' = work[r]
      PROVE  RowEarned' /\ DueOnCalendar'
  <2>1. Earned(work[r], reviewed')
    BY <1>1, EarnedLater DEF Merits, WorkEarned, TypeOK
  <2>2. QED
    BY <1>4, <2>1 DEF Merits, RowEarned, DueOnCalendar, WorkOnCalendar
<1>5. QED
  BY <1>2, <1>3, <1>4, RowComesFrom

LEMMA WorkMerits ==
  ASSUME IInv, Merits, [Next]_vars
  PROVE  WorkEarned' /\ WorkOnCalendar'
<1> USE DEF problemVars, scheduleVars, Goto
<1>1. /\ TypeOK /\ TypeOK'
      /\ reviewed \in SUBSET Days /\ reviewed' \in SUBSET Days /\ reviewed \subseteq reviewed'
  BY TypeStep, TimePasses DEF IInv
<1>2. SUFFICES ASSUME NEW q \in Slots
               PROVE  /\ Earned(work'[q], reviewed')
                      /\ pc'[q] = "computed" => work'[q].due <= LastDate
  BY DEF WorkEarned, WorkOnCalendar
<1>3. Earned(work[q], reviewed') /\ (pc[q] = "computed" => work[q].due <= LastDate)
  BY <1>1, EarnedLater DEF Merits, WorkEarned, WorkOnCalendar, TypeOK
<1>4. CASE work'[q] = work[q] /\ (pc'[q] = "computed" => pc[q] = "computed")
  BY <1>3, <1>4
<1>5. CASE work'[q] \in {NewSchedule, row} /\ pc'[q] # "computed"
  <2>1. Earned(row, reviewed')
    BY <1>1, EarnedLater DEF Merits, RowEarned, TypeOK
  <2>2. Earned(NewSchedule, reviewed')
    BY <1>1, NewEarned DEF NewSchedule
  <2>3. QED
    BY <1>5, <2>1, <2>2
<1>6. CASE Compute(q)
  <2> DEFINE n == Update(work[q], grade[q], today)
  <2>1. Earned(n, reviewed \cup {today})
    BY <1>1, UpdateEarned DEF Merits, WorkEarned, IInv, WorkPlausible, TypeOK
  <2> HIDE DEF n
  <2>2. work'[q] = n /\ reviewed' = reviewed \cup {today} /\ n.due <= LastDate
    BY <1>1, <1>6 DEF Compute, TypeOK, n
  <2>3. QED
    BY <2>1, <2>2
<1>7. ASSUME NEW r \in Slots, Step(r), ~Compute(q)
      PROVE  \/ work'[q] = work[q] /\ (pc'[q] = "computed" => pc[q] = "computed")
             \/ work'[q] \in {NewSchedule, row} /\ pc'[q] # "computed"
  <2>1. CASE r # q
    BY <1>1, <1>7, <2>1 DEF Step, Record, Mark, ReadSchedule, Compute, Panic, Upsert, Fail, Confirm,
                            Forget, TypeOK
  <2>2. CASE r = q
    BY <1>1, <1>7, <2>2 DEF Step, Record, Mark, ReadSchedule, Panic, Upsert, Fail, Confirm,
                            Forget, TypeOK
  <2>3. QED
    BY <2>1, <2>2
<1>8. ASSUME \/ \E r \in Slots, g \in Grades : Begin(r, g)
             \/ \E s \in Grades : EditStatus(s)
             \/ EnsureSchedule \/ DeleteProblem \/ Midnight \/ UNCHANGED vars
      PROVE  work'[q] = work[q] /\ (pc'[q] = "computed" => pc[q] = "computed")
  BY <1>1, <1>8 DEF Begin, EditStatus, EnsureSchedule, DeleteProblem, Midnight, vars, TypeOK
<1>9. QED
  BY <1>4, <1>5, <1>6, <1>7, <1>8 DEF Next

(* With the invariant, merits are inductive.                               *)
THEOREM MeritsInvariant == Spec => []Merits
<1>1. Spec => []IInv
  BY ScheduleInvariant
<1>2. Init => Merits
  BY MeritsInitially
<1>3. IInv /\ Merits /\ [Next]_vars => Merits'
  BY RowMerits, WorkMerits DEF Merits
<1>4. QED
  BY <1>1, <1>2, <1>3, PTL DEF Spec

(* Stale and repeated attempts cannot inflate the ease factor either: it   *)
(* is at most 2.50 and a tenth for each day with a review                  *)
(* (calculate_sm2_next_review behind the same-day guard).                  *)
THEOREM EaseIsEarned == Spec => []RowEarned
BY MeritsInvariant, PTL DEF Merits

(* Although nothing bounds the interval, the date in the row is one of the *)
(* calendar: the attempt that would leave it panics before it writes       *)
(* (calculate_review_schedule_update).                                     *)
THEOREM DatesExist == Spec => []DueOnCalendar
BY MeritsInvariant, PTL DEF Merits
=============================================================================
