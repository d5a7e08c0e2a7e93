\* Two overlapping attempts over three days.
SPECIFICATION Spec
CONSTANTS
    Slots = {r1, r2}
    Grades = {"wrong", "needs_review", "mastered"}
    NoGrade = NoGrade
    MaxDay = 2
    LastDate = 9
INVARIANTS TypeOK RepsWithinDays ScheduleWellFormed NothingOutlivesProblem
PROPERTY ReviewsNotForgotten
CHECK_DEADLOCK FALSE
