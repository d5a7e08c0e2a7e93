------------------------ MODULE ReviewSessionProofs ------------------------
(***************************************************************************)
(* Proofs about ReviewSession, for any number of problems, pages and       *)
(* requests. The invariants of the runs are proved from IInv, which adds   *)
(* what the requests in flight know: while no two requests have overlapped *)
(* the one that writes holds the current marks, and every problem before   *)
(* the one a page shows or a request reports of is covered: seen by the    *)
(* session, or let pass unseen.                                            *)
(***************************************************************************)
EXTENDS ReviewSession, TLAPS

(* A request is waited for only by an open page and only while it lasts;   *)
(* a page that is closed remembers nothing.                                *)
WaitedFor ==
    /\ \A r \in Requests : /\ req[r].from # NoTab => page[req[r].from].open
                           /\ req[r].stage = "idle" => req[r] = Idle
                           /\ Writing(r) => req[r].kind \in Reports
    /\ \A t \in Tabs : ~page[t].open => page[t] = Closed

(* What a request has read is recorded, and so is its report once its row  *)
(* is in.                                                                  *)
RequestsRecorded ==
    \A r \in Requests :
        /\ Writing(r) => Recorded(req[r].copy)
        /\ req[r].stage \in {"inserted", "done"} /\ req[r].kind \in Reports =>
               <<req[r].at, req[r].kind>> \in results

(* Without overlaps one request writes at a time, and it holds the marks.  *)
WriterCurrent ==
    ~overlapped => \A r \in Requests : Writing(r) =>
        /\ req[r].copy = marks
        /\ \A s \in Requests : Writing(s) => s = r

(* Without overlaps a report that is done is in the marks.                 *)
DoneIsKept ==
    ~overlapped => \A r \in Requests : req[r].stage = "done" =>
        /\ req[r].kind = "answer" => req[r].at \in marks.completed
        /\ req[r].kind = "skip" => req[r].at \in marks.skipped

(* A problem is covered when the session has seen it, or a page was let    *)
(* past it unseen.                                                         *)
Covered(p)       == p \in Seen(marks) \cup passed
CoveredBefore(p) == \A q \in Positions : q < p => Covered(q)

(* Without overlaps, pages and requests stand behind covered problems.     *)
PagesStandOnCovered ==
    ~overlapped => \A t \in Tabs : /\ CoveredBefore(page[t].pos)
                                   /\ page[t].ready => Covered(page[t].pos)

ReportsStandOnCovered ==
    ~overlapped => \A r \in Requests : req[r].stage # "idle" /\ req[r].kind \in Reports =>
        CoveredBefore(req[r].at)

CompletionsCover ==
    ~overlapped => \A r \in Requests : req[r].stage # "idle" /\ req[r].kind = "complete" =>
        \A p \in Positions : Covered(p)

IInv == /\ TypeOK /\ WaitedFor
        /\ ClaimsAreRecorded /\ RequestsRecorded
        /\ WriterCurrent /\ DoneIsKept /\ ShownIsKept
        /\ PagesStandOnCovered /\ ReportsStandOnCovered /\ CompletionsCover
        /\ ResumePassesNothing /\ FinishedIsCovered

----------------------------------------------------------------------------
(* Types. *)

LEMMA Constants ==
    /\ 0 \in Positions /\ Last \in Positions
    /\ \A p \in Positions : p \in Int /\ 0 <= p /\ p <= Last
    /\ NoMarks \in Marks /\ Closed \in Pages /\ Idle \in Slots
BY SizeAssumption DEF Positions, Last, NoMarks, Marks, Closed, Pages, Idle, Slots, Reports

LEMMA NextIndexType ==
    ASSUME NEW p \in Positions, NEW k
    PROVE  NextIndex(p, k) \in Positions
BY SizeAssumption DEF NextIndex, Positions, Last

LEMMA MarksType ==
    ASSUME NEW m \in Marks, NEW p \in Positions, NEW k
    PROVE  Push(m, p, k) \in Marks /\ Reflect(m, p, k) \in Marks
BY DEF Marks, Push, Reflect

(* What the marks and the pages become, field by field. *)
LEMMA PushIs ==
    ASSUME NEW m \in Marks, NEW p \in Positions, NEW k \in Reports
    PROVE  /\ k = "answer" => /\ Push(m, p, k).completed = m.completed \cup {p}
                              /\ Push(m, p, k).skipped = m.skipped
           /\ k = "skip" => /\ Push(m, p, k).completed = m.completed
                            /\ Push(m, p, k).skipped = m.skipped \cup {p}
           /\ k = "exit" => Push(m, p, k) = m
BY DEF Marks, Push, Reports

LEMMA ReflectIs ==
    ASSUME NEW m \in Marks, NEW p \in Positions, NEW k \in {"answer", "skip"}
    PROVE  /\ k = "answer" => /\ Reflect(m, p, k).completed = m.completed \cup {p}
                              /\ Reflect(m, p, k).skipped = m.skipped \ {p}
           /\ k = "skip" => /\ Reflect(m, p, k).completed = m.completed
                            /\ Reflect(m, p, k).skipped = m.skipped \cup {p}
BY DEF Marks, Reflect

LEMMA ShowingIs ==
    ASSUME NEW g \in Pages, NEW p \in Positions, NEW m \in Marks
    PROVE  /\ Showing(g, p, m) \in Pages
           /\ Showing(g, p, m).open = g.open
           /\ Showing(g, p, m).pos = p
           /\ Showing(g, p, m).ready <=> p \in m.completed
           /\ Showing(g, p, m).mirror = m
<1> DEFINE b == p \in m.completed
<1>1. b \in BOOLEAN
  OBVIOUS
<1>2. Showing(g, p, m) = [g EXCEPT !.pos = p, !.ready = b, !.mirror = m]
  BY DEF Showing
<1>3. b <=> p \in m.completed
  OBVIOUS
<1> HIDE DEF b
<1>4. QED
  BY <1>1, <1>2, <1>3 DEF Pages

LEMMA CompletionType ==
    ASSUME NEW t \in Tabs \cup {NoTab}
    PROVE  Completion(t) \in Slots
BY Constants DEF Completion, Idle, Slots

LEMMA OrphanedType ==
    ASSUME TypeOK, NEW t
    PROVE  Orphaned(t) \in [Requests -> Slots]
BY DEF Orphaned, TypeOK, Slots

LEMMA UnawaitedType ==
    ASSUME TypeOK, NEW r \in Requests
    PROVE  Unawaited(r) \in [Requests -> Slots]
BY DEF Unawaited, TypeOK, Slots

(* TypeOK for every value of the constants. *)
LEMMA TypeStep ==
    ASSUME TypeOK, WaitedFor, [Next]_vars
    PROVE  TypeOK'
<1> USE Constants DEF TypeOK, serverVars, historyVars
<1>1. ASSUME NEW t \in Tabs, PageStep(t) PROVE TypeOK'
  <2>1. CASE Load(t)
    <3>1. [page[t] EXCEPT !.open = TRUE] \in Pages
      BY DEF Pages
    <3>2. QED
      BY <2>1, <3>1, ShowingIs DEF Load
  <2>2. CASE NextProblem(t)
    <3>1. page[t].pos + 1 \in Positions /\ page[t].mirror \in Marks
      BY <2>2 DEF NextProblem, Pages, Positions, Last
    <3>2. QED
      BY <2>2, <3>1, ShowingIs DEF NextProblem
  <2>3. CASE Previous(t)
    <3>1. page[t].pos - 1 \in Positions /\ page[t].mirror \in Marks
      BY <2>3 DEF Previous, Pages, Positions, Last
    <3>2. QED
      BY <2>3, <3>1, ShowingIs DEF Previous
  <2>4. CASE Close(t)
    BY <2>4, OrphanedType DEF Close
  <2>5. ASSUME NEW r \in Requests, NEW k \in Reports \cup {"save", "complete"}, Send(t, r, k)
        PROVE  TypeOK'
    <3>1. [Idle EXCEPT !.stage = "sent", !.from = t, !.kind = k, !.at = page[t].pos] \in Slots
      BY DEF Idle, Slots, Pages
    <3>2. QED
      BY <2>5, <3>1, SentAssumption DEF Send
  <2>6. QED
    BY <1>1, <2>1, <2>2, <2>3, <2>4, <2>5 DEF PageStep, Answer, Resave, Skip, Exit, Finish, Reports
<1>2. ASSUME NEW r \in Requests, ServerStep(r) PROVE TypeOK'
  <2>0. req[r] \in Slots /\ req[r].at \in Positions /\ req[r].copy \in Marks
    BY DEF Slots
  <2>1. CASE Fetch(r)
    BY <2>1 DEF Fetch, Slots
  <2>2. CASE InsertResult(r)
    <3>1. req[r].kind \in Reports
      BY <2>2 DEF InsertResult, WaitedFor, Writing
    <3>2. QED
      BY <2>2, <2>0, <3>1 DEF InsertResult, Slots
  <2>3. CASE UpdateSession(r)
    BY <2>3, <2>0, NextIndexType, MarksType DEF UpdateSession, Slots
  <2>4. CASE CompleteSession(r)
    BY <2>4 DEF CompleteSession, Slots
  <2>5. QED
    BY <1>2, <2>1, <2>2, <2>3, <2>4 DEF ServerStep
<1>3. ASSUME NEW r \in Requests, EndStep(r) PROVE TypeOK'
  <2>0. /\ req[r].at \in Positions /\ req[r].from \in Tabs \cup {NoTab}
        /\ \A t \in Tabs : page[t] \in Pages /\ page[t].pos \in Positions /\ page[t].mirror \in Marks
    BY DEF Slots, Pages
  <2>1. CASE Acknowledge(r)
    <3>1. req[r].from \in Tabs /\ (req[r].kind = "skip" => req[r].at + 1 \in Positions)
      BY <2>1, <2>0 DEF Acknowledge, Awaited, LastSkip, Positions, Last
    <3>2. QED
      BY <2>1, <2>0, <3>1, ShowingIs, MarksType DEF Acknowledge
  <2>2. CASE AcknowledgeLastSkip(r)
    BY <2>2, <2>0, ShowingIs, MarksType, CompletionType DEF AcknowledgeLastSkip
  <2>3. CASE LeaveSession(r)
    BY <2>3, <2>0, OrphanedType DEF LeaveSession, Awaited
  <2>4. CASE FailAnswer(r)
    BY <2>4, <2>0, UnawaitedType DEF FailAnswer, Awaited, Unseen, Pages
  <2>5. CASE FailSkip(r)
    <3>1. req[r].from \in Tabs /\ req[r].at + 1 \in Positions
      BY <2>5, <2>0 DEF FailSkip, Awaited, LastSkip, Positions, Last
    <3>2. QED
      BY <2>5, <2>0, <3>1, ShowingIs, UnawaitedType DEF FailSkip, Unseen
  <2>6. ASSUME NEW s \in Requests, FailLastSkip(r, s) PROVE TypeOK'
    BY <2>6, <2>0, UnawaitedType, CompletionType DEF FailLastSkip, Unseen
  <2>7. CASE FailExit(r)
    BY <2>7, <2>0, OrphanedType DEF FailExit, Awaited
  <2>8. CASE FailComplete(r)
    BY <2>8, UnawaitedType DEF FailComplete
  <2>9. CASE Forget(r)
    BY <2>9 DEF Forget
  <2>10. CASE SavedAgain(r)
    BY <2>10, <2>0 DEF SavedAgain, Awaited, Unseen, Pages
  <2>11. CASE FailSave(r)
    BY <2>11 DEF FailSave
  <2>12. QED
    BY <1>3, <2>1, <2>2, <2>3, <2>4, <2>5, <2>6, <2>7, <2>8, <2>9, <2>10, <2>11 DEF EndStep
<1>4. CASE UNCHANGED vars
  BY <1>4 DEF vars
<1>5. QED
  BY <1>1, <1>2, <1>3, <1>4 DEF Next

----------------------------------------------------------------------------
(* What each action makes of the pages and of the requests. *)
LEMMA OrphanedIs ==
    ASSUME TypeOK, NEW t \in Tabs, NEW s \in Requests
    PROVE  /\ Orphaned(t)[s].stage = req[s].stage /\ Orphaned(t)[s].kind = req[s].kind
           /\ Orphaned(t)[s].at = req[s].at /\ Orphaned(t)[s].copy = req[s].copy
           /\ req[s].from = t => Orphaned(t)[s].from = NoTab
           /\ req[s].from # t => Orphaned(t)[s] = req[s]
BY DEF Orphaned, TypeOK, Slots

(* Page t shows problem p with mirror m, and the other pages are as before. *)
Shows(t, p, m) ==
    /\ page'[t].open
    /\ page'[t].pos = p
    /\ page'[t].ready <=> p \in m.completed
    /\ page'[t].mirror = m
    /\ \A u \in Tabs \ {t} : page'[u] = page[u]

LEMMA ShowsIs ==
    ASSUME TypeOK, NEW t \in Tabs, NEW g \in Pages, g.open,
           NEW p \in Positions, NEW m \in Marks,
           page' = [page EXCEPT ![t] = Showing(g, p, m)]
    PROVE  Shows(t, p, m)
<1>1. page'[t] = Showing(g, p, m) /\ \A u \in Tabs \ {t} : page'[u] = page[u]
  BY DEF TypeOK
<1>2. QED
  BY <1>1, ShowingIs DEF Shows

LEMMA LoadShows ==
    ASSUME TypeOK, NEW t \in Tabs, Load(t)
    PROVE  Shows(t, index, marks)
<1>1. [page[t] EXCEPT !.open = TRUE] \in Pages /\ [page[t] EXCEPT !.open = TRUE].open
  BY DEF TypeOK, Pages
<1>2. QED
  BY <1>1, ShowsIs DEF Load, TypeOK

LEMMA MoveShows ==
    ASSUME TypeOK, NEW t \in Tabs
    PROVE  /\ NextProblem(t) => /\ page[t].pos + 1 \in Positions
                                /\ Shows(t, page[t].pos + 1, page[t].mirror)
           /\ Previous(t) => /\ page[t].pos - 1 \in Positions
                             /\ Shows(t, page[t].pos - 1, page[t].mirror)
<1>1. page[t] \in Pages /\ page[t].pos \in Positions /\ page[t].mirror \in Marks
  BY DEF TypeOK, Pages
<1>2. /\ NextProblem(t) => page[t].pos + 1 \in Positions
      /\ Previous(t) => page[t].pos - 1 \in Positions
  BY <1>1, Constants DEF NextProblem, Previous, Positions, Last
<1>3. QED
  BY <1>1, <1>2, ShowsIs DEF NextProblem, Previous

LEMMA AcknowledgeShows ==
    ASSUME TypeOK, WaitedFor, NEW r \in Requests, Acknowledge(r)
    PROVE  /\ req[r].from \in Tabs
           /\ req[r].kind = "skip" => /\ req[r].at + 1 \in Positions
                                      /\ Shows(req[r].from, req[r].at + 1,
                                               Reflect(page[req[r].from].mirror, req[r].at, "skip"))
           /\ req[r].kind # "skip" =>
                  Shows(req[r].from, page[req[r].from].pos,
                        Reflect(page[req[r].from].mirror, req[r].at, req[r].kind))
<1>1. req[r].from \in Tabs /\ req[r].at \in Positions /\ page[req[r].from].open
  BY DEF TypeOK, Slots, Acknowledge, Awaited, WaitedFor
<1>2. /\ page[req[r].from] \in Pages /\ page[req[r].from].pos \in Positions
      /\ page[req[r].from].mirror \in Marks
  BY <1>1 DEF TypeOK, Pages
<1>3. Reflect(page[req[r].from].mirror, req[r].at, req[r].kind) \in Marks
  BY <1>1, <1>2, MarksType
<1>4. req[r].kind = "skip" => req[r].at + 1 \in Positions
  BY <1>1, Constants DEF Acknowledge, LastSkip, Positions, Last
<1>5. CASE req[r].kind = "skip"
  BY <1>1, <1>2, <1>3, <1>4, <1>5, ShowsIs DEF Acknowledge
<1>6. CASE req[r].kind # "skip"
  BY <1>1, <1>2, <1>3, <1>6, ShowsIs DEF Acknowledge
<1>7. QED
  BY <1>1, <1>4, <1>5, <1>6

LEMMA AcknowledgeLastSkipShows ==
    ASSUME TypeOK, WaitedFor, NEW r \in Requests, AcknowledgeLastSkip(r)
    PROVE  /\ req[r].from = NoTab => page' = page
           /\ req[r].from # NoTab =>
                 /\ req[r].from \in Tabs
                 /\ Shows(req[r].from, page[req[r].from].pos,
                          Reflect(page[req[r].from].mirror, Last, "skip"))
<1>1. CASE req[r].from # NoTab
  <2>1. req[r].from \in Tabs /\ page[req[r].from].open
    BY <1>1 DEF TypeOK, Slots, WaitedFor
  <2>2. /\ page[req[r].from] \in Pages /\ page[req[r].from].pos \in Positions
        /\ page[req[r].from].mirror \in Marks
    BY <2>1 DEF TypeOK, Pages
  <2>3. Reflect(page[req[r].from].mirror, Last, "skip") \in Marks
    BY <2>2, MarksType, Constants
  <2>4. QED
    BY <1>1, <2>1, <2>2, <2>3, ShowsIs DEF AcknowledgeLastSkip
<1>2. QED
  BY <1>1 DEF AcknowledgeLastSkip

LEMMA FailShows ==
    ASSUME TypeOK, WaitedFor, NEW r \in Requests,
           FailAnswer(r) \/ SavedAgain(r) \/ FailSkip(r)
    PROVE  /\ req[r].from \in Tabs
           /\ \A u \in Tabs : (page'[u].open <=> page[u].open) /\ page'[u].mirror = page[u].mirror
           /\ \A u \in Tabs \ {req[r].from} : page'[u] = page[u]
<1>1. req[r].from \in Tabs /\ req[r].at \in Positions /\ page[req[r].from].open
  BY DEF TypeOK, Slots, FailAnswer, SavedAgain, FailSkip, Awaited, WaitedFor
<1>2. /\ page[req[r].from] \in Pages /\ page[req[r].from].mirror \in Marks
  BY <1>1 DEF TypeOK, Pages
<1>3. CASE FailAnswer(r) \/ SavedAgain(r)
  BY <1>1, <1>2, <1>3 DEF FailAnswer, SavedAgain, TypeOK, Pages
<1>4. CASE FailSkip(r)
  <2>1. req[r].at + 1 \in Positions
    BY <1>1, <1>4, Constants DEF FailSkip, LastSkip, Awaited, Positions, Last
  <2>2. CASE page[req[r].from].pos = req[r].at + 1
    BY <1>1, <1>4, <2>2 DEF FailSkip, TypeOK
  <2>3. CASE page[req[r].from].pos # req[r].at + 1
    <3>1. page' = [page EXCEPT ![req[r].from] =
                     Showing(page[req[r].from], req[r].at + 1, page[req[r].from].mirror)]
      BY <1>4, <2>3 DEF FailSkip
    <3>2. Shows(req[r].from, req[r].at + 1, page[req[r].from].mirror)
      BY <1>1, <1>2, <2>1, <3>1, ShowsIs
    <3>3. QED
      BY <1>1, <3>2 DEF Shows
  <2>4. QED
    BY <2>2, <2>3
<1>5. QED
  BY <1>1, <1>3, <1>4

----------------------------------------------------------------------------
(* Who waits for what. *)
LEMMA WaitAfterLeave ==
    ASSUME TypeOK, WaitedFor, NEW t \in Tabs,
           page' = [page EXCEPT ![t] = Closed],
           \A s \in Requests : req'[s] = Idle \/ req'[s] = Orphaned(t)[s]
    PROVE  WaitedFor'
<1>1. ASSUME NEW s \in Requests
      PROVE  /\ req'[s].from # NoTab => page'[req'[s].from].open
             /\ req'[s].stage = "idle" => req'[s] = Idle
             /\ req'[s].stage \in {"read", "inserted"} => req'[s].kind \in Reports
  <2>1. CASE req'[s] = Idle
    BY <2>1 DEF Idle
  <2>2. CASE req[s].from = t /\ req'[s] = Orphaned(t)[s]
    BY <2>2, OrphanedIs, TabsAssumption DEF WaitedFor, Idle, Writing
  <2>3. CASE req[s].from # t /\ req'[s] = req[s]
    BY <2>3 DEF WaitedFor, Idle, Writing, TypeOK, Slots
  <2>4. QED
    BY <1>1, <2>1, <2>2, <2>3, OrphanedIs
<1>2. ASSUME NEW u \in Tabs, ~page'[u].open
      PROVE  page'[u] = Closed
  BY <1>2 DEF WaitedFor, TypeOK
<1>3. QED
  BY <1>1, <1>2 DEF WaitedFor, Writing

LEMMA WaitStep ==
    ASSUME TypeOK, WaitedFor, [Next]_vars
    PROVE  WaitedFor'
<1> USE TabsAssumption DEF WaitedFor, TypeOK, Writing, Reports
<1>1. ASSUME NEW t \in Tabs, PageStep(t) PROVE WaitedFor'
  <2>1. CASE Load(t)
    BY <2>1, LoadShows DEF Load, Shows, Slots
  <2>2. CASE NextProblem(t)
    BY <2>2, MoveShows DEF NextProblem, Shows, Slots
  <2>3. CASE Previous(t)
    BY <2>3, MoveShows DEF Previous, Shows, Slots
  <2>4. CASE Close(t)
    BY <2>4, WaitAfterLeave DEF Close
  <2>5. ASSUME NEW r \in Requests, NEW k \in Reports \cup {"save", "complete"}, Send(t, r, k)
        PROVE  WaitedFor'
    BY <2>5 DEF Send, Idle, Slots
  <2>6. QED
    BY <1>1, <2>1, <2>2, <2>3, <2>4, <2>5 DEF PageStep, Answer, Resave, Skip, Exit, Finish
<1>2. ASSUME NEW r \in Requests, ServerStep(r) PROVE WaitedFor'
  <2>1. CASE Fetch(r)
    BY <2>1 DEF Fetch, Slots, Idle
  <2>2. CASE InsertResult(r)
    BY <2>2 DEF InsertResult, Slots, Idle
  <2>3. CASE UpdateSession(r)
    BY <2>3 DEF UpdateSession, Slots, Idle
  <2>4. CASE CompleteSession(r)
    BY <2>4 DEF CompleteSession, Slots, Idle
  <2>5. QED
    BY <1>2, <2>1, <2>2, <2>3, <2>4 DEF ServerStep
<1>3. ASSUME NEW r \in Requests, EndStep(r) PROVE WaitedFor'
  <2>1. CASE Acknowledge(r)
    <3>1. /\ req[r].from \in Tabs /\ page'[req[r].from].open
          /\ \A u \in Tabs \ {req[r].from} : page'[u] = page[u]
      BY <2>1, AcknowledgeShows DEF Shows
    <3>2. QED
      BY <2>1, <3>1 DEF Acknowledge, Slots, Idle
  <2>2. CASE AcknowledgeLastSkip(r)
    <3>1. \A u \in Tabs : page'[u] = page[u] \/ (u = req[r].from /\ page'[u].open)
      BY <2>2, AcknowledgeLastSkipShows DEF Shows
    <3>2. QED
      BY <2>2, <3>1 DEF AcknowledgeLastSkip, Completion, Slots, Idle
  <2>3. CASE LeaveSession(r)
    <3>1. req[r].from \in Tabs
      BY <2>3 DEF LeaveSession, Awaited, Slots
    <3>2. \A s \in Requests \ {r} : req'[s] = Orphaned(req[r].from)[s]
      BY <2>3, <3>1, OrphanedType DEF LeaveSession
    <3>3. req'[r] = Idle
      BY <2>3, <3>1, OrphanedType DEF LeaveSession
    <3>4. QED
      BY <2>3, <3>1, <3>2, <3>3, WaitAfterLeave DEF LeaveSession
  <2>4. CASE FailAnswer(r)
    BY <2>4, FailShows DEF FailAnswer, Awaited, Unawaited, Slots, Idle
  <2>5. CASE FailSkip(r)
    <3>1. req' = Unawaited(r)
      BY <2>5 DEF FailSkip
    <3>2. QED
      BY <2>5, <3>1, FailShows DEF Unawaited, Slots, Idle
  <2>6. ASSUME NEW s \in Requests, FailLastSkip(r, s) PROVE WaitedFor'
    BY <2>6 DEF FailLastSkip, Unawaited, LastSkip, Completion, Slots, Idle
  <2>7. CASE FailExit(r)
    <3>1. req[r].from \in Tabs
      BY <2>7 DEF FailExit, Awaited, Slots
    <3>2. QED
      BY <2>7, <3>1, WaitAfterLeave DEF FailExit
  <2>8. CASE FailComplete(r)
    BY <2>8 DEF FailComplete, Awaited, Unawaited, Slots, Idle
  <2>9. CASE Forget(r)
    BY <2>9 DEF Forget, Idle
  <2>10. CASE SavedAgain(r)
    BY <2>10, FailShows DEF SavedAgain, Slots, Idle
  <2>11. CASE FailSave(r)
    BY <2>11 DEF FailSave, Idle
  <2>12. QED
    BY <1>3, <2>1, <2>2, <2>3, <2>4, <2>5, <2>6, <2>7, <2>8, <2>9, <2>10, <2>11 DEF EndStep
<1>4. CASE UNCHANGED vars
  BY <1>4 DEF vars
<1>5. QED
  BY <1>1, <1>2, <1>3, <1>4 DEF Next

----------------------------------------------------------------------------
(* What is claimed is recorded. *)
LEMMA NoMarksRecorded == Recorded(NoMarks)
BY DEF Recorded, NoMarks

LEMMA ReflectRecorded ==
    ASSUME NEW m \in Marks, NEW p \in Positions, NEW k \in {"answer", "skip"},
           Recorded(m), <<p, k>> \in results
    PROVE  Recorded(Reflect(m, p, k))
BY ReflectIs DEF Recorded

LEMMA PushRecorded ==
    ASSUME NEW m \in Marks, NEW p \in Positions, NEW k \in Reports,
           Recorded(m), <<p, k>> \in results
    PROVE  Recorded(Push(m, p, k))
BY PushIs DEF Recorded, Reports

LEMMA RecordStep ==
    ASSUME TypeOK, WaitedFor, ClaimsAreRecorded, RequestsRecorded, [Next]_vars
    PROVE  (ClaimsAreRecorded /\ RequestsRecorded)'
<1> USE DEF TypeOK, Writing, serverVars, historyVars
<1>0. \A r \in Requests : req[r].at \in Positions /\ req[r].copy \in Marks
                          /\ req[r].kind \in Reports \cup {"save", "complete"}
                          /\ req[r].from \in Tabs \cup {NoTab}
  BY DEF Slots
<1>1. ASSUME NEW t \in Tabs, PageStep(t) PROVE (ClaimsAreRecorded /\ RequestsRecorded)'
  <2>1. CASE Load(t)
    <3>1. \A u \in Tabs : page'[u].mirror = page[u].mirror \/ page'[u].mirror = marks
      BY <2>1, LoadShows DEF Shows
    <3>2. ClaimsAreRecorded'
      BY <2>1, <3>1 DEF Load, ClaimsAreRecorded, Recorded
    <3>3. RequestsRecorded'
      BY <2>1 DEF Load, RequestsRecorded, Recorded
    <3>4. QED
      BY <3>2, <3>3
  <2>2. CASE NextProblem(t) \/ Previous(t)
    <3>1. \A u \in Tabs : page'[u].mirror = page[u].mirror
      BY <2>2, MoveShows DEF Shows
    <3>2. QED
      BY <2>2, <3>1 DEF NextProblem, Previous, ClaimsAreRecorded, RequestsRecorded, Recorded
  <2>3. CASE Close(t)
    <3>1. \A u \in Tabs : page'[u].mirror = page[u].mirror \/ page'[u].mirror = NoMarks
      BY <2>3 DEF Close, Closed
    <3>2. ClaimsAreRecorded'
      BY <2>3, <3>1 DEF Close, ClaimsAreRecorded, Recorded, NoMarks
    <3>3. RequestsRecorded'
      BY <2>3, OrphanedIs DEF Close, RequestsRecorded, Recorded
    <3>4. QED
      BY <3>2, <3>3
  <2>4. ASSUME NEW r \in Requests, NEW k \in Reports \cup {"save", "complete"}, Send(t, r, k)
        PROVE  (ClaimsAreRecorded /\ RequestsRecorded)'
    BY <2>4 DEF Send, Idle, ClaimsAreRecorded, RequestsRecorded, Recorded
  <2>5. QED
    BY <1>1, <2>1, <2>2, <2>3, <2>4 DEF PageStep, Answer, Resave, Skip, Exit, Finish, Reports
<1>2. ASSUME NEW r \in Requests, ServerStep(r) PROVE (ClaimsAreRecorded /\ RequestsRecorded)'
  <2>1. CASE Fetch(r)
    BY <2>1 DEF Fetch, Slots, ClaimsAreRecorded, RequestsRecorded, Recorded
  <2>2. CASE InsertResult(r)
    BY <2>2 DEF InsertResult, Slots, ClaimsAreRecorded, RequestsRecorded, Recorded
  <2>3. CASE UpdateSession(r)
    <3>1. req[r].kind \in Reports /\ Recorded(req[r].copy) /\ <<req[r].at, req[r].kind>> \in results
      BY <2>3 DEF UpdateSession, WaitedFor, RequestsRecorded
    <3>2. Recorded(marks')
      BY <2>3, <1>0, <3>1, PushRecorded DEF UpdateSession
    <3>3. ClaimsAreRecorded'
      BY <2>3, <3>2 DEF UpdateSession, ClaimsAreRecorded, Recorded
    <3>4. RequestsRecorded'
      BY <2>3, <3>1 DEF UpdateSession, Slots, RequestsRecorded, Recorded
    <3>5. QED
      BY <3>3, <3>4
  <2>4. CASE CompleteSession(r)
    BY <2>4 DEF CompleteSession, Slots, ClaimsAreRecorded, RequestsRecorded, Recorded, Reports
  <2>5. QED
    BY <1>2, <2>1, <2>2, <2>3, <2>4 DEF ServerStep
<1>3. ASSUME NEW r \in Requests, EndStep(r) PROVE (ClaimsAreRecorded /\ RequestsRecorded)'
  <2>1. CASE Acknowledge(r)
    <3>1. /\ req[r].from \in Tabs /\ req[r].kind \in {"answer", "skip"}
          /\ page'[req[r].from].mirror = Reflect(page[req[r].from].mirror, req[r].at, req[r].kind)
          /\ \A u \in Tabs \ {req[r].from} : page'[u] = page[u]
      BY <2>1, AcknowledgeShows DEF Acknowledge, Awaited, Shows
    <3>2. <<req[r].at, req[r].kind>> \in results /\ page[req[r].from].mirror \in Marks
      BY <2>1, <3>1 DEF Acknowledge, RequestsRecorded, Reports, Pages
    <3>3. Recorded(page'[req[r].from].mirror)
      BY <1>0, <3>1, <3>2, ReflectRecorded DEF ClaimsAreRecorded
    <3>4. ClaimsAreRecorded'
      BY <2>1, <3>1, <3>3 DEF Acknowledge, ClaimsAreRecorded, Recorded
    <3>5. RequestsRecorded'
      BY <2>1 DEF Acknowledge, Idle, RequestsRecorded, Recorded
    <3>6. QED
      BY <3>4, <3>5
  <2>2. CASE AcknowledgeLastSkip(r)
    <3>1. <<Last, "skip">> \in results
      BY <2>2 DEF AcknowledgeLastSkip, LastSkip, RequestsRecorded, Reports
    <3>2. \A u \in Tabs : page'[u].mirror = page[u].mirror \/ Recorded(page'[u].mirror)
      <4>1. CASE req[r].from = NoTab
        BY <2>2, <4>1, AcknowledgeLastSkipShows
      <4>2. CASE req[r].from # NoTab
        <5>1. /\ req[r].from \in Tabs
              /\ page'[req[r].from].mirror = Reflect(page[req[r].from].mirror, Last, "skip")
              /\ \A u \in Tabs \ {req[r].from} : page'[u] = page[u]
          BY <2>2, <4>2, AcknowledgeLastSkipShows DEF Shows
        <5>2. page[req[r].from].mirror \in Marks
          BY <5>1 DEF Pages
        <5>3. Recorded(page'[req[r].from].mirror)
          BY <3>1, <5>1, <5>2, ReflectRecorded, Constants DEF ClaimsAreRecorded
        <5>4. QED
          BY <5>1, <5>3
      <4>3. QED
        BY <4>1, <4>2
    <3>3. ClaimsAreRecorded'
      BY <2>2, <3>2 DEF AcknowledgeLastSkip, ClaimsAreRecorded, Recorded
    <3>4. RequestsRecorded'
      BY <2>2 DEF AcknowledgeLastSkip, Completion, Idle, RequestsRecorded, Recorded
    <3>5. QED
      BY <3>3, <3>4
  <2>3. CASE LeaveSession(r) \/ FailExit(r)
    <3>1. req[r].from \in Tabs /\ page' = [page EXCEPT ![req[r].from] = Closed]
      BY <2>3, <1>0 DEF LeaveSession, FailExit, Awaited
    <3>2. \A s \in Requests : req'[s] = Idle \/ req'[s] = Orphaned(req[r].from)[s]
      BY <2>3, <3>1, OrphanedType DEF LeaveSession, FailExit
    <3>3. \A u \in Tabs : page'[u].mirror = page[u].mirror \/ page'[u].mirror = NoMarks
      BY <3>1 DEF Closed
    <3>4. ClaimsAreRecorded'
      BY <2>3, <3>3 DEF LeaveSession, FailExit, ClaimsAreRecorded, Recorded, NoMarks
    <3>5. RequestsRecorded'
      BY <2>3, <3>1, <3>2, OrphanedIs DEF LeaveSession, FailExit, Idle, RequestsRecorded, Recorded
    <3>6. QED
      BY <3>4, <3>5
  <2>4. CASE FailAnswer(r) \/ FailSkip(r)
    <3>1. \A u \in Tabs : page'[u].mirror = page[u].mirror
      BY <2>4, FailShows
    <3>2. ClaimsAreRecorded'
      BY <2>4, <3>1 DEF FailAnswer, FailSkip, ClaimsAreRecorded, Recorded
    <3>3. RequestsRecorded'
      BY <2>4 DEF FailAnswer, FailSkip, Unawaited, Slots, RequestsRecorded, Recorded
    <3>4. QED
      BY <3>2, <3>3
  <2>5. ASSUME NEW s \in Requests, FailLastSkip(r, s)
        PROVE  (ClaimsAreRecorded /\ RequestsRecorded)'
    BY <2>5 DEF FailLastSkip, Unawaited, Completion, Idle, Slots,
                ClaimsAreRecorded, RequestsRecorded, Recorded
  <2>6. CASE FailComplete(r)
    BY <2>6 DEF FailComplete, Unawaited, Slots, ClaimsAreRecorded, RequestsRecorded, Recorded
  <2>7. CASE Forget(r)
    BY <2>7 DEF Forget, Idle, ClaimsAreRecorded, RequestsRecorded, Recorded
  <2>8. CASE SavedAgain(r)
    <3>1. \A u \in Tabs : page'[u].mirror = page[u].mirror
      BY <2>8, FailShows
    <3>2. ClaimsAreRecorded'
      BY <2>8, <3>1 DEF SavedAgain, ClaimsAreRecorded, Recorded
    <3>3. RequestsRecorded'
      BY <2>8 DEF SavedAgain, Idle, RequestsRecorded, Recorded
    <3>4. QED
      BY <3>2, <3>3
  <2>9. CASE FailSave(r)
    BY <2>9 DEF FailSave, Idle, ClaimsAreRecorded, RequestsRecorded, Recorded
  <2>10. QED
    BY <1>3, <2>1, <2>2, <2>3, <2>4, <2>5, <2>6, <2>7, <2>8, <2>9 DEF EndStep
<1>4. CASE UNCHANGED vars
  BY <1>4 DEF vars, ClaimsAreRecorded, RequestsRecorded, Recorded
<1>5. QED
  BY <1>1, <1>2, <1>3, <1>4 DEF Next

----------------------------------------------------------------------------
(* Without overlaps nothing is lost. *)

(* What the server does to the marks: only the update changes them, and    *)
(* without overlaps it adds its own report to the current ones.            *)
LEMMA UpdateAdds ==
    ASSUME TypeOK, WaitedFor, WriterCurrent, ~overlapped, NEW r \in Requests, UpdateSession(r)
    PROVE  /\ marks' = Push(marks, req[r].at, req[r].kind)
           /\ req[r].kind \in Reports
           /\ marks.completed \subseteq marks'.completed
           /\ marks.skipped \subseteq marks'.skipped
           /\ req[r].kind = "answer" => req[r].at \in marks'.completed
           /\ req[r].kind = "skip" => req[r].at \in marks'.skipped
<1>1. req[r].copy = marks /\ req[r].kind \in Reports /\ req[r].at \in Positions
  BY DEF UpdateSession, WriterCurrent, WaitedFor, Writing, TypeOK, Slots
<1>2. marks' = Push(marks, req[r].at, req[r].kind)
  BY <1>1 DEF UpdateSession
<1>3. QED
  BY <1>1, <1>2, PushIs DEF TypeOK, Reports

LEMMA OnlyUpdateMarks ==
    ASSUME [Next]_vars, ~ \E r \in Requests : UpdateSession(r)
    PROVE  marks' = marks /\ index' = index
BY DEF Next, PageStep, ServerStep, EndStep, Load, NextProblem, Previous, Close, Answer, Resave, Skip, Exit,
       Finish, Send, Fetch, InsertResult, CompleteSession, Acknowledge, AcknowledgeLastSkip,
       LeaveSession, SavedAgain, FailSave, FailAnswer, FailSkip, FailLastSkip, FailExit,
       FailComplete, Forget, serverVars, vars

LEMMA HistoryGrows ==
    ASSUME [Next]_vars
    PROVE  (overlapped => overlapped') /\ passed \subseteq passed'
<1> USE DEF historyVars
<1>1. ASSUME NEW t \in Tabs, PageStep(t) PROVE overlapped' = overlapped /\ passed' = passed
  BY <1>1 DEF PageStep, Load, NextProblem, Previous, Close, Answer, Resave, Skip, Exit, Finish, Send
<1>2. ASSUME NEW r \in Requests, ServerStep(r)
      PROVE  (overlapped => overlapped') /\ passed' = passed
  <2>1. CASE Fetch(r)
    <3>1. overlapped' = (overlapped \/ \E s \in Requests : Writing(s)) /\ passed' = passed
      BY <2>1 DEF Fetch
    <3>2. QED
      BY <3>1, Zenon
  <2>2. CASE ~Fetch(r)
    BY <1>2, <2>2 DEF ServerStep, InsertResult, UpdateSession, CompleteSession
  <2>3. QED
    BY <2>1, <2>2
<1>3. ASSUME NEW r \in Requests, EndStep(r)
      PROVE  overlapped' = overlapped /\ passed \subseteq passed'
  BY <1>3 DEF EndStep, Acknowledge, AcknowledgeLastSkip, LeaveSession, SavedAgain,
              FailSave, FailAnswer, FailSkip, FailLastSkip, FailExit, FailComplete, Forget
<1>4. CASE UNCHANGED vars
  BY <1>4 DEF vars
<1>5. QED
  BY <1>1, <1>2, <1>3, <1>4 DEF Next

LEMMA MarksGrow ==
    ASSUME TypeOK, WaitedFor, WriterCurrent, [Next]_vars, ~overlapped'
    PROVE  marks.completed \subseteq marks'.completed /\ marks.skipped \subseteq marks'.skipped
BY UpdateAdds, OnlyUpdateMarks, HistoryGrows

(* A step that starts no writer and changes no marks keeps the writers.    *)
LEMMA WritersStay ==
    ASSUME TypeOK, WriterCurrent, overlapped' = overlapped, marks' = marks,
           \A r \in Requests : Writing(r)' => Writing(r) /\ req'[r].copy = req[r].copy
    PROVE  WriterCurrent'
BY DEF WriterCurrent

LEMMA WriterStep ==
    ASSUME TypeOK, WaitedFor, WriterCurrent, [Next]_vars
    PROVE  WriterCurrent'
<1> USE DEF TypeOK, Writing, serverVars, historyVars, Slots
<1>1. ASSUME NEW t \in Tabs, PageStep(t) PROVE WriterCurrent'
  <2>1. CASE Load(t) \/ NextProblem(t) \/ Previous(t)
    BY <2>1, WritersStay DEF Load, NextProblem, Previous
  <2>2. CASE Close(t)
    BY <2>2, WritersStay, OrphanedIs DEF Close
  <2>3. ASSUME NEW r \in Requests, NEW k \in Reports \cup {"save", "complete"}, Send(t, r, k)
        PROVE  WriterCurrent'
    BY <2>3, WritersStay DEF Send, Idle
  <2>4. QED
    BY <1>1, <2>1, <2>2, <2>3 DEF PageStep, Answer, Resave, Skip, Exit, Finish, Reports
<1>2. ASSUME NEW r \in Requests, ServerStep(r) PROVE WriterCurrent'
  <2>1. CASE Fetch(r)
    BY <2>1 DEF Fetch, WriterCurrent
  <2>2. CASE InsertResult(r)
    BY <2>2, WritersStay DEF InsertResult
  <2>3. CASE UpdateSession(r)
    BY <2>3 DEF UpdateSession, WriterCurrent
  <2>4. CASE CompleteSession(r)
    BY <2>4, WritersStay DEF CompleteSession
  <2>5. QED
    BY <1>2, <2>1, <2>2, <2>3, <2>4 DEF ServerStep
<1>3. ASSUME NEW r \in Requests, EndStep(r) PROVE WriterCurrent'
  <2>1. CASE Acknowledge(r) \/ SavedAgain(r) \/ FailSave(r) \/ Forget(r)
    BY <2>1, WritersStay DEF Acknowledge, SavedAgain, FailSave, Forget, Idle
  <2>2. CASE AcknowledgeLastSkip(r)
    BY <2>2, WritersStay DEF AcknowledgeLastSkip, Completion, Idle
  <2>3. CASE LeaveSession(r) \/ FailExit(r)
    <3>1. req[r].from \in Tabs
      BY <2>3 DEF LeaveSession, FailExit, Awaited
    <3>2. \A s \in Requests : req'[s] = Idle \/ req'[s] = Orphaned(req[r].from)[s]
      BY <2>3, <3>1, OrphanedType DEF LeaveSession, FailExit
    <3>3. QED
      BY <2>3, <3>1, <3>2, OrphanedIs, WritersStay DEF LeaveSession, FailExit, Idle
  <2>4. CASE FailAnswer(r) \/ FailSkip(r) \/ FailComplete(r)
    BY <2>4, WritersStay DEF FailAnswer, FailSkip, FailComplete, Unawaited
  <2>5. ASSUME NEW s \in Requests, FailLastSkip(r, s) PROVE WriterCurrent'
    BY <2>5, WritersStay DEF FailLastSkip, Unawaited, Completion, Idle
  <2>6. QED
    BY <1>3, <2>1, <2>2, <2>3, <2>4, <2>5 DEF EndStep
<1>4. CASE UNCHANGED vars
  BY <1>4 DEF vars, WriterCurrent
<1>5. QED
  BY <1>1, <1>2, <1>3, <1>4 DEF Next

(* A report becomes done only by its update. *)
LEMMA DoneStep ==
    ASSUME TypeOK, WaitedFor, WriterCurrent, DoneIsKept, [Next]_vars
    PROVE  DoneIsKept'
<1> SUFFICES ASSUME ~overlapped', NEW s \in Requests, req'[s].stage = "done"
             PROVE  /\ req'[s].kind = "answer" => req'[s].at \in marks'.completed
                    /\ req'[s].kind = "skip" => req'[s].at \in marks'.skipped
  BY DEF DoneIsKept
<1>1. marks.completed \subseteq marks'.completed /\ marks.skipped \subseteq marks'.skipped
  BY MarksGrow
<1>2. ~overlapped
  BY HistoryGrows
<1>3. CASE \E r \in Requests : UpdateSession(r)
  <2>1. PICK r \in Requests : UpdateSession(r)
    BY <1>3
  <2>2. CASE s = r
    BY <1>2, <2>1, <2>2, UpdateAdds DEF UpdateSession, TypeOK, Slots
  <2>3. CASE s # r
    BY <1>1, <1>2, <2>1, <2>3 DEF UpdateSession, TypeOK, Slots, DoneIsKept
  <2>4. QED
    BY <2>2, <2>3
<1>4. CASE ~ \E r \in Requests : UpdateSession(r)
  <2>1. \/ req[s].stage = "done" /\ req'[s].kind = req[s].kind /\ req'[s].at = req[s].at
        \/ req'[s].kind = "complete"
    <3> USE DEF TypeOK, Slots
    <3>1. ASSUME NEW t \in Tabs, PageStep(t)
          PROVE  req[s].stage = "done" /\ req'[s].kind = req[s].kind /\ req'[s].at = req[s].at
      <4>1. CASE Load(t) \/ NextProblem(t) \/ Previous(t)
        BY <4>1 DEF Load, NextProblem, Previous
      <4>2. CASE Close(t)
        BY <4>2, OrphanedIs DEF Close
      <4>3. ASSUME NEW r \in Requests, NEW k \in Reports \cup {"save", "complete"}, Send(t, r, k)
            PROVE  req[s].stage = "done" /\ req'[s].kind = req[s].kind /\ req'[s].at = req[s].at
        BY <4>3 DEF Send, Idle
      <4>4. QED
        BY <3>1, <4>1, <4>2, <4>3 DEF PageStep, Answer, Resave, Skip, Exit, Finish, Reports
    <3>2. ASSUME NEW r \in Requests, ServerStep(r)
          PROVE  \/ req[s].stage = "done" /\ req'[s].kind = req[s].kind /\ req'[s].at = req[s].at
                 \/ req'[s].kind = "complete"
      BY <1>4, <3>2 DEF ServerStep, Fetch, InsertResult, CompleteSession
    <3>3. ASSUME NEW r \in Requests, EndStep(r)
          PROVE  req[s].stage = "done" /\ req'[s].kind = req[s].kind /\ req'[s].at = req[s].at
      <4>1. CASE Acknowledge(r) \/ SavedAgain(r) \/ FailSave(r) \/ Forget(r)
        BY <4>1 DEF Acknowledge, SavedAgain, FailSave, Forget, Idle
      <4>2. CASE AcknowledgeLastSkip(r)
        <5>1. req'[s] = IF s = r THEN Completion(req[r].from) ELSE req[s]
          BY <4>2 DEF AcknowledgeLastSkip
        <5>2. Completion(req[r].from).stage = "sent"
          BY DEF Completion, Idle
        <5>3. QED
          BY <5>1, <5>2
      <4>3. CASE LeaveSession(r) \/ FailExit(r)
        <5>1. req[r].from \in Tabs
          BY <4>3 DEF LeaveSession, FailExit, Awaited
        <5>2. req'[s] = Idle \/ req'[s] = Orphaned(req[r].from)[s]
          BY <4>3, <5>1, OrphanedType DEF LeaveSession, FailExit
        <5>3. QED
          BY <5>1, <5>2, OrphanedIs DEF Idle
      <4>4. CASE FailAnswer(r) \/ FailSkip(r) \/ FailComplete(r)
        BY <4>4 DEF FailAnswer, FailSkip, FailComplete, Unawaited
      <4>5. ASSUME NEW q \in Requests, FailLastSkip(r, q)
            PROVE  req[s].stage = "done" /\ req'[s].kind = req[s].kind /\ req'[s].at = req[s].at
        BY <4>5 DEF FailLastSkip, Unawaited, Completion, Idle
      <4>6. QED
        BY <3>3, <4>1, <4>3, <4>4, <4>5, <4>2 DEF EndStep
    <3>4. CASE UNCHANGED vars
      BY <3>4 DEF vars
    <3>5. QED
      BY <3>1, <3>2, <3>3, <3>4 DEF Next
  <2>2. QED
    BY <1>1, <1>2, <2>1 DEF DoneIsKept
<1>5. QED
  BY <1>3, <1>4

----------------------------------------------------------------------------
(* What a step does to one mirror, and to one report. *)
LEMMA MirrorChange ==
    ASSUME TypeOK, WaitedFor, [Next]_vars, NEW u \in Tabs
    PROVE  \/ page'[u].mirror = page[u].mirror
           \/ page'[u].mirror = NoMarks /\ ~page'[u].open
           \/ page'[u].mirror = marks /\ marks' = marks /\ ~page[u].open
           \/ \E r \in Requests :
                /\ req[r].stage = "done" /\ req[r].from = u /\ req[r].kind \in {"answer", "skip"}
                /\ page'[u].mirror = Reflect(page[u].mirror, req[r].at, req[r].kind)
<1> DEFINE Change ==
      \/ page'[u].mirror = page[u].mirror
      \/ page'[u].mirror = NoMarks /\ ~page'[u].open
      \/ page'[u].mirror = marks /\ marks' = marks /\ ~page[u].open
      \/ \E r \in Requests :
           /\ req[r].stage = "done" /\ req[r].from = u /\ req[r].kind \in {"answer", "skip"}
           /\ page'[u].mirror = Reflect(page[u].mirror, req[r].at, req[r].kind)
<1>1. ASSUME NEW t \in Tabs, PageStep(t) PROVE Change
  <2>1. CASE Load(t)
    BY <2>1, LoadShows DEF Load, Shows, serverVars
  <2>2. CASE NextProblem(t) \/ Previous(t)
    BY <2>2, MoveShows DEF Shows
  <2>3. CASE Close(t)
    BY <2>3 DEF Close, Closed, TypeOK
  <2>4. CASE \E r \in Requests : \/ Answer(t, r) \/ Resave(t, r) \/ Skip(t, r)
                                \/ Exit(t, r) \/ Finish(t, r)
    BY <2>4 DEF Answer, Resave, Skip, Exit, Finish, Send
  <2>5. QED
    BY <1>1, <2>1, <2>2, <2>3, <2>4 DEF PageStep
<1>2. ASSUME NEW r \in Requests, ServerStep(r) PROVE Change
  BY <1>2 DEF ServerStep, Fetch, InsertResult, UpdateSession, CompleteSession
<1>3. ASSUME NEW r \in Requests, EndStep(r) PROVE Change
  <2>1. CASE Acknowledge(r)
    BY <2>1, AcknowledgeShows DEF Acknowledge, Awaited, Shows
  <2>2. CASE AcknowledgeLastSkip(r)
    BY <2>2, AcknowledgeLastSkipShows DEF AcknowledgeLastSkip, LastSkip, Shows
  <2>3. CASE LeaveSession(r) \/ FailExit(r)
    BY <2>3 DEF LeaveSession, FailExit, Closed, TypeOK
  <2>4. CASE FailAnswer(r) \/ SavedAgain(r) \/ FailSkip(r)
    BY <2>4, FailShows
  <2>5. CASE FailSave(r) \/ FailComplete(r) \/ Forget(r) \/ \E s \in Requests : FailLastSkip(r, s)
    BY <2>5 DEF FailSave, FailComplete, Forget, FailLastSkip
  <2>6. QED
    BY <1>3, <2>1, <2>2, <2>3, <2>4, <2>5 DEF EndStep
<1>4. CASE UNCHANGED vars
  BY <1>4 DEF vars
<1>5. QED
  BY <1>1, <1>2, <1>3, <1>4 DEF Next

(* A report in flight was in flight before, or a page has just sent it.    *)
LEMMA ReportChange ==
    ASSUME TypeOK, [Next]_vars, NEW s \in Requests,
           req'[s].stage # "idle", req'[s].kind \in Reports
    PROVE  \/ /\ req[s].stage # "idle" /\ req'[s].kind = req[s].kind /\ req'[s].at = req[s].at
              /\ req'[s].from = req[s].from \/ req'[s].from = NoTab
           \/ \E t \in Tabs : req'[s].from = t /\ req'[s].at = page[t].pos /\ page[t].open
<1> DEFINE Same == /\ req[s].stage # "idle" /\ req'[s].kind = req[s].kind
                   /\ req'[s].at = req[s].at
                   /\ req'[s].from = req[s].from \/ req'[s].from = NoTab
<1> USE DEF TypeOK, Slots
<1>1. ASSUME NEW t \in Tabs, PageStep(t)
      PROVE  Same \/ (req'[s].from = t /\ req'[s].at = page[t].pos /\ page[t].open)
  <2>1. CASE Load(t) \/ NextProblem(t) \/ Previous(t)
    BY <2>1 DEF Load, NextProblem, Previous
  <2>2. CASE Close(t)
    BY <2>2, OrphanedIs DEF Close
  <2>3. ASSUME NEW r \in Requests, NEW k \in Reports \cup {"save", "complete"}, Send(t, r, k)
        PROVE  Same \/ (req'[s].from = t /\ req'[s].at = page[t].pos /\ page[t].open)
    BY <2>3 DEF Send, Idle
  <2>4. QED
    BY <1>1, <2>1, <2>2, <2>3 DEF PageStep, Answer, Resave, Skip, Exit, Finish, Reports
<1>2. ASSUME NEW r \in Requests, ServerStep(r) PROVE Same
  BY <1>2 DEF ServerStep, Fetch, InsertResult, UpdateSession, CompleteSession
<1>3. ASSUME NEW r \in Requests, EndStep(r) PROVE Same
  <2>1. CASE Acknowledge(r) \/ SavedAgain(r) \/ FailSave(r) \/ Forget(r)
    BY <2>1 DEF Acknowledge, SavedAgain, FailSave, Forget, Idle
  <2>2. CASE AcknowledgeLastSkip(r)
    <3>1. req'[s] = IF s = r THEN Completion(req[r].from) ELSE req[s]
      BY <2>2 DEF AcknowledgeLastSkip
    <3>2. Completion(req[r].from).kind = "complete"
      BY DEF Completion, Idle
    <3>3. QED
      BY <3>1, <3>2 DEF Reports
  <2>3. CASE LeaveSession(r) \/ FailExit(r)
    <3>1. req[r].from \in Tabs
      BY <2>3 DEF LeaveSession, FailExit, Awaited
    <3>2. req'[s] = Idle \/ req'[s] = Orphaned(req[r].from)[s]
      BY <2>3, <3>1, OrphanedType DEF LeaveSession, FailExit
    <3>3. QED
      BY <3>1, <3>2, OrphanedIs DEF Idle
  <2>4. CASE FailAnswer(r) \/ FailSkip(r) \/ FailComplete(r)
    BY <2>4 DEF FailAnswer, FailSkip, FailComplete, Unawaited
  <2>5. ASSUME NEW q \in Requests, FailLastSkip(r, q) PROVE Same
    <3>1. s # q /\ req'[s] = Unawaited(r)[s]
      <4>1. req' = [Unawaited(r) EXCEPT ![q] = Completion(req[r].from)]
        BY <2>5 DEF FailLastSkip
      <4>2. Completion(req[r].from).kind \notin Reports
        BY DEF Completion, Idle, Reports
      <4>3. QED
        BY <4>1, <4>2, UnawaitedType
    <3>2. QED
      BY <3>1 DEF Unawaited
  <2>6. QED
    BY <1>3, <2>1, <2>2, <2>3, <2>4, <2>5 DEF EndStep
<1>4. CASE UNCHANGED vars
  BY <1>4 DEF vars
<1>5. QED
  BY <1>1, <1>2, <1>3, <1>4 DEF Next

(* What a page shows is kept. *)
LEMMA ShownStep ==
    ASSUME TypeOK, WaitedFor, WriterCurrent, DoneIsKept, ShownIsKept, [Next]_vars
    PROVE  ShownIsKept'
<1> SUFFICES ASSUME ~overlapped', NEW u \in Tabs
             PROVE  /\ page'[u].mirror.completed \subseteq marks'.completed
                    /\ page'[u].mirror.skipped \subseteq marks'.skipped
  BY DEF ShownIsKept
<1>1. marks.completed \subseteq marks'.completed /\ marks.skipped \subseteq marks'.skipped
  BY MarksGrow
<1>2. ~overlapped
  BY HistoryGrows
<1>3. /\ page[u].mirror.completed \subseteq marks.completed
      /\ page[u].mirror.skipped \subseteq marks.skipped
  BY <1>2 DEF ShownIsKept
<1>4. CASE page'[u].mirror = page[u].mirror
  BY <1>1, <1>3, <1>4
<1>5. CASE page'[u].mirror = NoMarks
  BY <1>5 DEF NoMarks
<1>6. CASE page'[u].mirror = marks
  BY <1>1, <1>6
<1>7. ASSUME NEW r \in Requests,
             req[r].stage = "done", req[r].from = u, req[r].kind \in {"answer", "skip"},
             page'[u].mirror = Reflect(page[u].mirror, req[r].at, req[r].kind)
      PROVE  /\ page'[u].mirror.completed \subseteq marks'.completed
             /\ page'[u].mirror.skipped \subseteq marks'.skipped
  <2>1. page[u].mirror \in Marks /\ req[r].at \in Positions
    BY DEF TypeOK, Pages, Slots
  <2>2. QED
    BY <1>1, <1>2, <1>3, <1>7, <2>1, ReflectIs DEF DoneIsKept
<1>8. QED
  BY <1>4, <1>5, <1>6, <1>7, MirrorChange

----------------------------------------------------------------------------
(* Without overlaps nothing is passed over that was not let pass. *)

(* The step leaves problem p covered. *)
CoveredNext(p) == p \in Seen(marks') \cup passed'

LEMMA CoveredGrows ==
    ASSUME TypeOK, WaitedFor, WriterCurrent, [Next]_vars, ~overlapped'
    PROVE  ~overlapped /\ \A p \in Positions : Covered(p) => CoveredNext(p)
<1>1. Seen(marks) \subseteq Seen(marks')
  BY MarksGrow DEF Seen
<1>2. ~overlapped /\ passed \subseteq passed'
  BY HistoryGrows
<1>3. QED
  BY <1>1, <1>2 DEF Covered, CoveredNext, Seen

LEMMA ReportsStep ==
    ASSUME TypeOK, WaitedFor, WriterCurrent, PagesStandOnCovered, ReportsStandOnCovered,
           [Next]_vars
    PROVE  ReportsStandOnCovered'
<1> SUFFICES ASSUME ~overlapped', NEW s \in Requests,
                    req'[s].stage # "idle", req'[s].kind \in Reports
             PROVE  \A q \in Positions : q < req'[s].at => CoveredNext(q)
  BY DEF ReportsStandOnCovered, CoveredBefore, Covered, CoveredNext, Seen
<1>1. ~overlapped /\ \A p \in Positions : Covered(p) => CoveredNext(p)
  BY CoveredGrows
<1>2. CASE /\ req[s].stage # "idle" /\ req'[s].kind = req[s].kind /\ req'[s].at = req[s].at
           /\ req'[s].from = req[s].from \/ req'[s].from = NoTab
  BY <1>1, <1>2 DEF ReportsStandOnCovered, CoveredBefore
<1>3. ASSUME NEW t \in Tabs, req'[s].at = page[t].pos
      PROVE  \A q \in Positions : q < req'[s].at => CoveredNext(q)
  BY <1>1, <1>3 DEF PagesStandOnCovered, CoveredBefore
<1>4. QED
  BY <1>2, <1>3, ReportChange

LEMMA PagesStep ==
    ASSUME TypeOK, WaitedFor, WriterCurrent, DoneIsKept, ShownIsKept', PagesStandOnCovered,
           ReportsStandOnCovered, ResumePassesNothing, [Next]_vars
    PROVE  PagesStandOnCovered'
<1> DEFINE Before(p) == \A q \in Positions : q < p => CoveredNext(q)
           Stands(g) == Before(g.pos) /\ (g.ready => CoveredNext(g.pos))
<1> SUFFICES ASSUME ~overlapped' PROVE \A u \in Tabs : Stands(page'[u])
  BY DEF PagesStandOnCovered, CoveredBefore, Covered, CoveredNext, Seen
<1>1. ~overlapped /\ \A p \in Positions : Covered(p) => CoveredNext(p)
  BY CoveredGrows
<1>2. \A u \in Tabs : Stands(page[u]) /\ page[u] \in Pages /\ page[u].pos \in Positions
  BY <1>1 DEF PagesStandOnCovered, CoveredBefore, TypeOK, Pages
<1>3. Stands(Closed)
  BY Constants DEF Closed
<1>4. ASSUME NEW t \in Tabs, NEW p \in Positions, NEW m, Shows(t, p, m), Before(p)
      PROVE  \A u \in Tabs : Stands(page'[u])
  <2>1. page'[t].ready => p \in page'[t].mirror.completed
    BY <1>4 DEF Shows
  <2>2. \A q \in page'[t].mirror.completed : CoveredNext(q)
    BY DEF ShownIsKept, Covered, CoveredNext, Seen
  <2>3. Stands(page'[t])
    BY <1>4, <2>1, <2>2 DEF Shows
  <2>4. QED
    BY <1>2, <1>4, <2>3 DEF Shows
<1>5. ASSUME NEW p \in Positions, Before(p), CoveredNext(p) PROVE Before(p + 1)
  BY <1>5, Constants
<1>6. ASSUME NEW t \in Tabs, PageStep(t) PROVE \A u \in Tabs : Stands(page'[u])
  <2>1. CASE Load(t)
    <3>1. index \in Positions /\ Before(index)
      BY <1>1 DEF ResumePassesNothing, Covered, TypeOK
    <3>2. QED
      BY <1>4, <2>1, <3>1, LoadShows
  <2>2. CASE NextProblem(t)
    <3>1. page[t].pos \in Positions /\ Before(page[t].pos) /\ CoveredNext(page[t].pos)
      BY <1>2, <2>2 DEF NextProblem
    <3>2. QED
      BY <1>4, <1>5, <2>2, <3>1, MoveShows
  <2>3. CASE Previous(t)
    <3>1. Before(page[t].pos - 1)
      BY <1>2, Constants
    <3>2. QED
      BY <1>4, <2>3, <3>1, MoveShows
  <2>4. CASE Close(t)
    BY <1>2, <1>3, <2>4 DEF Close, TypeOK
  <2>5. CASE \E r \in Requests : \/ Answer(t, r) \/ Resave(t, r) \/ Skip(t, r)
                                \/ Exit(t, r) \/ Finish(t, r)
    BY <1>2, <2>5 DEF Answer, Resave, Skip, Exit, Finish, Send
  <2>6. QED
    BY <1>6, <2>1, <2>2, <2>3, <2>4, <2>5 DEF PageStep
<1>7. ASSUME NEW r \in Requests, ServerStep(r) PROVE \A u \in Tabs : Stands(page'[u])
  BY <1>2, <1>7 DEF ServerStep, Fetch, InsertResult, UpdateSession, CompleteSession
<1>8. ASSUME NEW r \in Requests, EndStep(r) PROVE \A u \in Tabs : Stands(page'[u])
  <2> DEFINE f == req[r].from
  <2>0. req[r].at \in Positions
    BY DEF TypeOK, Slots
  <2>1. CASE Acknowledge(r)
    <3>1. f \in Tabs /\ req[r].kind \in {"answer", "skip"}
      BY <2>1, AcknowledgeShows DEF Acknowledge, Awaited
    <3>2. CASE req[r].kind = "skip"
      <4>1. Before(req[r].at) /\ CoveredNext(req[r].at)
        BY <1>1, <2>0, <2>1, <3>2 DEF ReportsStandOnCovered, CoveredBefore, DoneIsKept, Covered,
                                      CoveredNext, Seen, Acknowledge, Reports
      <4>2. QED
        BY <1>4, <1>5, <2>0, <2>1, <3>1, <3>2, <4>1, AcknowledgeShows
    <3>3. CASE req[r].kind = "answer"
      BY <1>2, <1>4, <2>1, <3>1, <3>3, AcknowledgeShows
    <3>4. QED
      BY <3>1, <3>2, <3>3
  <2>2. CASE AcknowledgeLastSkip(r)
    <3>1. CASE f = NoTab
      BY <1>2, <2>2, <3>1, AcknowledgeLastSkipShows
    <3>2. CASE f # NoTab
      BY <1>2, <1>4, <2>2, <3>2, AcknowledgeLastSkipShows
    <3>3. QED
      BY <3>1, <3>2
  <2>3. CASE LeaveSession(r) \/ FailExit(r)
    BY <1>2, <1>3, <2>3 DEF LeaveSession, FailExit, TypeOK
  <2>4. CASE FailAnswer(r) \/ SavedAgain(r)
    <3>1. /\ f \in Tabs /\ page'[f].pos = page[f].pos
          /\ \A u \in Tabs \ {f} : page'[u] = page[u]
      BY <2>4, FailShows DEF FailAnswer, SavedAgain, TypeOK, Pages
    <3>2. passed' = passed \cup Unseen(page[f].pos) /\ marks' = marks
      BY <2>4 DEF FailAnswer, SavedAgain, serverVars
    <3>3. CoveredNext(page[f].pos)
      BY <3>1, <3>2 DEF CoveredNext, Unseen, Seen
    <3>4. Stands(page'[f])
      BY <1>2, <3>1, <3>3
    <3>5. QED
      BY <1>2, <3>1, <3>4
  <2>5. CASE FailSkip(r)
    <3>1. f \in Tabs /\ req[r].at + 1 \in Positions /\ page[f].open /\ page[f].mirror \in Marks
      <4>1. f \in Tabs /\ req[r].kind = "skip" /\ ~LastSkip(r)
        BY <2>5, FailShows DEF FailSkip, Awaited
      <4>2. page[f].open /\ page[f].mirror \in Marks
        BY <4>1, TabsAssumption DEF WaitedFor, TypeOK, Pages
      <4>3. req[r].at + 1 \in Positions
        BY <2>0, <4>1, Constants DEF LastSkip, Positions, Last
      <4>4. QED
        BY <4>1, <4>2, <4>3
    <3>2. CASE page[f].pos = req[r].at + 1
      BY <1>2, <2>5, <3>1, <3>2 DEF FailSkip, TypeOK
    <3>3. CASE page[f].pos # req[r].at + 1
      <4>1. page' = [page EXCEPT ![f] = Showing(page[f], req[r].at + 1, page[f].mirror)]
        BY <2>5, <3>3 DEF FailSkip
      <4>2. Shows(f, req[r].at + 1, page[f].mirror)
        BY <1>2, <3>1, <4>1, ShowsIs
      <4>3. passed' = passed \cup Unseen(req[r].at) /\ marks' = marks
        BY <2>5 DEF FailSkip, serverVars
      <4>4. CoveredNext(req[r].at)
        BY <4>3 DEF CoveredNext, Unseen, Seen
      <4>5. Before(req[r].at)
        BY <1>1, <2>5 DEF FailSkip, Awaited, ReportsStandOnCovered, CoveredBefore, Reports, WaitedFor,
                          Idle
      <4>6. QED
        BY <1>4, <1>5, <2>0, <3>1, <4>2, <4>4, <4>5
    <3>4. QED
      BY <3>2, <3>3
  <2>6. CASE \/ FailSave(r) \/ FailComplete(r) \/ Forget(r)
             \/ \E s \in Requests : FailLastSkip(r, s)
    BY <1>2, <2>6 DEF FailSave, FailComplete, Forget, FailLastSkip
  <2>7. QED
    BY <1>8, <2>1, <2>2, <2>3, <2>4, <2>5, <2>6 DEF EndStep
<1>9. CASE UNCHANGED vars
  BY <1>2, <1>9 DEF vars
<1>10. QED
  BY <1>6, <1>7, <1>8, <1>9 DEF Next

(* Past the last problem, all are covered. *)
LEMMA CoveredToLast ==
    ASSUME CoveredBefore(Last), Covered(Last)
    PROVE  \A p \in Positions : Covered(p)
BY Constants DEF CoveredBefore

(* A completion in flight was in flight before, or a page has finished, or *)
(* the last skip has been acknowledged or has failed.                      *)
LEMMA CompletionChange ==
    ASSUME TypeOK, [Next]_vars, NEW s \in Requests,
           req'[s].stage # "idle", req'[s].kind = "complete"
    PROVE  \/ req[s].stage # "idle" /\ req[s].kind = "complete"
           \/ \E t \in Tabs : page[t].pos = Last /\ page[t].ready
           \/ req[s].stage = "done" /\ LastSkip(s)
           \/ \E r \in Requests : FailLastSkip(r, s)
<1> USE DEF TypeOK, Slots
<1> DEFINE Was == req[s].stage # "idle" /\ req[s].kind = "complete"
<1>1. ASSUME NEW t \in Tabs, PageStep(t)
      PROVE  Was \/ (page[t].pos = Last /\ page[t].ready)
  <2>1. CASE Load(t) \/ NextProblem(t) \/ Previous(t)
    BY <2>1 DEF Load, NextProblem, Previous
  <2>2. CASE Close(t)
    BY <2>2, OrphanedIs DEF Close
  <2>3. ASSUME NEW r \in Requests, NEW k \in Reports \cup {"save"}, Send(t, r, k)
        PROVE  Was
    BY <2>3 DEF Send, Idle, Reports
  <2>4. CASE \E r \in Requests : Finish(t, r)
    BY <2>4 DEF Finish
  <2>5. QED
    BY <1>1, <2>1, <2>2, <2>3, <2>4 DEF PageStep, Answer, Resave, Skip, Exit, Reports
<1>2. ASSUME NEW r \in Requests, ServerStep(r) PROVE Was
  BY <1>2 DEF ServerStep, Fetch, InsertResult, UpdateSession, CompleteSession
<1>3. ASSUME NEW r \in Requests, EndStep(r)
      PROVE  Was \/ (req[s].stage = "done" /\ LastSkip(s)) \/ FailLastSkip(r, s)
  <2>1. CASE Acknowledge(r) \/ SavedAgain(r) \/ FailSave(r) \/ Forget(r)
    BY <2>1 DEF Acknowledge, SavedAgain, FailSave, Forget, Idle
  <2>2. CASE AcknowledgeLastSkip(r)
    BY <2>2 DEF AcknowledgeLastSkip
  <2>3. CASE LeaveSession(r) \/ FailExit(r)
    <3>1. req[r].from \in Tabs
      BY <2>3 DEF LeaveSession, FailExit, Awaited
    <3>2. req'[s] = Idle \/ req'[s] = Orphaned(req[r].from)[s]
      BY <2>3, <3>1, OrphanedType DEF LeaveSession, FailExit
    <3>3. QED
      BY <3>1, <3>2, OrphanedIs DEF Idle
  <2>4. CASE FailAnswer(r) \/ FailSkip(r) \/ FailComplete(r)
    BY <2>4 DEF FailAnswer, FailSkip, FailComplete, Unawaited
  <2>5. ASSUME NEW q \in Requests, FailLastSkip(r, q)
        PROVE  Was \/ FailLastSkip(r, s)
    <3>1. CASE q = s
      BY <2>5, <3>1
    <3>2. CASE q # s
      <4>1. req'[s] = Unawaited(r)[s]
        BY <2>5, <3>2, UnawaitedType DEF FailLastSkip
      <4>2. QED
        BY <4>1 DEF Unawaited
    <3>3. QED
      BY <3>1, <3>2
  <2>6. QED
    BY <1>3, <2>1, <2>2, <2>3, <2>4, <2>5 DEF EndStep
<1>4. CASE UNCHANGED vars
  BY <1>4 DEF vars
<1>5. QED
  BY <1>1, <1>2, <1>3, <1>4 DEF Next

LEMMA CompletionsStep ==
    ASSUME TypeOK, WaitedFor, WriterCurrent, DoneIsKept,
           PagesStandOnCovered, ReportsStandOnCovered, CompletionsCover, [Next]_vars
    PROVE  CompletionsCover'
<1> SUFFICES ASSUME ~overlapped', NEW s \in Requests,
                    req'[s].stage # "idle", req'[s].kind = "complete"
             PROVE  \A p \in Positions : CoveredNext(p)
  BY DEF CompletionsCover, Covered, CoveredNext, Seen
<1>1. ~overlapped /\ \A p \in Positions : Covered(p) => CoveredNext(p)
  BY CoveredGrows
<1>2. CASE req[s].stage # "idle" /\ req[s].kind = "complete"
  BY <1>1, <1>2 DEF CompletionsCover
<1>3. ASSUME NEW t \in Tabs, page[t].pos = Last, page[t].ready
      PROVE  \A p \in Positions : CoveredNext(p)
  BY <1>1, <1>3, CoveredToLast DEF PagesStandOnCovered
<1>4. CASE req[s].stage = "done" /\ LastSkip(s)
  <2>1. CoveredBefore(Last)
    BY <1>1, <1>4 DEF ReportsStandOnCovered, LastSkip, Reports
  <2>2. Covered(Last)
    BY <1>1, <1>4 DEF DoneIsKept, LastSkip, Covered, CoveredNext, Seen
  <2>3. QED
    BY <1>1, <2>1, <2>2, CoveredToLast
<1>5. ASSUME NEW r \in Requests, FailLastSkip(r, s)
      PROVE  \A p \in Positions : CoveredNext(p)
  <2>1. CoveredBefore(Last)
    BY <1>1, <1>5 DEF ReportsStandOnCovered, FailLastSkip, LastSkip, Reports
  <2>2. passed' = passed \cup Unseen(Last) /\ marks' = marks
    BY <1>5 DEF FailLastSkip, LastSkip, serverVars
  <2>3. CoveredNext(Last)
    BY <2>2 DEF CoveredNext, Unseen, Seen
  <2>4. QED
    BY <1>1, <2>1, <2>3, Constants DEF CoveredBefore
<1>6. QED
  BY <1>2, <1>3, <1>4, <1>5, CompletionChange

LEMMA ResumeStep ==
    ASSUME TypeOK, WaitedFor, WriterCurrent, ReportsStandOnCovered, ResumePassesNothing,
           [Next]_vars
    PROVE  ResumePassesNothing'
<1> SUFFICES ASSUME ~overlapped', NEW p \in Positions, p < index'
             PROVE  CoveredNext(p)
  BY DEF ResumePassesNothing, Covered, CoveredNext, Seen
<1>1. ~overlapped /\ \A q \in Positions : Covered(q) => CoveredNext(q)
  BY CoveredGrows
<1>2. CASE ~ \E r \in Requests : UpdateSession(r)
  BY <1>1, <1>2, OnlyUpdateMarks DEF ResumePassesNothing, Covered
<1>3. ASSUME NEW r \in Requests, UpdateSession(r)
      PROVE  CoveredNext(p)
  <2>1. /\ req[r].kind \in Reports /\ req[r].at \in Positions /\ req[r].stage # "idle"
        /\ req[r].kind = "skip" => req[r].at \in marks'.skipped
    BY <1>1, <1>3, UpdateAdds DEF TypeOK, Slots, UpdateSession
  <2>2. CASE p < req[r].at
    BY <1>1, <2>1, <2>2 DEF ReportsStandOnCovered, CoveredBefore
  <2>3. CASE ~(p < req[r].at)
    <3>1. req[r].kind = "skip" /\ p = req[r].at
      BY <1>3, <2>1, <2>3, Constants DEF UpdateSession, NextIndex
    <3>2. QED
      BY <2>1, <3>1 DEF Covered, CoveredNext, Seen
  <2>4. QED
    BY <2>2, <2>3
<1>4. QED
  BY <1>2, <1>3

LEMMA FinishedStep ==
    ASSUME TypeOK, TypeOK', WaitedFor, WriterCurrent, CompletionsCover, FinishedIsCovered,
           [Next]_vars
    PROVE  FinishedIsCovered'
<1> SUFFICES ASSUME ~overlapped', finished'
             PROVE  \A p \in Positions : CoveredNext(p)
  BY DEF FinishedIsCovered, Covered, CoveredNext, Seen, TypeOK, Marks
<1>1. ~overlapped /\ \A p \in Positions : Covered(p) => CoveredNext(p)
  BY CoveredGrows
<1>2. ASSUME NEW r \in Requests, CompleteSession(r)
      PROVE  \A p \in Positions : CoveredNext(p)
  BY <1>1, <1>2 DEF CompletionsCover, CompleteSession
<1>3. CASE finished
  BY <1>1, <1>3 DEF FinishedIsCovered, Covered
<1>4. CASE ~finished
  <2>1. \E r \in Requests : CompleteSession(r)
    BY <1>4 DEF Next, PageStep, ServerStep, EndStep, Load, NextProblem, Previous, Close, Answer,
                Resave, Skip, Exit, Finish, Send, Fetch, InsertResult, UpdateSession, Acknowledge,
                AcknowledgeLastSkip, LeaveSession, SavedAgain, FailSave, FailAnswer, FailSkip,
                FailLastSkip, FailExit, FailComplete, Forget, historyVars, vars
  <2>2. QED
    BY <1>2, <2>1
<1>5. QED
  BY <1>3, <1>4


----------------------------------------------------------------------------
(* The inductive invariant. *)
THEOREM SessionInvariant == Spec => []IInv
<1>1. Init => IInv
  <2> SUFFICES ASSUME Init PROVE IInv
    OBVIOUS
  <2>1. TypeOK
    <3>1. index \in Positions /\ marks \in Marks /\ results \subseteq (Positions \X Reports)
      BY Constants DEF Init, Marks, NoMarks
    <3>2. Closed \in Pages
      BY Constants DEF Closed, Pages, Marks, NoMarks
    <3>3. Idle \in Slots
      BY Constants DEF Idle, Slots, Reports, Marks, NoMarks
    <3>4. page \in [Tabs -> Pages] /\ req \in [Requests -> Slots]
      BY <3>2, <3>3 DEF Init
    <3>5. sent \in 0..MaxSent
      BY SentAssumption DEF Init
    <3>6. QED
      BY <3>1, <3>4, <3>5 DEF Init, TypeOK
  <2>2. WaitedFor /\ ClaimsAreRecorded /\ RequestsRecorded
    BY DEF Init, WaitedFor, ClaimsAreRecorded, RequestsRecorded, Recorded, Writing, Idle, Closed,
           NoMarks
  <2>3. WriterCurrent /\ DoneIsKept /\ ShownIsKept
    BY DEF Init, WriterCurrent, DoneIsKept, ShownIsKept, Writing, Idle, Closed, NoMarks
  <2>4. PagesStandOnCovered /\ ReportsStandOnCovered /\ CompletionsCover
    BY Constants DEF Init, PagesStandOnCovered, ReportsStandOnCovered, CompletionsCover,
                     CoveredBefore, Idle, Closed
  <2>5. ResumePassesNothing /\ FinishedIsCovered
    BY Constants DEF Init, ResumePassesNothing, FinishedIsCovered
  <2>6. QED
    BY <2>1, <2>2, <2>3, <2>4, <2>5 DEF IInv
<1>2. IInv /\ [Next]_vars => IInv'
  <2> SUFFICES ASSUME IInv, [Next]_vars PROVE IInv'
    OBVIOUS
  <2>1. TypeOK' /\ WaitedFor'
    BY TypeStep, WaitStep DEF IInv
  <2>2. ClaimsAreRecorded' /\ RequestsRecorded'
    BY RecordStep DEF IInv
  <2>3. WriterCurrent' /\ DoneIsKept' /\ ShownIsKept'
    BY WriterStep, DoneStep, ShownStep DEF IInv
  <2>4. PagesStandOnCovered' /\ ReportsStandOnCovered' /\ CompletionsCover'
    BY <2>3, PagesStep, ReportsStep, CompletionsStep DEF IInv
  <2>5. ResumePassesNothing' /\ FinishedIsCovered'
    BY <2>1, ResumeStep, FinishedStep DEF IInv
  <2>6. QED
    BY <2>1, <2>2, <2>3, <2>4, <2>5 DEF IInv
<1>3. QED
  BY <1>1, <1>2, PTL DEF Spec

(* The variables keep their types. *)
THEOREM SessionTypes == Spec => []TypeOK
BY SessionInvariant, PTL DEF IInv

(* Whatever the session or a page counts has its result row.               *)
THEOREM ClaimsRecorded == Spec => []ClaimsAreRecorded
BY SessionInvariant, PTL DEF IInv

(* Without overlapping requests a page shows nothing the session forgot.   *)
THEOREM ShownKept == Spec => []ShownIsKept
BY SessionInvariant, PTL DEF IInv

(* Without overlapping requests a resumed session passes over no problem   *)
(* that was not let pass unseen on a page, be it by a failed report or by  *)
(* a late save.                                                            *)
THEOREM NothingPassedOver == Spec => []ResumePassesNothing
BY SessionInvariant, PTL DEF IInv

(* Without overlapping requests a completed session has seen every problem *)
(* that was not let pass unseen on a page.                                 *)
THEOREM FinishedCovered == Spec => []FinishedIsCovered
BY SessionInvariant, PTL DEF IInv

(* Without overlapping requests progress never shrinks.                    *)
THEOREM ProgressKept == Spec => ProgressGrows
<1>1. IInv /\ [Next]_vars => [~overlapped' => /\ marks.completed \subseteq marks'.completed
                                             /\ marks.skipped \subseteq marks'.skipped]_vars
  BY MarksGrow DEF IInv
<1>2. QED
  BY <1>1, SessionInvariant, PTL DEF Spec, ProgressGrows
=============================================================================
