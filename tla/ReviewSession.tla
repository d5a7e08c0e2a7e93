--------------------------- MODULE ReviewSession ---------------------------
(***************************************************************************)
(* One review session (backend/src/routes/review_sessions.rs) and the      *)
(* pages that work on it (session-review-client.tsx; the same handlers in  *)
(* spaced-review-client.tsx). The server keeps the progress in one JSON,   *)
(* session_state, and a log of result rows. A page mirrors the progress,   *)
(* moves through the problems and sends each step as a request, without    *)
(* waiting for the ones it sent before.                                    *)
(*                                                                         *)
(* update_progress reads the JSON, inserts a result row and writes the     *)
(* whole JSON back, in three statements of their own.                      *)
(***************************************************************************)
EXTENDS Integers

CONSTANTS Size,      \* the length of problem_ids; a problem is its position
          Tabs,      \* the pages that may show the session
          Requests,  \* bound: requests in flight at once
          NoTab,     \* a request whose page no longer waits for it
          MaxSent    \* bound: requests the pages send by hand

ASSUME SizeAssumption == Size \in Nat \ {0}
ASSUME TabsAssumption == NoTab \notin Tabs
ASSUME SentAssumption == MaxSent \in Nat

VARIABLES index,       \* session_state.current_index
          marks,       \* session_state.completed_problem_ids, skipped_problem_ids
          results,     \* the rows of review_session_results
          page,        \* what each page shows and remembers
          req,         \* the requests in flight
          sent,        \* how many requests the pages have sent by hand
          overlapped,  \* history: a request read while another had yet to write
          passed,      \* history: unseen problems a page let the user past
          finished     \* history: complete_session ran

serverVars  == <<index, marks, results>>
historyVars == <<sent, overlapped, passed, finished>>
vars == <<index, marks, results, page, req, sent, overlapped, passed, finished>>

Positions == 0..(Size - 1)
Last      == Size - 1
Reports   == {"answer", "skip", "exit"}

Marks   == [completed : SUBSET Positions, skipped : SUBSET Positions]
NoMarks == [completed |-> {}, skipped |-> {}]
Seen(m) == m.completed \cup m.skipped

(* A page: pos is its currentIndex, ready its formSavedForCurrent, which   *)
(* enables Next and Finish, mirror its copy of the marks.                  *)
Pages  == [open : BOOLEAN, pos : Positions, ready : BOOLEAN, mirror : Marks]
Closed == [open |-> FALSE, pos |-> 0, ready |-> FALSE, mirror |-> NoMarks]

(* A request: what it reports about which problem, the page that waits for *)
(* it, how far the server is, and the marks it read.                       *)
Slots == [stage : {"idle", "sent", "read", "inserted", "done"}, from : Tabs \cup {NoTab},
          kind : Reports \cup {"save", "complete"}, at : Positions, copy : Marks]
Idle  == [stage |-> "idle", from |-> NoTab, kind |-> "exit", at |-> 0, copy |-> NoMarks]

TypeOK ==
    /\ index \in Positions
    /\ marks \in Marks
    /\ results \subseteq (Positions \X Reports)
    /\ page \in [Tabs -> Pages]
    /\ req \in [Requests -> Slots]
    /\ sent \in 0..MaxSent
    /\ overlapped \in BOOLEAN /\ passed \subseteq Positions /\ finished \in BOOLEAN

(* create_session, and nobody has opened it yet. *)
Init ==
    /\ index = 0 /\ marks = NoMarks /\ results = {}
    /\ page = [t \in Tabs |-> Closed]
    /\ req = [r \in Requests |-> Idle]
    /\ sent = 0 /\ overlapped = FALSE /\ passed = {} /\ finished = FALSE

(* push_unique of a problem into the list its report is about. (A          *)
(* definition whose name begins with Bug is a plausible mistake in the one *)
(* that follows it; no specification uses it, and a property that holds is *)
(* shown to fail with the mistake in place.)                               *)
BugPush(m, p, k) ==
    CASE k = "answer" -> [m EXCEPT !.completed = {p}]
      [] k = "skip"   -> [m EXCEPT !.skipped = {p}]
      [] OTHER        -> m

BugPushExclusive(m, p, k) ==
    CASE k = "answer" -> [completed |-> m.completed \cup {p}, skipped |-> m.skipped \ {p}]
      [] k = "skip"   -> [completed |-> m.completed \ {p}, skipped |-> m.skipped \cup {p}]
      [] OTHER        -> m

Push(m, p, k) ==
    CASE k = "answer" -> [m EXCEPT !.completed = @ \cup {p}]
      [] k = "skip"   -> [m EXCEPT !.skipped = @ \cup {p}]
      [] OTHER        -> m

(* What a page does with its mirror once the server has answered.          *)
Reflect(m, p, k) ==
    IF k = "answer"
    THEN [completed |-> m.completed \cup {p}, skipped |-> m.skipped \ {p}]
    ELSE [m EXCEPT !.skipped = @ \cup {p}]

(* The position a report carries: a skip moves on, the others stay.        *)
BugNextIndex(p, k) == IF k = "skip" THEN p + 1 ELSE p

NextIndex(p, k) == IF k = "skip" /\ p < Last THEN p + 1 ELSE p

----------------------------------------------------------------------------
(* The page. *)

(* The page g at problem p with mirror m, once its effect has run.         *)
Showing(g, p, m) == [g EXCEPT !.pos = p, !.ready = p \in m.completed, !.mirror = m]

(* fetchSession when the page mounts: a new one, a reload or a resumption. *)
Load(t) ==
    /\ ~page[t].open
    /\ page' = [page EXCEPT ![t] = Showing([@ EXCEPT !.open = TRUE], index, marks)]
    /\ UNCHANGED <<serverVars, req, historyVars>>

(* A request leaves the page about the problem it shows.                   *)
Send(t, r, k) ==
    /\ page[t].open /\ req[r].stage = "idle"
    /\ req' = [req EXCEPT ![r] = [Idle EXCEPT !.stage = "sent", !.from = t,
                                              !.kind = k, !.at = page[t].pos]]
    /\ sent < MaxSent /\ sent' = sent + 1
    /\ UNCHANGED <<serverVars, page, overlapped, passed, finished>>

(* handleFormSaved, for a problem not completed yet. *)
Answer(t, r) == page[t].pos \notin page[t].mirror.completed /\ Send(t, r, "answer")

(* handleSave for a problem already completed: only the attempt is stored, *)
(* and handleFormSaved has nothing to report of it.                        *)
Resave(t, r) == page[t].pos \in page[t].mirror.completed /\ Send(t, r, "save")

Skip(t, r) == Send(t, r, "skip")

(* handleExitSession: the page leaves once the request has ended.          *)
Exit(t, r) == Send(t, r, "exit")

(* onFinish, on the last problem and with nextEnabled.                     *)
BugFinish(t, r) == page[t].pos = Last /\ Send(t, r, "complete")

Finish(t, r) == page[t].pos = Last /\ page[t].ready /\ Send(t, r, "complete")

(* handleNext with nextEnabled, and handlePrevious.                        *)
BugNextProblem(t) ==
    /\ page[t].open /\ page[t].pos < Last
    /\ page' = [page EXCEPT ![t] = Showing(@, @.pos + 1, @.mirror)]
    /\ UNCHANGED <<serverVars, req, historyVars>>

NextProblem(t) ==
    /\ page[t].open /\ page[t].ready /\ page[t].pos < Last
    /\ page' = [page EXCEPT ![t] = Showing(@, @.pos + 1, @.mirror)]
    /\ UNCHANGED <<serverVars, req, historyVars>>

Previous(t) ==
    /\ page[t].open /\ page[t].pos > 0
    /\ page' = [page EXCEPT ![t] = Showing(@, @.pos - 1, @.mirror)]
    /\ UNCHANGED <<serverVars, req, historyVars>>

(* The page is gone, and nobody waits for its requests any more.           *)
Orphaned(t) == [s \in Requests |-> IF req[s].from = t THEN [req[s] EXCEPT !.from = NoTab]
                                                      ELSE req[s]]

(* The page is closed, reloaded or left by a link.                         *)
Close(t) ==
    /\ page[t].open
    /\ page' = [page EXCEPT ![t] = Closed]
    /\ req' = Orphaned(t)
    /\ UNCHANGED <<serverVars, historyVars>>

----------------------------------------------------------------------------
(* update_progress and complete_session on the server.                     *)

Writing(r) == req[r].stage \in {"read", "inserted"}

(* fetch_session. *)
Fetch(r) ==
    /\ req[r].stage = "sent" /\ req[r].kind \in Reports
    /\ req' = [req EXCEPT ![r].stage = "read", ![r].copy = marks]
    /\ overlapped' = (overlapped \/ \E s \in Requests : Writing(s))
    /\ UNCHANGED <<serverVars, page, sent, passed, finished>>

(* A row for every report: a page's body always has wasSkipped.            *)
InsertResult(r) ==
    /\ req[r].stage = "read"
    /\ req' = [req EXCEPT ![r].stage = "inserted"]
    /\ results' = results \cup {<<req[r].at, req[r].kind>>}
    /\ UNCHANGED <<index, marks, page, historyVars>>

BugUpdateSession(r) ==
    /\ Writing(r)
    /\ req' = [req EXCEPT ![r].stage = "done", ![r].copy = NoMarks]
    /\ index' = NextIndex(req[r].at, req[r].kind)
    /\ marks' = Push(req[r].copy, req[r].at, req[r].kind)
    /\ UNCHANGED <<results, page, historyVars>>

(* The whole JSON, with what the request read and its own report. Whether  *)
(* the session is still active is not asked.                               *)
UpdateSession(r) ==
    /\ req[r].stage = "inserted"
    /\ req' = [req EXCEPT ![r].stage = "done", ![r].copy = NoMarks]
    /\ index' = NextIndex(req[r].at, req[r].kind)
    /\ marks' = Push(req[r].copy, req[r].at, req[r].kind)
    /\ UNCHANGED <<results, page, historyVars>>

(* is_active = false. *)
CompleteSession(r) ==
    /\ req[r].stage = "sent" /\ req[r].kind = "complete"
    /\ req' = [req EXCEPT ![r].stage = "done"]
    /\ finished' = TRUE
    /\ UNCHANGED <<serverVars, page, sent, overlapped, passed>>

----------------------------------------------------------------------------
(* The handlers go on when their request has ended.                        *)

LastSkip(r) == req[r].kind = "skip" /\ req[r].at = Last

(* A page waits for request r, which is of one of the kinds ks.            *)
Awaited(r, ks) == req[r].from # NoTab /\ req[r].kind \in ks

(* The report is acknowledged: the page updates its mirror, and after a    *)
(* skip it moves to where the skip led.                                    *)
Acknowledge(r) ==
    /\ req[r].stage = "done" /\ Awaited(r, {"answer", "skip"}) /\ ~LastSkip(r)
    /\ page' = [page EXCEPT ![req[r].from] =
                  Showing(@, IF req[r].kind = "skip" THEN req[r].at + 1 ELSE @.pos,
                          Reflect(@.mirror, req[r].at, req[r].kind))]
    /\ req' = [req EXCEPT ![r] = Idle]
    /\ UNCHANGED <<serverVars, historyVars>>

(* A problem that neither list of the session has.                         *)
Unseen(p) == {p} \ Seen(marks)

(* The attempt of a completed problem is stored again: whatever problem    *)
(* the page shows by now becomes ready.                                    *)
SavedAgain(r) ==
    /\ Awaited(r, {"save"})
    /\ page' = [page EXCEPT ![req[r].from].ready = TRUE]
    /\ req' = [req EXCEPT ![r] = Idle]
    /\ passed' = passed \cup Unseen(page[req[r].from].pos)
    /\ UNCHANGED <<serverVars, sent, overlapped, finished>>

(* The attempt is not stored: the form says so and nothing follows.        *)
FailSave(r) ==
    /\ req[r].stage = "sent" /\ Awaited(r, {"answer", "save"})
    /\ req' = [req EXCEPT ![r] = Idle]
    /\ UNCHANGED <<serverVars, page, historyVars>>

(* The request with which the handler of the last skip completes the       *)
(* session.                                                                *)
Completion(t) == [Idle EXCEPT !.stage = "sent", !.from = t, !.kind = "complete"]

(* It does so even when its page has been left meanwhile.                  *)
AcknowledgeLastSkip(r) ==
    /\ req[r].stage = "done" /\ LastSkip(r)
    /\ page' = IF req[r].from = NoTab THEN page
               ELSE [page EXCEPT ![req[r].from] =
                       Showing(@, @.pos, Reflect(@.mirror, Last, "skip"))]
    /\ req' = [req EXCEPT ![r] = Completion(req[r].from)]
    /\ UNCHANGED <<serverVars, historyVars>>

(* After a completion or an exit the router leaves the page.               *)
LeaveSession(r) ==
    /\ req[r].stage = "done" /\ Awaited(r, {"exit", "complete"})
    /\ page' = [page EXCEPT ![req[r].from] = Closed]
    /\ req' = [Orphaned(req[r].from) EXCEPT ![r] = Idle]
    /\ UNCHANGED <<serverVars, historyVars>>

(* The page is told of an error, or loses the answer; the server may or    *)
(* may not carry on. updateProgress swallows the error, and the handlers   *)
(* go on as after a success, without the mirror.                           *)
Unawaited(r) == [req EXCEPT ![r].from = NoTab]

FailAnswer(r) ==
    /\ Awaited(r, {"answer"})
    /\ page' = [page EXCEPT ![req[r].from].ready = TRUE]
    /\ req' = Unawaited(r)
    /\ passed' = passed \cup Unseen(page[req[r].from].pos)
    /\ UNCHANGED <<serverVars, sent, overlapped, finished>>

FailSkip(r) ==
    /\ Awaited(r, {"skip"}) /\ ~LastSkip(r)
    /\ page' = [page EXCEPT ![req[r].from] = IF @.pos = req[r].at + 1 THEN @
                                             ELSE Showing(@, req[r].at + 1, @.mirror)]
    /\ req' = Unawaited(r)
    /\ passed' = passed \cup Unseen(req[r].at)
    /\ UNCHANGED <<serverVars, sent, overlapped, finished>>

(* The completion is a request of its own when the server carries on with  *)
(* the skip, and takes its place (s = r) when the server has stopped.      *)
FailLastSkip(r, s) ==
    /\ req[r].stage # "idle" /\ LastSkip(r)
    /\ s = r \/ (req[s].stage = "idle" /\ req[r].from # NoTab)
    /\ req' = [Unawaited(r) EXCEPT ![s] = Completion(req[r].from)]
    /\ passed' = passed \cup Unseen(req[r].at)
    /\ UNCHANGED <<serverVars, page, sent, overlapped, finished>>

FailExit(r) ==
    /\ Awaited(r, {"exit"})
    /\ page' = [page EXCEPT ![req[r].from] = Closed]
    /\ req' = Orphaned(req[r].from)
    /\ UNCHANGED <<serverVars, historyVars>>

FailComplete(r) ==
    /\ Awaited(r, {"complete"})
    /\ req' = Unawaited(r)
    /\ UNCHANGED <<serverVars, page, historyVars>>

(* A request nobody waits for ends, at whatever point the server is.       *)
Forget(r) ==
    /\ req[r].stage # "idle" /\ req[r].from = NoTab
    /\ req' = [req EXCEPT ![r] = Idle]
    /\ UNCHANGED <<serverVars, page, historyVars>>

PageStep(t) ==
    \/ Load(t) \/ NextProblem(t) \/ Previous(t) \/ Close(t)
    \/ \E r \in Requests : \/ Answer(t, r) \/ Resave(t, r) \/ Skip(t, r)
                          \/ Exit(t, r) \/ Finish(t, r)

ServerStep(r) == Fetch(r) \/ InsertResult(r) \/ UpdateSession(r) \/ CompleteSession(r)

EndStep(r) ==
    \/ Acknowledge(r) \/ AcknowledgeLastSkip(r) \/ LeaveSession(r)
    \/ SavedAgain(r) \/ FailSave(r) \/ FailAnswer(r) \/ FailSkip(r)
    \/ FailExit(r) \/ FailComplete(r) \/ Forget(r)
    \/ \E s \in Requests : FailLastSkip(r, s)

Next ==
    \/ \E t \in Tabs : PageStep(t)
    \/ \E r \in Requests : ServerStep(r) \/ EndStep(r)

Spec == Init /\ [][Next]_vars

----------------------------------------------------------------------------
(* Properties. *)

Recorded(m) ==
    /\ \A p \in m.completed : <<p, "answer">> \in results
    /\ \A p \in m.skipped : <<p, "skip">> \in results

(* The log knows whatever anybody claims: a problem that the session or a  *)
(* page counts as completed or skipped has its result row, whatever fails  *)
(* between the statements of update_progress.                              *)
ClaimsAreRecorded == Recorded(marks) /\ \A t \in Tabs : Recorded(page[t].mirror)

(* Progress a page shows is progress the session keeps, whatever other     *)
(* pages do and whatever fails, unless two progress requests overlapped.   *)
ShownIsKept ==
    ~overlapped => \A t \in Tabs :
        /\ page[t].mirror.completed \subseteq marks.completed
        /\ page[t].mirror.skipped \subseteq marks.skipped

(* Where no requests overlap, the session's progress never shrinks: a      *)
(* skip does not undo an answer, nor a page with an old mirror the work of *)
(* another.                                                                *)
ProgressGrows ==
    [][~overlapped' => /\ marks.completed \subseteq marks'.completed
                       /\ marks.skipped \subseteq marks'.skipped]_vars

(* A session resumed on any page starts where each earlier problem is      *)
(* completed or skipped, whichever pages and handlers, current or left,    *)
(* moved it, but for problems that were let pass unseen: on a page whose   *)
(* own report of them failed, or which was enabled at them by the late     *)
(* save of another problem (or by a failed one).                           *)
ResumePassesNothing ==
    ~overlapped => \A p \in Positions : p < index => p \in Seen(marks) \cup passed

(* A session is only completed with every problem completed or skipped,    *)
(* but for those that were let pass unseen.                                *)
FinishedIsCovered == ~overlapped /\ finished => Seen(marks) \cup passed = Positions
=============================================================================
