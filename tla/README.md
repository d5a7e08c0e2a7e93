# Verification of WQN

WQN ("Wrong Question Notebook") is a Rust/Axum server (`backend/`) over PostgreSQL and
a directory of files, and a Next.js web application (`frontend/web/`). Users collect the
problems they got wrong, with images, practise them on a spaced-repetition schedule and
let a language model read photos of problems. This directory holds TLA+ models of the
parts of it in which several requests, processes or failures meet, the TLC runs that check
them on small instances, and TLAPS proofs for instances of any size.

There are no long transactions in this server: most handlers read a row, do something
slow (files, a model call, a computation) and write in a separate statement. So almost all
that is hard here is of one kind, *a check and its use are apart*, and the models keep
exactly those steps apart that the code keeps apart.

## The system

| Component | State | Operations | What is hard | What makes it correct |
|---|---|---|---|---|
| Daily AI quota (`services/quota.rs`, `services/limits_config.rs`, `routes/ai.rs`) | `usage_quotas` rows with their lock, overrides, configured defaults | `check_and_increment_quota`, the two AI handlers, `set_quota_override`, `set_limit_defaults` | concurrent charges, stale limits, midnight, aborts inside the transaction | an atomic daily counter within a limit, charged exactly for what committed; every request answered |
| Problem files (`services/storage.rs`, `services/cleanup.rs`, `routes/files.rs`, `use-problem-assets.ts`, `file-manager.tsx`) | files and directories, `problems.assets`, the form's lists, requests in flight | upload, delete, submit, cleanup of an abandoned form, the reaper's sweep, copy and deletion of rows | check and removal not atomic, lost beacons, the browser's `beforeunload`, half-stored batches, crashes, sharing by copies | saved and open work keeps its files, abandoned files are reclaimed |
| QR upload (`routes/qr.rs`, `image-scan-uploader.tsx`, `mobile-uploader.tsx`) | `qr_upload_sessions` row, the photo on disk, the desktop's poll | create, upload, status, consume, fetch | several phones, overlapping polls, expiry, retries, lost replies | a slot filled once and taken once; what is shown is what was recorded; an upload arrives |
| Attempts and schedule (`routes/attempts.rs`, `services/review.rs`) | `problems.status`, the `review_schedule` row | `create_attempt`, `update_attempt`, `ensure_initial_schedule`, edits, deletion | three writes without a transaction, stale schedules, same-day guard, late writes, calendar end | one advance a day, columns that belong together, nothing forgotten or left over |
| Review sessions (`routes/review_sessions.rs`, `session-review-client.tsx`) | one JSON of completed and skipped ids, result rows, the client's mirror | start, progress, complete, abandon | read-modify-write of the JSON by several tabs, acknowledgements out of order, swallowed errors, two active sessions | progress shown is progress kept; nothing is passed over on resumption; only a covered session is completed |
| Accounts and administration (`auth.rs`, `routes/auth.rs`, `services/accounts.rs`, `services/admin.rs`, `cli.rs`) | account row with a token version, profile row with role and flag, tokens held by clients | login, password change, patches and roles, both switches, deletion, the command line | account and profile written apart without a foreign key, versions and roles read before they are used | a token dies with the password or the account; the two rows agree; a super_admin stays |
| Problem sets (`services/problem_sets.rs`) | sets, links, shares, likes, copies | create, share, copy, like | loops of single inserts, delete-then-insert, check-then-insert, deletions meanwhile | a recorded copy is whole, the sharing list is a register, the limit holds but for overlaps |
| Limits (`services/content_limits.rs`, `state.rs`, `middleware.rs`) | counts, sliding windows in memory | check, prune | stamps taken before the mutex, pruning with another policy's window, restarts | at most the limit in every window, nobody refused below it |

The rest (queries and filters, subjects and tags, profiles, insights, statistics,
discovery, rendering, translations, deployment) is single statements,
read-only queries or layout; `PROJECT.json` lists every part with its status, and under
`hazards` every place found where this code can go wrong in a way a test hardly reaches,
with the properties that cover it.

How the components meet: the create form makes up a problem id and uploads under it before
the row exists; `create_problem` writes the row and then the initial schedule; the cleanup
request and the reaper ask the table of problems before they touch files; a copied row
shares the files of its source; a consumed QR photo becomes an upload of the form after the
quota has admitted its extraction; an attempt writes the problem's status and moves its
schedule, from which review sessions pick their problems; every request passes the rate
limiter, and nearly every one then proves with a token that its account is open.

## Modules

| Module | Models |
|---|---|
| `DailyBudget` | what the quota promises: a counter per day that moves by one within some limit |
| `Quota` | `check_and_increment_quota` step by step, the gate of the AI handlers, the administrator, midnight |
| `ProblemFiles`, `MCProblemFiles` | the files of one user's problems; the selections of files for TLC |
| `OneShotSlot` | what a QR session promises: a slot filled once, unchanged, taken once |
| `QrUpload` | the session's row, the photos, phones and the polling desktop |
| `ReviewSchedule` | one problem's status and SM-2 schedule under overlapping attempts |
| `ReviewSession`, `MCReviewSession` | one review session: its JSON, its result rows, its pages and their requests; the symmetry for TLC |
| `Sessions` | what the token version promises: sessions begin singly while the account is open and end together |
| `Accounts`, `MCAccounts` | one account, its profile and its tokens under its owner, administrators and the command line; symmetry and view for TLC |
| `RateLimiter`, `MCRateLimiter` | the buckets of admission times, one mutex, several policies; the policies for TLC |
| `ProblemSets`, `MCProblemSets` | one shared set, its sharing list, and another user's sets created or copied from it; symmetry and view for TLC |
| `*Proofs` | the theorems about the module they extend |

Each action is one atomic step of the code: a statement of the database, a file-system
operation, or the handling of a reply; the local computation around it belongs to it. A
request's place is a program counter (`pc`, `up`, `poll`, `cleanup`, `create`, `stage`), what it has
read is a variable of its own (`limit`, `work`, `base`, `body`, `taken`, `copy`), so every stale
use of the code is one of the model. Definitions whose name begins with `Bug` are plausible
mistakes in the definition that follows; no specification uses them, and every property of
a passing run is shown to fail with one of them in place (`mutants`).

* **Quota.** `ReadDefaults` (outside the transaction), `ReadLimit` (begin, override, day),
  `UpsertRow` (takes the row lock), `Deny` or `Increment`, `Commit`, then `Gate` and
  `GeminiReply` of the handler. `Abort` is an error or crash anywhere; an open transaction
  rolls back. A day's row that does not exist counts as 0.
* **ProblemFiles.** A file is `<<problem, role, name>>`. A slot of `Requests` carries one upload
  or deletion: `UploadSend` (a selection in the file manager), `AttachSend` (a scanned image) or
  `DeleteSend`, at any time and as many as there are slots, also of one role and one name, since
  nothing disables the input meanwhile. `UploadCheck`, `UploadWrite`, `UploadRename` store a batch
  one by one (existence check, directory and temporary file, rename, which replaces what another
  upload has stored since the check), `UploadReply` is the answer; `DeleteFile` and `DeleteReply`
  are a deletion and its answer. While an upload is under way the form lists its empty path
  (`Uploading`), and each answer but a scanned image's replaces the list by one made from the
  list at sending, as the closures of `file-manager.tsx` do: so an old answer may drop a new file
  from the list, bring a deleted one back, or leave a placeholder for good. `Submit` comes at any
  time with what the form lists; a body with a placeholder is refused (`CreateFails`, never
  `CreateInsert`), so that after a stuck placeholder every later submission of the form is refused.
  `Leave` and `Stay` send the cleanup; `CleanupCheck`/`CleanupRemove` and
  `SweepList`/`SweepCheck`/`SweepRemove` are the two removers. A removal under an upload
  makes its rename fail (`"lost"`). `Crash` ends every request and sweep.
* **QrUpload.** `UploadRead` reads the row once, before the photo streams in;
  `UploadCheck`/`UploadStore` are `upload_object`; `UploadRecord` updates the row if it is
  still pending. The desktop has several requests because its interval timer does not wait
  for the answer of the last poll. Its polling may stop at any time, whatever the state of the
  session: by the countdown, which goes by the desktop's own clock, by the unmount, or by a late
  callback of an earlier session, since all sessions share one timer (`StopListening`); or because
  the user pastes, drops or selects an image or starts over (`TakeOver`). `stopped` is history: the
  polling has ended without word of a photo. `lost` counts failed consumes, which are not repeated.
* **ReviewSchedule.** `Begin` (read and grade), `Record`, `Mark`, `ReadSchedule`, `Compute`
  (or `Panic`), `Upsert`. Time is in the user's local days, the ease factor in hundredths;
  the rounding of an interval is exact in these units (`Stretched`).
* **ReviewSession.** A problem is its position in `problem_ids`; `marks` are the completed
  and skipped ids of the JSON, `page[t].mirror` the page's copy, `page[t].ready` its
  `formSavedForCurrent`. `Answer`, `Resave`, `Skip`, `Exit` and `Finish` send a request and do not
  wait (navigation stays enabled meanwhile); `Fetch`, `InsertResult`, `UpdateSession` are the three
  statements of `update_progress`; `Acknowledge..`, `LeaveSession` and `Fail..` are the rest
  of the handlers once the request ended. An error is swallowed and the handler goes on, while
  the server may still carry on with the request (`from = NoTab`). A skip of the last problem
  completes the session, even when its page has been left meanwhile; every page of a session
  left by a link may therefore have handlers alive. React batches the mirror's update with the one
  of `ready` after it, and the effect on both runs last, so a page is ready exactly if its mirror
  has its problem as completed, with two exceptions: a failed answer (`FailAnswer`), and the
  assessment of a completed problem saved again (`Resave`, then `SavedAgain`), whose handler
  makes ready whatever problem the page shows by the time the attempt is stored. `overlapped`,
  `passed` and `finished` are history: two progress requests of the server overlapped; the unseen
  problems that a page let the user past, because their own report failed or one of the two
  exceptions enabled them; the session was completed. The properties about progress are
  conditional on the first and except the second, because the code does lose progress to an
  overlap (the later write carries the older JSON) and does let problems pass unseen in these
  ways; they say that these are the *only* ways.
* **Accounts.** `account` is the row of `app_users`, `profile` that of `user_profiles`; nothing
  ties them together but sign-up and deletion. A slot of `Requests` runs one request after the
  other. `LoginRead` and `LoginIssue` are the read of `login` and its token, issued for the
  version that was read; `ChangeRead`, `ChangeUpdate`, `ChangeIssue` are `change_password`,
  whose token is for the version read plus one whatever the update made of the row.
  `CheckRole`, `InsertProfile`, `SetRole`, `Switch`, `WriteFlag` are `update_user` and
  `update_role`, one step per statement; `Toggle` is the other switch; `Find`, `Promote`,
  `Reset` the command line. `raced` records the three kinds of overlap that make the rows
  disagree: two switches that cross (or one that fails half-way), a profile inserted after the
  deletion, a role written over a promotion; the properties say there are no others.
  `user_profiles.is_active` is written and, but for the profile a user sees, never read:
  whether an account is open is `disabled_at` alone. A patch that makes an account super_admin
  and switches it at once changes the role only, as `set_account_active` then finds nobody.
* **RateLimiter.** `Arrive` takes the time stamp, `Check` is the rest of `check_with_limit`
  under the mutex, so stamps reach a bucket out of order; `Lag` is the longest wait. A bucket
  is the set of requests whose stamps it holds. `Pruned` is the clean-up above 10,000 buckets
  with the caller's window, `Restart` the loss of all buckets. `counted` is history: the
  requests a policy has let through since its bucket was last forgotten before its time, by a
  restart or by a caller of a shorter window.
* **ProblemSets.** A request names the set it makes or the list it writes. `CheckLimit` and
  `InsertSet` create within the content limit; `CopyRead` .. `CopyRecord` are the statements of
  `copy_problem_set`; `UpdateRow`, then the transaction `DeleteStarts`, `DeleteEnds`,
  `AddShares`, `Commit` are `update_problem_set` with `replace_shares`. A statement sees what is
  committed when it starts and waits for a transaction that has deleted or inserted a row it
  wants; the inserts of one list are one step, because nothing of them is visible before the
  commit. `taken`, `earlier`, `crossed`, `over` are history. That a copy is refused by no limit,
  and that overlapping creates pass it together, is what the code does; `OverOnlyIfCrossed`
  says that this is the only way past it.

## Runs

| Run | Expect | Question and answer |
|---|---|---|
| `Quota` | pass | Two requests, limits 0, 1 (default) and 2, two days. Every charge counted, usage within a limit that was read, no call without a charge, refines `DailyBudget`, every started request answered. |
| `QuotaLastUnit` | violation | May a request use a unit that remains? Not the last one: `quota_result` looks at the count *after* the increment. |
| `ProblemFiles` | pass | One form with up to three uploads and deletions of one name, two at once, a copy, one failure of any kind. Saved rows keep their files, unless a remover had found no row; what a form lists stays in place until the form is `REAP_GRACE` old or has sent its own cleanup; abandoned files are reclaimed. |
| `FilesSaved` | violation | Does no removal take a file that its saved problem's row lists? It does when the row arrives between check and removal. |
| `FilesCopied` | violation | Does the reaper touch only files of unsaved problems? It removes those a copy refers to. |
| `QrUpload` | pass | Two phones (or a retry), two overlapping polls, two names, one lost consume. Row points at a stored photo, shown is recorded, refines `OneShotSlot`; an upload recorded while the desktop polls is consumed, unless the polling ends without word of it or the consume is lost. |
| `QrTwoPhones` | violation | Is a phone that is told "Photo sent!" the recorded one? Not the second of two. |
| `ReviewSchedule` | pass | Two overlapping attempts of three statuses over three days, with creation, edits, deletion and failures. One advance a day, well-formed columns, no schedule without problem, no review forgotten. |
| `ReviewSession` | pass | Two problems, two pages (tabs, or a page and its reload), two requests at a time, three sent by hand. Every claim has its result row, always; without an overlap progress never shrinks and contains what any page shows, and no resumption and no completion passes over a problem but for those that a page let pass unseen. |
| `Accounts` | pass | Two requests at a time, two passwords, four token versions. An accepted token is of the password in force; a disabled account has no token that its return would revive; the flags, the rows and a super_admin's role stay in step but for the listed overlaps; refines `Sessions`. |
| `RateLimiter` | pass | Four requests, two clients of one policy (2 in 3) and one of a longer (1 in 4), clean-up above one bucket, a wait of at most 1, restarts. No window holds more than the policy, and nobody is refused below it. |
| `ProblemSets` | pass | Three requests of any kind, one problem, two addresses, limits 1 and 2, deletions at any time. The limit is passed only by overlaps; a recorded copy is whole; the sharing list is a register. |

The four violations are findings about the program, quoted in `PROJECT.json` against the
comment, message or document they contradict. `SavedFilesKept` is the strongest statement
about saved files that the code does keep: `FilesSaved` shows the window that remains.

**Exceptions.** Twelve properties except what the code itself does not prevent. In each case the
model does take the excepted path and goes on after it; the property says that nothing else
leads to the same harm, and not that the path is harmless.

| Property | Excepts | Recorded in |
|---|---|---|
| `SavedFilesKept` | files taken by a remover that had found no row before the insert (`FilesSaved`) or of a source deleted after a copy (`FilesCopied`) | `exposed` |
| `FormFilesKept` | a form open for `REAP_GRACE` or longer, and one that has sent its own cleanup | `formAge`, `stayed` |
| `ShownIsKept`, `ProgressGrows` | two progress requests that overlap on the server | `overlapped` |
| `UploadIsConsumed` | a polling that ends without word of the upload; a consume that is lost | `stopped`, `lost` |
| `ResumePassesNothing`, `FinishedIsCovered` | such an overlap, and problems let pass unseen after a failed report or the save of another problem | `overlapped`, `passed` |
| `FlagsAgree`, `NoOrphan`, `SuperAdminLasts` | crossing switches; a profile inserted after the deletion; a role written over a promotion | `raced` |
| `OverOnlyIfCrossed` | creates that overlap between count and insert | `crossed` |
| `WindowRespected` | what a policy let through before its bucket was forgotten early | reset of `counted` |

Four observations that the models show and no run is spent on:

* Nothing refreshes the mtime that the reaper goes by while a form stays open and uploads into
  the role directories it has: a form older than `REAP_GRACE` may lose the files it lists, although
  `cleanup.rs:11-12` says that "in-flight uploads and a form the user is still editing are never
  disturbed".
* `useProblemAssets` sends the cleanup in `beforeunload`, before the browser's question is
  answered: when the user stays (`Stay`), the form may lose the files it lists.
* The assessment of a completed problem saved again and answered late enables Next or Finish on
  whatever problem is then shown, although the effect at `session-review-client.tsx:140` is there
  to "Reset form saved tracking when navigating to a new problem"; the problem may be passed or
  the session completed without it, with no failure and no other page.
* Nothing bounds an interval: a problem mastered on some seventeen consecutive days has a next
  date past the end of `chrono`'s calendar, and the request panics after the attempt and the
  status were written (`Panic`).

**Bounds.** Two requests suffice for the races, as each is between one that checked and one
that acts; the requests of a slot in `ReviewSchedule` are unlimited in number, two at a
time. Two days in `Quota` let a request be counted for a day that is over; three in
`ReviewSchedule` reach the third repetition, the first whose interval is a product, and the
end of a calendar of nine days, so that `Panic` fires. In `ProblemFiles` one name suffices
for every conflict and replacement (an upload meets the file of an earlier one, of one that
overlaps it, or of one that was deleted), two requests overlap, and with three sent one may answer
after both others; a selection of several names that stops half-way is, for the files and the
list, one that stores its file and then meets the fault. The copy is the second row, and one
fault stands for every single point of failure; `Grace` is 1 tick, as only "past the grace" and
"not past" differ. The two violations need one request at a time. `MaxLost` is 1 because a
consume that fails is not repeated. In `ReviewSession` two problems are a first and a last one, which the
handlers tell apart; two requests overlap, and with three sent by hand (completions after a
last skip come on top) one may arrive after both others ended; pages and requests are each
interchangeable (`Alike`). In `Accounts` each overlap is one request between two steps of
another; four versions let a token be issued, overtaken by one change and by a second, and
another change come on top; of the roles only whether it is super_admin matters, so "user"
stands for the other three. In `RateLimiter` four requests exceed each policy by at least two, so one
may be pruned or late and the limit still be reached; time ends after the longer window has
passed once. In `ProblemSets` three requests let a third see what an overlap of two has left;
one problem that comes, goes and is copied is enough for a copy that misses it. `VIEW Ahead`
in `Accounts` and `ProblemSets` leaves out what a request has read once it will not use it any
more: such values enable no step and enter no property but `TypeOK`, which is proved. TLC
explores about 120,000 (`Quota`), 870,000 (`ProblemFiles`), 79,000 (`QrUpload`), 2,250,000
(`ReviewSchedule`), 2,585,000 (`ReviewSession`), 970,000 (`Accounts`), 1,530,000
(`RateLimiter`) and 1,020,000 (`ProblemSets`) distinct states.

**Deadlock** is not checked where the system may stop: when each request of a bounded set
has been made, or the clock or the last version has been reached, nothing need be left to do.
`Quota` checks it.

**Fairness.** Weak fairness of a started request's own steps (`Quota`, `ProblemFiles`): the
runtime polls every future and the database grants a row lock that is released; a request
need not arrive. In `ProblemFiles` the reaper's steps are weakly fair (a ticker that goes on
after errors) and time is strongly fair, as it passes whenever requests have come to an end.
In `QrUpload` the desktop's steps are weakly fair (an interval timer, as long as it runs) and the
answer and reply of a poll strongly so: polls may fail for a while, not for ever. The polling
itself may end at any time, and then `UploadIsConsumed` promises nothing. Nothing is assumed of
users, phones or beacons. `Accounts`, `RateLimiter` and `ProblemSets` state no fairness: all
that is said of them is safety.

## Proofs

TLAPS proves, for every value of the constants that their assumptions allow:

* `QuotaProofs`: all safety properties of the run and the refinement of `DailyBudget`. The
  counter alone is not inductive: `QuotaInvariant` adds that a transaction that holds the row
  has the committed count (plus one, once it has incremented) and a limit not yet reached,
  and that only the holder of a day's lock is inside. From it the committed count of a day is
  the cardinality of the requests charged to it, and each commit is a `Spend` of the counter.
  A second invariant, `Numbered` (the counts the charged requests of a day saw are pairwise
  different, and the gate compares them with the limit they read), shows what each request is
  told: calls stay strictly below a limit in force (`CallsStayBelow`), nobody is refused while
  there is room (`RefusalsJustified`), and the unit that the run `QuotaLastUnit` loses is the
  only one of its day and limit (`LossIsOneUnit`). The counter's promises are carried over to
  the transactions: a day's count moves by single units and never down (`UnitsAreSpentSingly`)
  and stays within every bound of the limits (`BoundedByLimits`). Every step of a request
  lowers its `Rank` (`RequestsOnlyAdvance`).
* `ProblemFilesProofs`: `TypeOK`, `SavedFilesKept`, `FormFilesKept`. `RequestsSound` ties a
  request in flight to the role directory and the name it is about. `ListsKept` extends "kept" to
  every list that may become a row's or a form's (`body`, `base`, `done`); two facts make it
  inductive: a file that is kept stays so, because every remover at work has exposed its problem
  first (`RemoversExposed`), and a list only takes over entries of other lists or files just
  stored, however requests overlap and answer (`FlowStep`). `YoungSpared` is what protects a form:
  before it is opened there is nothing of its problem (`Unopened`), so its directory is never
  older than itself, and no remover is at work on an undisturbed one; hence whatever it lists, or
  will list from an answer on its way, is in place or was removed by its user (`YoungLists`).
  `Places` adds whose files a list may hold and where files lie (`FilesInPlace`), and the two
  findings get their extent: only copies lose files to the removal of a directory without a row
  (`OnlyCopiesAreHarmed`), and a saved problem is in danger only from a remover that asked before
  its insert (`SettledRowsAreSafe`).
* `QrUploadProofs`: `TypeOK`, `RecordedFileStored`, `ShownIsRecorded` and the refinement of
  `OneShotSlot`. The invariant says where photos lie, and that a consume past its check
  carries the recorded path, which no longer changes. `Answers` says that whatever phones and
  desktop are told has its cause: a success has a stored and recorded photo behind it, though
  perhaps another phone's (`SuccessIsSomeRecord`, the extent of the run `QrTwoPhones`), a
  conflict a served session or a taken name (`ConflictsAreJustified`), and that a desktop which has
  stopped polling an open session is one that `stopped` records (`DesktopListensOn`). From the slot comes that the
  first record stands (`FirstRecordStands`).
* `ReviewScheduleProofs`: `TypeOK` and all properties of the run. The invariant is about
  schedules rather than the row: every schedule an attempt has read or computed is
  *plausible* as the row is. `StretchedGrows` (an interval of three days or more grows, with
  an ease factor of at least 1.30) and `ReviewDaysAdd` (a review on a later day is one more
  reviewed day) carry the step of `Compute`; everything else copies plausible schedules.
  `Merits`, inductive beside it, shows that the same-day guard protects the ease factor as
  well, which no reset takes back (`EaseIsEarned`), and that a stored date of a reviewed
  problem is one of the calendar (`DatesExist`), as a review that would pass its end panics.
* `AccountsProofs`: all properties of the run, for any number of requests, passwords and
  versions. `IInv` says of every token, and of everything read that will become one, that it
  `Fits`: it is not ahead of the row, and if level with it, the account is open and has its
  password. This covers a login and a password change that are overtaken, as whatever
  overtakes them raises the version. `Rows` says what requests in flight will write into the
  two rows as long as no overlap of the recorded kinds has happened. The refinement follows:
  every step that raises the version, or deletes, ends all sessions; every other step begins
  at most one. So sessions end only together (`SessionsEndTogether`). A change of the password
  or of the state always raises the version (`VersionTellsChanges`), and a token once refused
  stays refused, whatever is restored later (`RefusedForEver`).
* `RateLimiterProofs`: all properties of the run, for any policies, clients and waits. The limit
  follows from `Kept` (a counted request leaves its bucket only when its window has passed) and
  `Stamped` (no stamp is from the future, none waits longer than `Lag`): whoever is admitted
  found fewer than the policy allows of all counted ones in its window. `Lag` shortens the
  windows the limit is stated for: a request that waited is checked with an early stamp, and
  what a request with a later one has dropped from the bucket meanwhile may still lie in its
  window, by no more than the wait. With an uncontended mutex (`Lag = 0`) it is the whole window.
  A bucket holds at most what its policy admits (`MemoryIsBounded`); how many buckets there
  are is not bounded by the code, which only drops stale ones.
* `ProblemSetsProofs`: all properties of the run. The invariant has three parts that share only
  the places of the requests: a create that nothing crossed has room (`Room`); what a copy has
  linked, holds and has still to do is what it took (`Progress`); a replacement under way has
  every older share on its list of deletions (`OldDoomed`) and adds nothing but its own list,
  all of it unless another one overlaps (`AddsOwn`). `Rows` is inductive beside it: what a
  transaction will commit is in no row but those it deletes (`AddsMissing`), and two that are
  about to commit add different addresses (`AddsApart`). So no address has two rows however
  updates overlap (`AddressesAreUnique`, which the schema's unique index demands), every row
  was asked for by the list it comes from (`SharesAreAsked`), and a copy that was cut short
  holds nothing that it had not read (`CopiesAreParts`).
* `ReviewSessionProofs`: `TypeOK` and all properties of the run, for any number of problems,
  pages, requests in flight and reports. `IInv` adds what requests in flight know. Without
  overlaps the one that writes holds the current marks (`WriterCurrent`), and a report that
  is done is in them (`DoneIsKept`): hence a page that mirrors an acknowledged report shows
  kept progress. A problem is covered if the session
  has seen it or a page let it pass unseen (`Covered`). Without overlaps every page and every
  report stands behind problems that are all covered, and a page that is ready on one that is
  (`PagesStandOnCovered`, `ReportsStandOnCovered`); the index inherits this from the report that
  wrote it, and a completion on its way finds the session covered (`CompletionsCover`). `Last` is
  completed from a page that was ready or by a skip, so its predecessors and itself are covered
  (`CoveredToLast`).

The assumptions are the `ASSUME`s of the modules: the bounds are numbers, the "none" values
are not among the real ones, batches are sequences of names, both "user" and "super_admin" are
roles, a policy allows at least one request, and the requests of `Quota`, `RateLimiter` and
`ProblemSets` are finitely many (they are counted).

The properties that only these theorems state were put to TLC before they were proved, on the
constants of the runs or smaller ones (for `Accounts` on part of the states). They stand at
the end of the proof modules, after the properties of the runs.

Only model-checked: the liveness properties `RequestAnswered`, `OrphansReclaimed` and
`UploadIsConsumed`, which are beyond the prover, and the four counterexamples.

## What is left out

* `ProblemFiles`: edit mode, where the row exists and the asset list is patched after each
  upload or deletion; who may read a file; validation of paths and types; the virus scan (a
  scan that refuses is one of the failures of `RequestFails`). A file is its name: which of two
  uploads of one name has the last word on its content is not told apart. Requests belong to the
  form that sent them: in the code a scanned image that arrives after its form was saved is added
  to the list of the next form, whose problem it does not belong to.
* `QrUpload`: the token and the creation of sessions. One session is modelled; of an earlier one
  only that its late callback stops the polling of this one, not that its photo may still arrive
  and be shown.
* `ReviewSchedule`: grading (the status is an input), changes of the time zone, the local
  clock's gaps and repetitions at daylight-saving changes, the AI's error categorisation.
* `ReviewSession`: starting and finding sessions (two tabs may start two active ones),
  discarding one (`delete_session`, which changes only `is_active`), read-only sessions, which
  report nothing, problems deleted during a session (the page at their position is a dead
  end), the elapsed time and the counts of the summary. `is_active` is read only by the
  lookup of sessions, so `finished` stands for it. `spaced-review-client.tsx` has the same
  handlers. An attempt and the report that follows it are one request: an attempt that ends late,
  after its page went on, is an answer that reaches the server late, and one that is not stored
  ends there (`FailSave`).
* `Quota`: both resources are alike and independent, one is modelled.

* `Accounts`: cookies, the settings and listings of the administration, the refusals to act on
  one's own account, the administrators' own roles (any actor may do what its handler does),
  the token's encoding and expiry. Other columns of the two rows are not followed. The deletion is
  one step; in the code its statement reads the role in the snapshot with which it began, so that
  a promotion which commits while it waits for the row does not stop it.
* `RateLimiter`: how the policy and the client of a request are found (a key is an input), the
  rejection of malformed paths before the limiter, `OPTIONS` requests.
* `ProblemSets`: links and shares of a newly created set (the same code as those of an update),
  smart sets, whose problems come from a filter, what the owner of a new copy does to it while it
  is being filled, `copy_problem`, who may view a set, and likes,
  favourites, views and reports, each one statement with a unique index. The limit of problems,
  subjects and tags is checked in the same way as that of sets.
* Everything else: subjects, tags, problem queries and filters, profiles, insights, discovery
  and the frame of the server are single statements or read-only queries, whose atomicity is the
  database's. By far the largest part of the repository is pages, dialogs, editors, text
  and configuration without a protocol; the share of the code the models stand for is
  therefore small, and is meant to be where requests meet.

## Status of the plan

The modules and proofs of the plan are done: `Quota`, `ProblemFiles`, `QrUpload`,
`ReviewSchedule`, `ReviewSession`, `Accounts`, `RateLimiter`, `ProblemSets`. What would come
next:

1. The edit mode of the file manager, as further actions of `ProblemFiles` and its invariant:
   files are stored or deleted first and the row's whole list is patched afterwards, by
   requests that may fail silently or overtake each other.
2. Starting review sessions (two tabs may start two), and the two lists of a session: the page
   takes an answered problem out of its skipped list and the server does not, although the
   page's code calls itself a mirror of the server's (`session-review-client.tsx:176`).
3. A second time zone in `ReviewSchedule`, which is read anew for each review.
