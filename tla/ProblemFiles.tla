---------------------------- MODULE ProblemFiles ----------------------------
(***************************************************************************)
(* The files of one user's problems. A form in the browser uploads them    *)
(* under a problem id it made up (use-problem-assets.ts), the row arrives  *)
(* later (create_problem), and three parties remove files: the user, the   *)
(* cleanup request of an abandoned form, and the reaper of                 *)
(* backend/src/services/cleanup.rs. Rows and files are never changed       *)
(* together: each of them is checked and used in separate steps.           *)
(*                                                                         *)
(* A file is <<problem, role, name>>, as in its storage path               *)
(* user/../problems/{problem}/{role}/{name}. A form keeps one list per     *)
(* role (file-manager.tsx); nothing stops the user from starting the next  *)
(* upload or deletion, or from submitting, while others are under way.     *)
(***************************************************************************)
EXTENDS Integers, Sequences

CONSTANTS Problems,   \* the ids made up by create forms
          CopyIds,    \* the ids of rows made by copy_problem_row
          Roles,      \* "problem" and "solution"
          Names,      \* sanitized file names
          Uploading,  \* the empty path of a file that is still uploaded
          Batches,    \* the file selections: sequences of names
          Requests,   \* bound: uploads and deletions in flight at once
          NoProblem,  \* the reaper is at no directory
          Grace,      \* REAP_GRACE, in ticks
          MaxSent,    \* bound: uploads and deletions sent in all
          MaxFaults   \* bound: injected failures, lost replies and crashes

ASSUME BatchAssumption == Batches \subseteq Seq(Names)
ASSUME IdAssumption    == Problems \cap CopyIds = {} /\ NoProblem \notin Problems
ASSUME NameAssumption  == Uploading \notin Names
ASSUME BoundAssumption == Grace \in Nat \ {0} /\ MaxSent \in Nat /\ MaxFaults \in Nat

VARIABLES exists,      \* ids with a row in problems
          assets,      \* assets and solution_assets of each row
          disk,        \* files in place under problem-uploads
          dirs,        \* role directories on disk, as <<problem, role>>
          age,         \* time since the mtime of a problem's directory
          up,          \* where an upload or deletion stands
          kind,        \* what the form does with its answer
          dir,         \* the role directory it is about
          todo,        \* names it has still to store or delete
          done,        \* files it has stored
          base,        \* the form's list for the role when it was sent
          create,      \* the create request of a form
          body,        \* the files it names
          cleanup,     \* the cleanup request of a form
          candidates,  \* directories the sweep has still to look at
          target,      \* the directory the sweep is about to delete
          phase,       \* the form
          listed,      \* the files it shows
          formAge,     \* how long it has been open
          sent,        \* uploads and deletions so far
          faults,      \* failures so far
          discarded,   \* history: files the user removed
          stale,       \* history: directories of grace age when listed
          exposed,     \* history: problems a remover rightly found without row
          stayed       \* history: forms that sent their cleanup and stayed open

rowVars    == <<exists, assets>>
fileVars   == <<disk, dirs, age>>
uploadVars == <<up, kind, dir, todo, done, base, sent>>
createVars == <<create, body>>
sweepVars  == <<candidates, target, stale>>
formVars   == <<phase, listed, formAge, stayed>>
vars == <<exists, assets, disk, dirs, age, up, kind, dir, todo, done, base, create, body,
          sent, cleanup, candidates, target, phase, listed, formAge, faults, discarded, stale,
          exposed, stayed>>

RoleDirs == Problems \X Roles
Nowhere  == <<NoProblem, NoProblem>>
Files    == Problems \X Roles \X Names
Entries  == Problems \X Roles \X (Names \cup {Uploading})
Ids      == Problems \cup CopyIds
Mounted  == {"open", "submitting"}

TypeOK ==
    /\ exists \subseteq Ids
    /\ assets \in [Ids -> SUBSET Files]
    /\ disk \subseteq Files
    /\ dirs \subseteq RoleDirs
    /\ age \in [Problems -> 0..Grace]
    /\ up \in [Requests -> {"idle", "check", "write", "temp", "remove", "removed", "lost"}]
    /\ kind \in [Requests -> {"hand", "attach", "delete"}]
    /\ dir \in [Requests -> RoleDirs \cup {Nowhere}]
    /\ todo \in [Requests -> Seq(Names)]
    /\ done \in [Requests -> SUBSET Files]
    /\ base \in [Requests -> SUBSET Entries]
    /\ create \in [Problems -> {"none", "sent", "inserted"}]
    /\ body \in [Problems -> SUBSET Entries]
    /\ cleanup \in [Problems -> {"none", "check", "remove"}]
    /\ candidates \subseteq Problems
    /\ target \in Problems \cup {NoProblem}
    /\ phase \in [Problems -> {"closed", "saved", "left"} \cup Mounted]
    /\ listed \in [Problems -> SUBSET Entries]
    /\ formAge \in [Problems -> 0..Grace]
    /\ sent \in 0..MaxSent /\ faults \in 0..MaxFaults
    /\ discarded \subseteq Files
    /\ stale \subseteq Problems
    /\ exposed \subseteq Problems /\ stayed \subseteq Problems

Init ==
    /\ exists = {}
    /\ assets = [i \in Ids |-> {}]
    /\ disk = {}
    /\ dirs = {}
    /\ age = [p \in Problems |-> 0]
    /\ up = [u \in Requests |-> "idle"]
    /\ kind = [u \in Requests |-> "hand"]
    /\ dir = [u \in Requests |-> Nowhere]
    /\ todo = [u \in Requests |-> <<>>]
    /\ done = [u \in Requests |-> {}]
    /\ base = [u \in Requests |-> {}]
    /\ create = [p \in Problems |-> "none"]
    /\ body = [p \in Problems |-> {}]
    /\ cleanup = [p \in Problems |-> "none"]
    /\ candidates = {}
    /\ target = NoProblem
    /\ phase = [p \in Problems |-> "closed"]
    /\ listed = [p \in Problems |-> {}]
    /\ formAge = [p \in Problems |-> 0]
    /\ sent = 0 /\ faults = 0
    /\ discarded = {}
    /\ stale = {}
    /\ exposed = {} /\ stayed = {}

Fault == faults < MaxFaults /\ faults' = faults + 1

OfRole(fs, d) == {f \in fs : <<f[1], f[2]>> = d}
OfProblem(p)  == {f \in disk : f[1] = p}
HasDir(p)     == \E d \in dirs : d[1] = p

----------------------------------------------------------------------------
(* Uploads and deletions. An answer makes the form replace its list for    *)
(* the role by one made from the list it had when the request was sent     *)
(* (handleFileUpload, handleDeleteFile); only the answer to a scanned      *)
(* image is added to the list as it is (useProblemAssets).                 *)

BugPathWithoutRole(u) == <<dir[u][1], Head(todo[u])>>
CurrentFile(u) == <<dir[u][1], dir[u][2], Head(todo[u])>>

Shown(d) == OfRole(listed[d[1]], d)

(* The form, unless it is gone, lists the files fs for the role. *)
ShowFiles(d, fs) ==
    listed' = IF phase[d[1]] \in Mounted
              THEN [listed EXCEPT ![d[1]] = (@ \ OfRole(@, d)) \cup fs]
              ELSE listed

(* What it lists after a success and after an error. *)
AfterSuccess(u) == CASE kind[u] = "hand"   -> base[u] \cup done[u]
                     [] kind[u] = "attach" -> Shown(dir[u]) \cup done[u]
                     [] OTHER              -> base[u] \ {CurrentFile(u)}
AfterError(u)   == IF kind[u] = "hand" THEN base[u] ELSE Shown(dir[u])

(* Requests are alike: the next one is always the same. *)
Free == CHOOSE u \in Requests : up[u] = "idle"

Send(u, k, d, names, list, stage) ==
    /\ phase[d[1]] \in Mounted
    /\ up[u] = "idle" /\ u = Free
    /\ sent < MaxSent /\ sent' = sent + 1
    /\ up' = [up EXCEPT ![u] = stage]
    /\ kind' = [kind EXCEPT ![u] = k]
    /\ dir' = [dir EXCEPT ![u] = d]
    /\ todo' = [todo EXCEPT ![u] = names]
    /\ base' = [base EXCEPT ![u] = list]
    /\ UNCHANGED <<rowVars, fileVars, done, createVars, cleanup, sweepVars, phase, formAge, faults,
                   discarded, exposed, stayed>>

Ends(u, fs) ==
    /\ up' = [up EXCEPT ![u] = "idle"]
    /\ kind' = [kind EXCEPT ![u] = "hand"]
    /\ dir' = [dir EXCEPT ![u] = Nowhere]
    /\ todo' = [todo EXCEPT ![u] = <<>>]
    /\ done' = [done EXCEPT ![u] = {}]
    /\ base' = [base EXCEPT ![u] = {}]
    /\ ShowFiles(dir[u], fs)
    /\ UNCHANGED sent

(* handleFileUpload, and the effect that uploads a scanned image. *)
UploadSend(u, d, batch) ==
    /\ Send(u, "hand", d, batch, Shown(d), "check")
    /\ ShowFiles(d, Shown(d) \cup {<<d[1], d[2], Uploading>>})

AttachSend(u, d, n) == Send(u, "attach", d, <<n>>, {}, "check") /\ UNCHANGED listed

(* handleDeleteFile of a file that is not still uploaded. *)
DeleteSend(u, f) ==
    LET d == <<f[1], f[2]>>
    IN Send(u, "delete", d, <<f[3]>>, Shown(d), "remove") /\ UNCHANGED listed

(* POST /api/files/upload: upload_files stores the files of a request one  *)
(* by one with upload_object, which writes a temporary file and renames    *)
(* it. try_exists: an existing file is a Conflict, and the earlier files   *)
(* of the request stay.                                                    *)
UploadCheck(u) ==
    /\ up[u] = "check" /\ todo[u] # <<>>
    /\ IF CurrentFile(u) \in disk
       THEN Ends(u, AfterError(u))
       ELSE up' = [up EXCEPT ![u] = "write"] /\ UNCHANGED <<kind, dir, todo, done, base, sent, listed>>
    /\ UNCHANGED <<rowVars, fileVars, createVars, cleanup, sweepVars, phase, formAge, faults,
                   discarded, exposed, stayed>>

(* create_dir_all and the temporary file. A new role directory changes the *)
(* mtime of the problem's directory, a file in an old one does not.        *)
UploadWrite(u) ==
    /\ up[u] = "write"
    /\ up' = [up EXCEPT ![u] = "temp"]
    /\ dirs' = dirs \cup {dir[u]}
    /\ age' = IF dir[u] \in dirs THEN age ELSE [age EXCEPT ![dir[u][1]] = 0]
    /\ UNCHANGED <<rowVars, disk, kind, dir, todo, done, base, sent, createVars, cleanup, sweepVars,
                   formVars, faults, discarded, exposed>>

(* Another upload may have stored the name since the check: it is replaced. *)
UploadRename(u) ==
    /\ up[u] = "temp"
    /\ up' = [up EXCEPT ![u] = "check"]
    /\ disk' = disk \cup {CurrentFile(u)}
    /\ done' = [done EXCEPT ![u] = @ \cup {CurrentFile(u)}]
    /\ todo' = [todo EXCEPT ![u] = Tail(@)]
    /\ discarded' = discarded \ {CurrentFile(u)}
    /\ UNCHANGED <<rowVars, dirs, age, kind, dir, base, sent, createVars, cleanup, sweepVars, formVars,
                   faults, exposed>>

UploadReply(u) ==
    /\ up[u] = "check" /\ todo[u] = <<>>
    /\ Ends(u, AfterSuccess(u))
    /\ UNCHANGED <<rowVars, fileVars, createVars, cleanup, sweepVars, phase, formAge, faults,
                   discarded, exposed, stayed>>

(* delete_file, which looks at no row and does not miss a file. *)
DeleteFile(u) ==
    /\ up[u] = "remove"
    /\ up' = [up EXCEPT ![u] = "removed"]
    /\ disk' = disk \ {CurrentFile(u)}
    /\ discarded' = discarded \cup {CurrentFile(u)}
    /\ UNCHANGED <<rowVars, dirs, age, kind, dir, todo, done, base, sent, createVars, cleanup, sweepVars,
                   formVars, faults, exposed>>

DeleteReply(u) ==
    /\ up[u] = "removed"
    /\ Ends(u, AfterSuccess(u))
    /\ UNCHANGED <<rowVars, fileVars, createVars, cleanup, sweepVars, phase, formAge, faults,
                   discarded, exposed, stayed>>

(* The rename fails because its directory is gone; or the disk, the virus  *)
(* scan or the connection fails, before the work or after it.              *)
RequestFails(u) ==
    /\ \/ up[u] = "lost" /\ UNCHANGED faults
       \/ up[u] # "idle" /\ Fault
    /\ Ends(u, AfterError(u))
    /\ UNCHANGED <<rowVars, fileVars, createVars, cleanup, sweepVars, phase, formAge, discarded,
                   exposed, stayed>>

----------------------------------------------------------------------------
(* The form.                                                               *)

OpenForm(p) ==
    /\ phase[p] = "closed"
    /\ phase' = [phase EXCEPT ![p] = "open"]
    /\ UNCHANGED <<rowVars, fileVars, uploadVars, createVars, cleanup, sweepVars, listed, formAge,
                   faults, discarded, exposed, stayed>>

(* handleSubmit: also while files are uploaded, with their empty paths. *)
Submit(p) ==
    /\ phase[p] = "open" /\ create[p] = "none"
    /\ phase' = [phase EXCEPT ![p] = "submitting"]
    /\ create' = [create EXCEPT ![p] = "sent"]
    /\ body' = [body EXCEPT ![p] = listed[p]]
    /\ UNCHANGED <<rowVars, fileVars, uploadVars, cleanup, sweepVars, listed, formAge, faults,
                   discarded, exposed, stayed>>

(* cleanupUnsavedProblem; the beacon may be lost. Cleanups of one form that *)
(* overlap do the same work and count as one.                              *)
SendCleanup(p) ==
    \/ cleanup[p] = "none" /\ cleanup' = [cleanup EXCEPT ![p] = "check"]
    \/ UNCHANGED cleanup

(* The form p is gone, and nobody reads the answers to its requests.       *)
Abandon(p) ==
    /\ listed' = [listed EXCEPT ![p] = {}]
    /\ formAge' = [formAge EXCEPT ![p] = 0]
    /\ kind' = [u \in Requests |-> IF dir[u][1] = p THEN "hand" ELSE kind[u]]
    /\ base' = [u \in Requests |-> IF dir[u][1] = p THEN {} ELSE base[u]]
    /\ stayed' = stayed \ {p}
    /\ UNCHANGED <<up, dir, todo, done, sent>>

(* Unmount, cancel, or unload of the page, also while create is in flight. *)
Leave(p) ==
    /\ phase[p] \in Mounted
    /\ phase' = [phase EXCEPT ![p] = "left"]
    /\ Abandon(p)
    /\ SendCleanup(p)
    /\ UNCHANGED <<rowVars, fileVars, createVars, sweepVars, faults, discarded, exposed>>

(* beforeunload runs cleanupUnsavedProblem and then useUnsavedChanges asks *)
(* the user, who stays.                                                    *)
Stay(p) ==
    /\ phase[p] \in Mounted /\ cleanup[p] = "none"
    /\ cleanup' = [cleanup EXCEPT ![p] = "check"]
    /\ stayed' = stayed \cup {p}
    /\ UNCHANGED <<rowVars, fileVars, uploadVars, createVars, sweepVars, phase, listed, formAge,
                   faults, discarded, exposed>>

----------------------------------------------------------------------------
(* Rows.                                                                   *)

(* The insert of create_problem, under the form's id. An empty path does   *)
(* not pass its validation.                                                *)
CreateInsert(p) ==
    /\ create[p] = "sent" /\ p \notin exists /\ body[p] \subseteq Files
    /\ exists' = exists \cup {p}
    /\ assets' = [assets EXCEPT ![p] = body[p]]
    /\ create' = [create EXCEPT ![p] = "inserted"]
    /\ UNCHANGED <<fileVars, uploadVars, body, cleanup, sweepVars, formVars, faults, discarded,
                   exposed>>

CreateEnds(p) == create' = [create EXCEPT ![p] = "none"] /\ body' = [body EXCEPT ![p] = {}]

(* Validation, the content limit, a taken id or an error refuse the row;   *)
(* or tags, schedule or reply fail after the insert. The form stays open.  *)
CreateFails(p) ==
    /\ \/ create[p] = "sent" /\ UNCHANGED faults
       \/ create[p] = "inserted" /\ Fault
    /\ CreateEnds(p)
    /\ phase' = [phase EXCEPT ![p] = IF @ = "submitting" THEN "open" ELSE @]
    /\ UNCHANGED <<rowVars, fileVars, uploadVars, cleanup, sweepVars, listed, formAge, discarded,
                   exposed, stayed>>

(* handleProblemCreated and resetAfterCreate: the form closes, saved. *)
CreateReply(p) ==
    /\ create[p] = "inserted"
    /\ CreateEnds(p)
    /\ IF phase[p] = "submitting"
       THEN phase' = [phase EXCEPT ![p] = "saved"] /\ Abandon(p)
       ELSE UNCHANGED <<uploadVars, formVars>>
    /\ UNCHANGED <<rowVars, fileVars, cleanup, sweepVars, faults, discarded, exposed>>

(* delete_problem deletes the row and no file. *)
DeleteRow(i) ==
    /\ i \in exists
    /\ exists' = exists \ {i}
    /\ assets' = [assets EXCEPT ![i] = {}]
    /\ UNCHANGED <<fileVars, uploadVars, createVars, cleanup, sweepVars, formVars, faults,
                   discarded, exposed>>

(* copy_problem_row copies the paths, not the files. *)
CopyRow(i, c) ==
    /\ i \in exists /\ c \in CopyIds \ exists
    /\ exists' = exists \cup {c}
    /\ assets' = [assets EXCEPT ![c] = assets[i]]
    /\ UNCHANGED <<fileVars, uploadVars, createVars, cleanup, sweepVars, formVars, faults,
                   discarded, exposed>>

----------------------------------------------------------------------------
(* The removal of a directory, by cleanup_problem and by the reaper.       *)

(* delete_problem_draft_dir: remove_dir_all, which may also stop half-way. *)
RemoveDir(p) ==
    /\ disk' = {f \in disk : f[1] # p}
    /\ dirs' = {d \in dirs : d[1] # p}
    /\ age' = [age EXCEPT ![p] = 0]
    /\ up' = [u \in Requests |-> IF dir[u][1] = p /\ up[u] = "temp" THEN "lost" ELSE up[u]]
    /\ UNCHANGED <<faults, kind, dir, todo, done, base, sent>>

RemoveSome(p) ==
    /\ Fault
    /\ \E fs \in SUBSET OfProblem(p) : disk' = disk \ fs
    /\ UNCHANGED <<dirs, age, uploadVars>>

(* problem_exists, which both removers ask first. *)
BugUnchecked(p) == TRUE
NoRow(p)        == p \notin exists

(* cleanup_problem: the question, and then the removal. *)

CleanupCheck(p) ==
    /\ cleanup[p] = "check"
    /\ cleanup' = [cleanup EXCEPT ![p] = IF NoRow(p) THEN "remove" ELSE "none"]
    /\ exposed' = IF p \notin exists THEN exposed \cup {p} ELSE exposed
    /\ UNCHANGED <<rowVars, fileVars, uploadVars, createVars, sweepVars, formVars, faults,
                   discarded>>

CleanupRemove(p) ==
    /\ cleanup[p] = "remove"
    /\ cleanup' = [cleanup EXCEPT ![p] = "none"]
    /\ RemoveDir(p) \/ RemoveSome(p)
    /\ UNCHANGED <<rowVars, createVars, sweepVars, formVars, discarded, exposed>>

(* reap_orphan_drafts: list_problem_draft_dirs with the grace filter, and  *)
(* for each directory problem_exists and the removal.                      *)
BugNoGrace(p) == HasDir(p)
PastGrace(p)  == HasDir(p) /\ age[p] >= Grace

(* The ticker of spawn_reaper goes on after a failed sweep. *)
BugEndsOnError == candidates = {} /\ target = NoProblem /\ faults = 0
SweepDue       == candidates = {} /\ target = NoProblem

SweepList ==
    /\ SweepDue
    /\ candidates' = {p \in Problems : PastGrace(p)}
    /\ candidates' # {}
    /\ stale' = {p \in Problems : HasDir(p) /\ age[p] >= Grace}
    /\ UNCHANGED <<rowVars, fileVars, uploadVars, createVars, cleanup, target, formVars, faults,
                   discarded, exposed>>

SweepCheck(p) ==
    /\ target = NoProblem /\ p \in candidates
    /\ candidates' = candidates \ {p} /\ stale' = stale \ {p}
    /\ target' = IF NoRow(p) THEN p ELSE NoProblem
    /\ exposed' = IF p \in stale \ exists THEN exposed \cup {p} ELSE exposed
    /\ UNCHANGED <<rowVars, fileVars, uploadVars, createVars, cleanup, formVars, faults,
                   discarded>>

SweepRemove ==
    /\ target # NoProblem
    /\ target' = NoProblem
    /\ RemoveDir(target) \/ RemoveSome(target)
    /\ UNCHANGED <<rowVars, createVars, cleanup, candidates, stale, formVars, discarded, exposed>>

(* A database error ends the sweep. *)
SweepAborts ==
    /\ candidates # {} /\ target = NoProblem
    /\ Fault
    /\ candidates' = {} /\ stale' = {}
    /\ UNCHANGED <<rowVars, fileVars, uploadVars, createVars, cleanup, target, formVars, discarded,
                   exposed>>

----------------------------------------------------------------------------
(* The server restarts: requests and sweep are gone, forms see errors.     *)
Crash ==
    /\ Fault
    /\ up' = [u \in Requests |-> IF up[u] = "idle" THEN "idle" ELSE "lost"]
    /\ todo' = [u \in Requests |-> <<>>] /\ done' = [u \in Requests |-> {}]
    /\ create' = [p \in Problems |-> "none"] /\ body' = [p \in Problems |-> {}]
    /\ cleanup' = [p \in Problems |-> "none"]
    /\ candidates' = {} /\ target' = NoProblem /\ stale' = {}
    /\ phase' = [p \in Problems |-> IF phase[p] = "submitting" THEN "open" ELSE phase[p]]
    /\ UNCHANGED <<rowVars, fileVars, kind, dir, base, sent, listed, formAge, discarded, exposed, stayed>>

(* Time passes in units of at most REAP_GRACE. Requests and sweeps are far *)
(* shorter: none is in flight when a tick ends.                            *)
Quiet ==
    /\ \A u \in Requests : up[u] = "idle"
    /\ \A p \in Problems : create[p] = "none" /\ cleanup[p] = "none"
    /\ candidates = {} /\ target = NoProblem

Tick ==
    /\ Quiet
    /\ age' = [p \in Problems |-> IF HasDir(p) /\ age[p] < Grace THEN age[p] + 1 ELSE age[p]]
    /\ formAge' = [p \in Problems |-> IF phase[p] \in Mounted /\ formAge[p] < Grace
                                       THEN formAge[p] + 1 ELSE formAge[p]]
    /\ UNCHANGED <<rowVars, disk, dirs, uploadVars, createVars, cleanup, sweepVars, phase, listed,
                   faults, discarded, exposed, stayed>>

(* A step of the server on request u, or the answer it gets. *)
Serve(u) ==
    \/ UploadCheck(u) \/ UploadWrite(u) \/ UploadRename(u) \/ UploadReply(u)
    \/ DeleteFile(u) \/ DeleteReply(u) \/ RequestFails(u)

Request(u) ==
    \/ \E d \in RoleDirs : \/ \E batch \in Batches : UploadSend(u, d, batch)
                          \/ \E n \in Names : AttachSend(u, d, n)
    \/ \E p \in Problems : \E f \in listed[p] \cap Files : DeleteSend(u, f)

Form(p) == OpenForm(p) \/ Submit(p) \/ Leave(p) \/ Stay(p)

Row(p) == CreateInsert(p) \/ CreateFails(p) \/ CreateReply(p)

Next ==
    \/ \E u \in Requests : Request(u) \/ Serve(u)
    \/ \E p \in Problems : \/ Form(p) \/ Row(p) \/ CleanupCheck(p) \/ CleanupRemove(p)
                           \/ SweepCheck(p)
    \/ \E i \in Ids : DeleteRow(i) \/ \E c \in CopyIds : CopyRow(i, c)
    \/ SweepList \/ SweepRemove \/ SweepAborts \/ Crash \/ Tick

(* Requests that arrived are served, the reaper sweeps every REAP_INTERVAL *)
(* and time goes on. The user owes nothing, the beacon may be lost.        *)
Fairness ==
    /\ WF_vars(\E u \in Requests : Serve(u))
    /\ \A p \in Problems : WF_vars(Row(p)) /\ WF_vars(CleanupCheck(p) \/ CleanupRemove(p))
    /\ WF_vars(SweepList \/ SweepRemove \/ \E p \in Problems : SweepCheck(p))
    /\ SF_vars(Tick)

Spec     == Init /\ [][Next]_vars
FairSpec == Spec /\ Fairness

----------------------------------------------------------------------------
(* Properties. *)

(* A file is accounted for: it is in place, or the user removed it, or a   *)
(* remover had found its problem without a row (the reaper: and its        *)
(* directory past the grace).                                              *)
Kept(f) == f \in disk \cup discarded \/ f[1] \in exposed

(* A saved problem, or a copy, loses no file except through a check that   *)
(* was true when it was made. Conflicts, half-stored batches, crashes,     *)
(* stale lists and retried submissions lose none.                          *)
SavedFilesKept == \A i \in exists : \A f \in assets[i] : Kept(f)

(* cleanup.rs:11-12, "in-flight uploads and a form the user is still       *)
(* editing are never disturbed", as far as the code keeps it: each file a  *)
(* form lists is in place, or the user removed it, until the form has been *)
(* open for REAP_GRACE or has itself sent its cleanup. Neither uploads and *)
(* deletions that overlap and answer from old lists, nor crashes or        *)
(* sweeps, make it list a file that is gone.                               *)
Undisturbed(p) == phase[p] \in Mounted /\ formAge[p] < Grace /\ p \notin stayed

FormFilesKept ==
    \A p \in Problems : Undisturbed(p) => listed[p] \cap Files \subseteq disk \cup discarded

(* cleanup.rs:17-19, "guarantees that files uploaded for a problem UUID    *)
(* that was never persisted are eventually reclaimed": the files of a form *)
(* that is gone and of no row are reclaimed, whatever requests were lost.  *)
OrphansReclaimed ==
    \A p \in Problems :
        (phase[p] \in {"saved", "left"} /\ p \notin exists)
            ~> (p \in exists \/ OfProblem(p) = {})

Removes(p) == (cleanup[p] = "remove" /\ CleanupRemove(p)) \/ (target = p /\ SweepRemove)

(* problems.rs (routes) :110-112, "it never deletes a row or a saved       *)
(* problem's assets", storage.rs:206: no removal takes a file that the row *)
(* of its problem lists. The check and the removal are not atomic.         *)
SavedFilesNeverRemoved ==
    [][\A p \in exists \cap Problems : Removes(p) => assets[p] \cap disk \subseteq disk']_vars

(* cleanup.rs:19, "without ever touching a saved problem's assets": no     *)
(* saved row lists a file of an orphaned directory that is removed. Copies *)
(* do.                                                                     *)
OrphanUnreferenced ==
    [][\A p \in Problems \ exists : Removes(p) =>
          \A i \in exists : \A f \in assets[i] : f[1] # p]_vars
=============================================================================
