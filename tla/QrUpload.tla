------------------------------ MODULE QrUpload ------------------------------
(***************************************************************************)
(* One QR upload session (backend/src/routes/qr.rs): phones that hold the  *)
(* link send photos, the desktop (image-scan-uploader.tsx) polls the       *)
(* session, consumes it and fetches the photo. Each handler reads the row, *)
(* works on files, and updates the row in separate steps.                  *)
(***************************************************************************)
EXTENDS Integers

CONSTANTS Requests,   \* upload requests, retries included
          Polls,      \* requests of the desktop that may overlap
          Names,      \* file names within the session's directory
          NoName,     \* file_path is null
          NoPhoto,    \* no file, nothing shown
          MaxLost     \* bound: consume requests that fail

ASSUME NoneAssumption  == NoName \notin Names /\ NoPhoto \notin Requests
ASSUME LostAssumption == MaxLost \in Nat

VARIABLES status,     \* qr_upload_sessions.status
          path,       \* qr_upload_sessions.file_path
          expired,    \* expires_at has passed
          disk,       \* the photo (its request) under each name
          pc,         \* where each upload request stands
          name,       \* the name it stores its photo under
          listening,  \* the desktop polls
          poll,       \* where each desktop request stands
          taken,      \* the path its consume returns
          shown,      \* the photo the desktop shows
          lost,       \* consume requests that failed
          stopped     \* history: the polling ended without word of a photo

rowVars     == <<status, path>>
uploadVars  == <<pc, name>>
desktopVars == <<listening, poll, taken, shown, lost, stopped>>
vars == <<status, path, expired, disk, pc, name, listening, poll, taken, shown, lost, stopped>>

TypeOK ==
    /\ status \in {"pending", "uploaded", "consumed"}
    /\ path \in Names \cup {NoName}
    /\ expired \in BOOLEAN
    /\ disk \in [Names -> Requests \cup {NoPhoto}]
    /\ pc \in [Requests -> {"new", "admitted", "checked", "stored", "ok", "conflict", "expired",
                            "failed"}]
    /\ name \in [Requests -> Names \cup {NoName}]
    /\ listening \in BOOLEAN
    /\ poll \in [Polls -> {"idle", "asked", "nothing", "expired", "uploaded", "consume", "take",
                           "fetch"}]
    /\ taken \in [Polls -> Names \cup {NoName}]
    /\ shown \in Requests \cup {NoPhoto}
    /\ lost \in 0..MaxLost
    /\ stopped \in BOOLEAN

(* create_session, with the desktop polling and the code scanned. *)
Init ==
    /\ status = "pending" /\ path = NoName
    /\ expired = FALSE
    /\ disk = [n \in Names |-> NoPhoto]
    /\ pc = [r \in Requests |-> "new"]
    /\ name = [r \in Requests |-> NoName]
    /\ listening = TRUE
    /\ poll = [k \in Polls |-> "idle"]
    /\ taken = [k \in Polls |-> NoName]
    /\ shown = NoPhoto
    /\ lost = 0
    /\ stopped = FALSE

----------------------------------------------------------------------------
(* POST /qr-upload/{session_id}                                            *)

(* The row is read once, before the body of the request arrives. *)
UploadRead(r, n) ==
    /\ pc[r] = "new"
    /\ name' = [name EXCEPT ![r] = n]
    /\ pc' = [pc EXCEPT ![r] = IF status # "pending" THEN "conflict"
                               ELSE IF expired THEN "expired" ELSE "admitted"]
    /\ UNCHANGED <<rowVars, expired, disk, desktopVars>>

(* upload_object without upsert: an existing file is a Conflict. *)
UploadCheck(r) ==
    /\ pc[r] = "admitted"
    /\ pc' = [pc EXCEPT ![r] = IF disk[name[r]] = NoPhoto THEN "checked" ELSE "conflict"]
    /\ UNCHANGED <<rowVars, expired, disk, name, desktopVars>>

(* The rename, which replaces what has appeared under the name meanwhile. *)
UploadStore(r) ==
    /\ pc[r] = "checked"
    /\ pc' = [pc EXCEPT ![r] = "stored"]
    /\ disk' = [disk EXCEPT ![name[r]] = r]
    /\ UNCHANGED <<rowVars, expired, name, desktopVars>>

BugRecordFirst(r) == pc[r] = "checked"
BugRecordAlways   == TRUE
ReadyToRecord(r)  == pc[r] = "stored"
StillPending      == status = "pending"

(* update .. where status = 'pending': no row is no error. *)
UploadRecord(r) ==
    /\ ReadyToRecord(r)
    /\ pc' = [pc EXCEPT ![r] = "ok"]
    /\ IF StillPending THEN status' = "uploaded" /\ path' = name[r] ELSE UNCHANGED rowVars
    /\ UNCHANGED <<expired, disk, name, desktopVars>>

(* A broken upload, a storage or database error, a crash, a lost reply. *)
UploadFails(r) ==
    /\ pc[r] \in {"admitted", "checked", "stored", "ok"}
    /\ pc' = [pc EXCEPT ![r] = "failed"]
    /\ UNCHANGED <<rowVars, expired, disk, name, desktopVars>>

----------------------------------------------------------------------------
(* The desktop.                                                            *)

Move(k, from, to) == poll[k] = from /\ poll' = [poll EXCEPT ![k] = to]

PollSend(k) ==
    /\ listening
    /\ Move(k, "idle", "asked")
    /\ UNCHANGED <<rowVars, expired, disk, uploadVars, listening, taken, shown, lost, stopped>>

(* status: a pending session past its time reads as expired. *)
BugRawStatus  == status
AnsweredState ==
    IF status = "uploaded" THEN "uploaded"
    ELSE IF status = "pending" /\ expired THEN "expired" ELSE "nothing"

PollAnswer(k) ==
    /\ Move(k, "asked", AnsweredState)
    /\ UNCHANGED <<rowVars, expired, disk, uploadVars, listening, taken, shown, lost, stopped>>

BugForgetConsume(k) == "idle"
AfterReply(k)       == IF poll[k] = "uploaded" THEN "consume" ELSE "idle"

(* The poll callback: stopListening, and consumeAndLoadImage. Another poll *)
(* that is on its way is not called off.                                   *)
PollReply(k) ==
    /\ poll[k] \in {"nothing", "expired", "uploaded"}
    /\ listening' = (listening /\ poll[k] = "nothing")
    /\ poll' = [poll EXCEPT ![k] = AfterReply(k)]
    /\ stopped' = (stopped \/ (listening /\ poll[k] = "expired"))
    /\ UNCHANGED <<rowVars, expired, disk, uploadVars, taken, shown, lost>>

(* consume reads the row, and updates it where it is still uploaded. *)
ConsumeRead(k) ==
    /\ Move(k, "consume", IF status = "uploaded" THEN "take" ELSE "idle")
    /\ taken' = [taken EXCEPT ![k] = path]
    /\ UNCHANGED <<rowVars, expired, disk, uploadVars, listening, shown, lost, stopped>>

ConsumeUpdate(k) ==
    /\ Move(k, "take", "fetch")
    /\ status' = IF status = "uploaded" THEN "consumed" ELSE status
    /\ UNCHANGED <<path, expired, disk, uploadVars, listening, taken, shown, lost, stopped>>

(* GET /api/files, and validateAndSetFile. *)
Fetch(k) ==
    /\ Move(k, "fetch", "idle")
    /\ shown' = IF taken[k] \in Names THEN disk[taken[k]] ELSE shown
    /\ listening' = FALSE
    /\ UNCHANGED <<rowVars, expired, disk, uploadVars, taken, lost, stopped>>

(* A failed poll is forgotten and the next one asks again; a failed        *)
(* consume is not repeated.                                                *)
PollFails(k) ==
    /\ poll[k] \in {"asked", "nothing", "expired", "uploaded"}
    /\ poll' = [poll EXCEPT ![k] = "idle"]
    /\ UNCHANGED <<rowVars, expired, disk, uploadVars, listening, taken, shown, lost, stopped>>

ConsumeFails(k) ==
    /\ poll[k] \in {"consume", "take", "fetch"}
    /\ lost < MaxLost /\ lost' = lost + 1
    /\ poll' = [poll EXCEPT ![k] = "idle"]
    /\ UNCHANGED <<rowVars, expired, disk, uploadVars, listening, taken, shown, stopped>>

(* stopListening at any time: by the countdown, which goes by the          *)
(* desktop's own clock, by the unmount of the uploader, or by a late       *)
(* callback of a session that this one has replaced.                       *)
StopListening ==
    /\ listening
    /\ listening' = FALSE /\ stopped' = TRUE
    /\ UNCHANGED <<rowVars, expired, disk, uploadVars, poll, taken, shown, lost>>

(* The user pastes, drops or selects an image, or starts over (reset): the *)
(* polling ends, a photo that was shown is gone. What a request on its way *)
(* still brings replaces the user's image.                                 *)
TakeOver ==
    /\ listening \/ shown # NoPhoto
    /\ listening' = FALSE /\ stopped' = (stopped \/ listening)
    /\ shown' = NoPhoto
    /\ UNCHANGED <<rowVars, expired, disk, uploadVars, poll, taken, lost>>

Expire ==
    /\ ~expired /\ expired' = TRUE
    /\ UNCHANGED <<rowVars, disk, uploadVars, desktopVars>>

Upload(r) == UploadCheck(r) \/ UploadStore(r) \/ UploadRecord(r)

Desktop(k) ==
    \/ PollSend(k) \/ PollAnswer(k) \/ PollReply(k)
    \/ ConsumeRead(k) \/ ConsumeUpdate(k) \/ Fetch(k)

Next ==
    \/ \E r \in Requests : Upload(r) \/ UploadFails(r) \/ \E n \in Names : UploadRead(r, n)
    \/ \E k \in Polls : Desktop(k) \/ PollFails(k) \/ ConsumeFails(k)
    \/ StopListening \/ TakeOver \/ Expire

(* The desktop polls on. Polls may fail for a while, not for ever: some    *)
(* answer and some reply get through. Phones owe nothing.                  *)
Fairness ==
    \A k \in Polls : WF_vars(Desktop(k)) /\ SF_vars(PollAnswer(k)) /\ SF_vars(PollReply(k))

Spec     == Init /\ [][Next]_vars
FairSpec == Spec /\ Fairness

----------------------------------------------------------------------------
(* Properties. *)

(* The row never points at a file that is not there, whichever of several  *)
(* phones wrote it and wherever the others failed.                         *)
RecordedFileStored == status # "pending" => path \in Names /\ disk[path] # NoPhoto

(* The desktop shows only a photo of the recorded path, and only once the  *)
(* session is consumed, even when two polls consume it.                    *)
ShownIsRecorded == shown # NoPhoto => status = "consumed" /\ name[shown] = path

(* An upload that is recorded while the desktop listens is consumed,       *)
(* however many polls fail and overlap and even when the session runs out  *)
(* of time meanwhile. It is not if the desktop stops polling without word  *)
(* of it (the user goes on without it, or a poll was answered before it    *)
(* was recorded, as expired), or if the consume request itself is lost.    *)
UploadIsConsumed ==
    (status = "uploaded" /\ listening) ~> (status = "consumed" \/ stopped \/ lost > 0)

Slot == INSTANCE OneShotSlot

(* However many phones and polls race, the session is a slot that is       *)
(* filled once, never changes and is taken once.                           *)
ImplementsSlot == Slot!Spec

(* messages/en.json:1221, "Photo sent! .. The image will appear on your    *)
(* desktop shortly": a phone that is told so has its photo recorded.       *)
PhoneSuccessIsRecorded == \A r \in Requests : pc[r] = "ok" => path = name[r]
=============================================================================
