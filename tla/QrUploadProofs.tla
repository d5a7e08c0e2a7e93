--------------------------- MODULE QrUploadProofs ---------------------------
(***************************************************************************)
(* Proofs, for any phones, polls and names, that a QR session implements   *)
(* the one-shot slot, that the row never points at a missing file, and     *)
(* that the desktop shows only what the row records.                       *)
(***************************************************************************)
EXTENDS QrUpload, TLAPS

----------------------------------------------------------------------------
(* A request that has come to store its photo has a name; a photo lies     *)
(* under the name of its request; a stored photo, or another under the     *)
(* same name, stays.                                                       *)
PhotosInPlace ==
    /\ \A r \in Requests : pc[r] \in {"admitted", "checked", "stored"} => name[r] \in Names
    /\ \A r \in Requests : pc[r] = "stored" => disk[name[r]] # NoPhoto
    /\ \A n \in Names : disk[n] # NoPhoto => name[disk[n]] = n /\ pc[disk[n]] # "new"

(* A consume that passed its check returns the recorded path.              *)
ConsumersAgree ==
    /\ \A k \in Polls : poll[k] \in {"take", "fetch"} => status # "pending" /\ taken[k] = path
    /\ \A k \in Polls : poll[k] = "fetch" => status = "consumed"

ShownAdmitted == shown # NoPhoto => pc[shown] # "new"

IInv ==
    /\ TypeOK /\ PhotosInPlace /\ ConsumersAgree /\ ShownAdmitted
    /\ RecordedFileStored /\ ShownIsRecorded

----------------------------------------------------------------------------
LEMMA Initially == Init => IInv
<1> SUFFICES ASSUME Init PROVE IInv
  OBVIOUS
<1>1. TypeOK
  <2>1. expired \in BOOLEAN /\ listening \in BOOLEAN /\ stopped \in BOOLEAN
    BY DEF Init
  <2>2. lost \in 0..MaxLost
    BY LostAssumption DEF Init
  <2>3. QED
    BY <2>1, <2>2 DEF Init, TypeOK
<1>2. PhotosInPlace /\ ConsumersAgree /\ ShownAdmitted
  BY DEF Init, PhotosInPlace, ConsumersAgree, ShownAdmitted
<1>3. RecordedFileStored /\ ShownIsRecorded
  BY DEF Init, RecordedFileStored, ShownIsRecorded
<1>4. QED
  BY <1>1, <1>2, <1>3 DEF IInv

LEMMA TypeStep == ASSUME TypeOK, [Next]_vars PROVE TypeOK'
<1> USE LostAssumption DEF TypeOK, rowVars, uploadVars, desktopVars, Move
<1>1. ASSUME NEW r \in Requests, Upload(r) \/ UploadFails(r) \/ \E n \in Names : UploadRead(r, n)
      PROVE  TypeOK'
  BY <1>1 DEF Upload, UploadRead, UploadCheck, UploadStore, UploadRecord, UploadFails
<1>2. ASSUME NEW k \in Polls, Desktop(k) PROVE TypeOK'
  BY <1>2 DEF Desktop, PollSend, PollAnswer, PollReply, ConsumeRead, ConsumeUpdate, Fetch,
              AnsweredState, AfterReply
<1>3. ASSUME NEW k \in Polls, PollFails(k) \/ ConsumeFails(k) PROVE TypeOK'
  BY <1>3 DEF PollFails, ConsumeFails
<1>4. CASE StopListening \/ TakeOver \/ Expire \/ UNCHANGED vars
  BY <1>4 DEF StopListening, TakeOver, Expire, vars
<1>5. QED
  BY <1>1, <1>2, <1>3, <1>4 DEF Next

(* Type correctness, for any phones, polls and names. *)
THEOREM TypeCorrect == Spec => []TypeOK
BY Initially, TypeStep, PTL DEF Spec, IInv

----------------------------------------------------------------------------
(* The phones: photos stay in place and the record comes last.             *)
LEMMA UploadStep ==
    ASSUME IInv, TypeOK', NEW r \in Requests,
           Upload(r) \/ UploadFails(r) \/ \E n \in Names : UploadRead(r, n)
    PROVE  IInv'
<1> USE NoneAssumption DEF IInv, TypeOK, PhotosInPlace, ConsumersAgree, ShownAdmitted,
        RecordedFileStored, ShownIsRecorded, rowVars, uploadVars, desktopVars
<1>1. ASSUME NEW n \in Names, UploadRead(r, n) PROVE IInv'
  BY <1>1 DEF UploadRead
<1>2. CASE UploadCheck(r)
  BY <1>2 DEF UploadCheck
<1>3. CASE UploadStore(r)
  BY <1>3 DEF UploadStore
<1>4. CASE UploadRecord(r)
  BY <1>4 DEF UploadRecord, ReadyToRecord, StillPending
<1>5. CASE UploadFails(r)
  BY <1>5 DEF UploadFails
<1>6. QED
  BY <1>1, <1>2, <1>3, <1>4, <1>5 DEF Upload

(* The desktop: a consume returns the recorded path, which never changes.  *)
LEMMA DesktopStep ==
    ASSUME IInv, TypeOK', NEW k \in Polls, Desktop(k) \/ PollFails(k) \/ ConsumeFails(k)
    PROVE  IInv'
<1> USE NoneAssumption DEF IInv, TypeOK, PhotosInPlace, ConsumersAgree, ShownAdmitted,
        RecordedFileStored, ShownIsRecorded, rowVars, uploadVars, desktopVars, Move
<1>1. CASE PollSend(k) \/ PollFails(k) \/ ConsumeFails(k)
  BY <1>1 DEF PollSend, PollFails, ConsumeFails
<1>2. CASE PollAnswer(k) \/ PollReply(k)
  BY <1>2 DEF PollAnswer, PollReply, AnsweredState, AfterReply
<1>3. CASE ConsumeRead(k)
  BY <1>3 DEF ConsumeRead
<1>4. CASE ConsumeUpdate(k)
  BY <1>4 DEF ConsumeUpdate
<1>5. CASE Fetch(k)
  BY <1>5 DEF Fetch
<1>6. QED
  BY <1>1, <1>2, <1>3, <1>4, <1>5 DEF Desktop

LEMMA ClockStep ==
    ASSUME IInv, TypeOK', StopListening \/ TakeOver \/ Expire \/ UNCHANGED vars PROVE IInv'
BY DEF IInv, PhotosInPlace, ConsumersAgree, ShownAdmitted, RecordedFileStored, ShownIsRecorded,
       StopListening, TakeOver, Expire, rowVars, uploadVars, desktopVars, vars

(* The inductive invariant: photos lie under the names of their requests,  *)
(* and a consume past its check returns the recorded path.                 *)
THEOREM SessionInvariant == Spec => []IInv
<1>1. IInv /\ TypeOK' /\ [Next]_vars => IInv'
  BY UploadStep, DesktopStep, ClockStep DEF Next
<1>2. QED
  BY <1>1, Initially, TypeCorrect, PTL DEF Spec

(* The row never points at a file that is missing. *)
THEOREM FileStoredBeforeRecorded == Spec => []RecordedFileStored
BY SessionInvariant, PTL DEF IInv

(* The desktop shows only a photo of the recorded path. *)
THEOREM OnlyTheRecordIsShown == Spec => []ShownIsRecorded
BY SessionInvariant, PTL DEF IInv

----------------------------------------------------------------------------
(* The session implements the one-shot slot: an update that finds the row  *)
(* pending is the Put, one that finds it uploaded the Take.                *)
THEOREM Implementation == Spec => ImplementsSlot
<1>1. Init => Slot!Init
  BY DEF Init, Slot!Init
<1>2. IInv /\ [Next]_vars => [Slot!Next]_<<status, path>>
  <2> SUFFICES ASSUME IInv, [Next]_vars PROVE Slot!Next \/ UNCHANGED <<status, path>>
    OBVIOUS
  <2> USE DEF rowVars, uploadVars, desktopVars
  <2>1. ASSUME NEW r \in Requests, UploadRecord(r)
        PROVE  Slot!Next \/ UNCHANGED <<status, path>>
    <3>1. name[r] \in Names
      BY <2>1 DEF UploadRecord, ReadyToRecord, IInv, PhotosInPlace
    <3>2. QED
      BY <2>1, <3>1 DEF UploadRecord, StillPending, Slot!Next, Slot!Put
  <2>2. ASSUME NEW k \in Polls, ConsumeUpdate(k)
        PROVE  Slot!Next \/ UNCHANGED <<status, path>>
    BY <2>2 DEF ConsumeUpdate, Slot!Next, Slot!Take
  <2>3. ASSUME NEW r \in Requests,
               UploadCheck(r) \/ UploadStore(r) \/ UploadFails(r) \/ \E n \in Names : UploadRead(r, n)
        PROVE  UNCHANGED <<status, path>>
    BY <2>3 DEF UploadCheck, UploadStore, UploadFails, UploadRead
  <2>4. ASSUME NEW k \in Polls,
               \/ PollSend(k) \/ PollAnswer(k) \/ PollReply(k) \/ ConsumeRead(k) \/ Fetch(k)
               \/ PollFails(k) \/ ConsumeFails(k)
        PROVE  UNCHANGED <<status, path>>
    BY <2>4 DEF PollSend, PollAnswer, PollReply, ConsumeRead, Fetch, PollFails, ConsumeFails
  <2>5. ASSUME StopListening \/ TakeOver \/ Expire \/ UNCHANGED vars PROVE UNCHANGED <<status, path>>
    BY <2>5 DEF StopListening, TakeOver, Expire, vars
  <2>6. QED
    BY <2>1, <2>2, <2>3, <2>4, <2>5 DEF Next, Upload, Desktop
<1>3. QED
  BY <1>1, <1>2, SessionInvariant, PTL DEF Spec, ImplementsSlot, Slot!Spec

----------------------------------------------------------------------------
(* What phones and desktop may conclude from the answers they get.         *)

(* A request that has put its photo on disk is past its own check.         *)
StoredIsPast ==
    \A n \in Names : \A r \in Requests :
        disk[n] = r => pc[r] \in {"stored", "ok", "failed"}

(* The recorded path is the name of a request that was admitted.           *)
RecordHasOwner ==
    status # "pending" => \E r \in Requests : pc[r] \in {"ok", "failed"} /\ name[r] = path

(* A phone that is told its photo was sent cannot conclude that it is the  *)
(* one recorded (run QrTwoPhones), but some phone's photo is, and is there *)
(* to be fetched.                                                          *)
SuccessHasRecord ==
    (\E r \in Requests : pc[r] = "ok") =>
        /\ disk[path] # NoPhoto
        /\ \E s \in Requests : pc[s] \in {"ok", "failed"} /\ name[s] = path

(* A phone is turned away as a conflict only when the session is already   *)
(* served, or when another request's photo lies under its file name.       *)
ConflictHasCause ==
    \A r \in Requests : pc[r] = "conflict" =>
        \/ status # "pending"
        \/ name[r] \in Names /\ disk[name[r]] \in Requests \ {r}

(* What a poll has been told is still so when its reply is acted upon:     *)
(* an uploaded or expired session does not become pending again.           *)
PollsToldTrue ==
    \A k \in Polls :
        /\ poll[k] \in {"uploaded", "consume", "take", "fetch"} => status # "pending"
        /\ poll[k] = "expired" => expired

(* Polls alone do not end the polling of a session that is open and in     *)
(* time: whenever the desktop no longer listens, a photo is recorded or    *)
(* the end is on record, whatever polls overlapped, failed or came late.   *)
ListensWhileOpen == ~listening => status # "pending" \/ stopped

Answers ==
    /\ StoredIsPast /\ RecordHasOwner
    /\ status = "pending" => \A r \in Requests : pc[r] # "ok"
    /\ ConflictHasCause /\ PollsToldTrue /\ ListensWhileOpen

(* Once recorded, a photo's path is final, and a consumed session stays    *)
(* consumed, whatever the phones still send.                               *)
RecordIsFinal ==
    /\ status # "pending" => path' = path /\ status' # "pending"
    /\ status = "consumed" => status' = "consumed"

LEMMA AnswersInit == Init => Answers
BY NoneAssumption DEF Init, Answers, StoredIsPast, RecordHasOwner, ConflictHasCause,
   PollsToldTrue, ListensWhileOpen

(* The phones: an answer is given after the step it speaks of. *)
LEMMA AnswersUpload ==
    ASSUME IInv, Answers, NEW r \in Requests,
           Upload(r) \/ UploadFails(r) \/ \E n \in Names : UploadRead(r, n)
    PROVE  Answers'
<1> USE NoneAssumption DEF IInv, TypeOK, PhotosInPlace, Answers, StoredIsPast, RecordHasOwner,
        ConflictHasCause, PollsToldTrue, ListensWhileOpen, rowVars, uploadVars, desktopVars
<1>1. ASSUME NEW n \in Names, UploadRead(r, n) PROVE Answers'
  BY <1>1 DEF UploadRead
<1>2. CASE UploadCheck(r)
  BY <1>2 DEF UploadCheck
<1>3. CASE UploadStore(r)
  BY <1>3 DEF UploadStore
<1>4. CASE UploadRecord(r)
  BY <1>4 DEF UploadRecord, ReadyToRecord, StillPending
<1>5. CASE UploadFails(r)
  BY <1>5 DEF UploadFails
<1>6. QED
  BY <1>1, <1>2, <1>3, <1>4, <1>5 DEF Upload

(* The desktop: what a poll was told stays true on its way. *)
LEMMA AnswersDesktop ==
    ASSUME IInv, Answers, NEW k \in Polls, Desktop(k) \/ PollFails(k) \/ ConsumeFails(k)
    PROVE  Answers'
<1> USE DEF IInv, TypeOK, Answers, StoredIsPast, RecordHasOwner,
        ConflictHasCause, PollsToldTrue, ListensWhileOpen, rowVars, uploadVars, desktopVars, Move
<1>1. CASE PollSend(k)
  BY <1>1 DEF PollSend
<1>2. CASE PollAnswer(k)
  BY <1>2 DEF PollAnswer, AnsweredState
<1>3. CASE PollReply(k)
  BY <1>3 DEF PollReply, AfterReply
<1>4. CASE ConsumeRead(k)
  BY <1>4 DEF ConsumeRead
<1>5. CASE ConsumeUpdate(k)
  BY <1>5 DEF ConsumeUpdate
<1>6. CASE Fetch(k)
  BY <1>6 DEF Fetch
<1>7. CASE PollFails(k) \/ ConsumeFails(k)
  BY <1>7 DEF PollFails, ConsumeFails
<1>8. QED
  BY <1>1, <1>2, <1>3, <1>4, <1>5, <1>6, <1>7 DEF Desktop

LEMMA AnswersClock ==
    ASSUME IInv, Answers, StopListening \/ TakeOver \/ Expire \/ UNCHANGED vars PROVE Answers'
<1> USE DEF Answers, StoredIsPast, RecordHasOwner, ConflictHasCause, PollsToldTrue,
        ListensWhileOpen, rowVars, uploadVars, desktopVars
<1>1. CASE StopListening
  BY <1>1 DEF StopListening
<1>2. CASE TakeOver
  BY <1>2 DEF TakeOver
<1>3. CASE Expire \/ UNCHANGED vars
  BY <1>3 DEF Expire, vars
<1>4. QED
  BY <1>1, <1>2, <1>3

(* Every answer that a phone or the desktop gets is justified. *)
THEOREM AnswersAreTrue == Spec => []Answers
<1>1. IInv /\ Answers /\ [Next]_vars => Answers'
  BY AnswersUpload, AnswersDesktop, AnswersClock DEF Next
<1>2. QED
  BY <1>1, AnswersInit, SessionInvariant, PTL DEF Spec

(* A phone that reads "Photo sent!" knows that a photo is recorded and in  *)
(* place, though it may be another phone's.                                *)
THEOREM SuccessIsSomeRecord == Spec => []SuccessHasRecord
<1>1. IInv /\ Answers => SuccessHasRecord
  BY DEF IInv, Answers, RecordedFileStored, RecordHasOwner, SuccessHasRecord
<1>2. QED
  BY <1>1, SessionInvariant, AnswersAreTrue, PTL

(* Phones are turned away for a cause. *)
THEOREM ConflictsAreJustified == Spec => []ConflictHasCause
BY AnswersAreTrue, PTL DEF Answers

(* The desktop stops polling a session that is still open only where       *)
(* `stopped` records it: by the user, by its clock or as expired.          *)
THEOREM DesktopListensOn == Spec => []ListensWhileOpen
BY AnswersAreTrue, PTL DEF Answers

----------------------------------------------------------------------------
(* What the one-shot slot promises, carried over to the session.           *)
LEMMA SlotIsFinal ==
    ASSUME [Slot!Next]_<<status, path>> PROVE RecordIsFinal
BY DEF Slot!Next, Slot!Put, Slot!Take, RecordIsFinal

(* The first record stands: no phone, late or retried, replaces it. *)
THEOREM FirstRecordStands == Spec => [][RecordIsFinal]_vars
<1>1. [Slot!Next]_<<status, path>> => [RecordIsFinal]_vars
  BY SlotIsFinal
<1>2. ImplementsSlot => [][RecordIsFinal]_vars
  BY <1>1, PTL DEF ImplementsSlot, Slot!Spec
<1>3. QED
  BY <1>2, Implementation, PTL
=============================================================================
