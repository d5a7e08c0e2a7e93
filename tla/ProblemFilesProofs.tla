------------------------- MODULE ProblemFilesProofs -------------------------
(***************************************************************************)
(* Proofs, for any problems, files, batches, requests and failures, that a *)
(* saved problem loses a file only through a check that found it without a *)
(* row, and a form in its first REAP_GRACE lists no file that is gone. The *)
(* argument: being accounted for (Kept) is stable, because a remover at    *)
(* work has exposed its problem first; no remover is ever at work on a     *)
(* young form; and every list of files only takes over files that are      *)
(* accounted for.                                                          *)
(***************************************************************************)
EXTENDS ProblemFiles, SequenceTheorems, TLAPS

----------------------------------------------------------------------------
(* What a form lists and is not still uploaded is accounted for. *)
KeptEntries == {e \in Entries : e \in Files => Kept(e)}

(* A request in flight is about a role of some problem, and as long as it  *)
(* stores or deletes a file it has its name.                               *)
RequestsSound ==
    \A u \in Requests :
        /\ up[u] = "idle" => dir[u] = Nowhere /\ done[u] = {} /\ base[u] = {}
        /\ up[u] # "idle" => dir[u] \in RoleDirs
        /\ up[u] \in {"write", "temp", "remove", "removed"} => todo[u] # <<>>

(* Whoever is about to remove a directory has found no row for it. *)
RemoversExposed ==
    /\ \A p \in Problems : cleanup[p] = "remove" => p \in exposed
    /\ target # NoProblem => target \in exposed
    /\ candidates \subseteq stale

(* Every list of files, wherever it is on its way. *)
ListsKept ==
    /\ \A i \in Ids : assets[i] \subseteq KeptEntries
    /\ \A p \in Problems : listed[p] \subseteq KeptEntries /\ body[p] \subseteq KeptEntries
    /\ \A u \in Requests : base[u] \subseteq KeptEntries /\ done[u] \subseteq KeptEntries

(* Nobody is at work on the directory of problem p. *)
Spared(p) == cleanup[p] = "none" /\ p \notin candidates /\ target # p

(* Before its form is opened there is nothing of a problem. *)
Unopened ==
    \A p \in Problems : phase[p] = "closed" =>
        /\ Spared(p) /\ ~HasDir(p) /\ age[p] = 0 /\ formAge[p] = 0
        /\ listed[p] = {} /\ \A u \in Requests : dir[u][1] # p

(* An undisturbed form is older than its directory, so that no remover is  *)
(* at work on it.                                                          *)
YoungSpared ==
    \A p \in Problems : Undisturbed(p) => Spared(p) /\ age[p] <= formAge[p]

(* What an undisturbed form lists, or will list, is in place or discarded. *)
InPlace == {e \in Entries : e \in Files => e \in disk \cup discarded}

YoungLists ==
    \A p \in Problems : Undisturbed(p) =>
        /\ listed[p] \subseteq InPlace
        /\ \A u \in Requests : dir[u][1] = p => base[u] \cup done[u] \subseteq InPlace

IInv == /\ TypeOK /\ RequestsSound
        /\ RemoversExposed /\ ListsKept
        /\ Unopened /\ YoungSpared /\ YoungLists

----------------------------------------------------------------------------
(* The operators that several actions share keep the types. *)
LEMMA OfRoleSubset ==
    ASSUME NEW fs, NEW d PROVE OfRole(fs, d) \subseteq fs
BY DEF OfRole

LEMMA FilesAreEntries == Files \subseteq Entries
BY DEF Files, Entries

LEMMA DirParts ==
    ASSUME NEW d \in RoleDirs
    PROVE  d[1] \in Problems /\ d[2] \in Roles /\ d = <<d[1], d[2]>>
BY DEF RoleDirs

LEMMA NowhereIsNowhere == Nowhere[1] \notin Problems /\ Nowhere \notin RoleDirs
BY IdAssumption DEF Nowhere, RoleDirs

LEMMA ShowFilesIs ==
    ASSUME TypeOK, NEW d \in RoleDirs, NEW fs, ShowFiles(d, fs)
    PROVE  /\ \A p \in Problems \ {d[1]} : listed'[p] = listed[p]
           /\ listed'[d[1]] \subseteq listed[d[1]] \cup fs
           /\ phase[d[1]] \notin Mounted => listed'[d[1]] = listed[d[1]]
           /\ DOMAIN listed' = Problems /\ listed' = [p \in Problems |-> listed'[p]]
BY DirParts, OfRoleSubset DEF TypeOK, ShowFiles

LEMMA ShowFilesType ==
    ASSUME TypeOK, NEW d \in RoleDirs, NEW fs \in SUBSET Entries, ShowFiles(d, fs)
    PROVE  listed' \in [Problems -> SUBSET Entries]
BY DirParts, OfRoleSubset DEF TypeOK, ShowFiles

(* What a form lists after an answer it had, or has, or got stored. *)
LEMMA AnswersFrom ==
    ASSUME TypeOK, NEW u \in Requests, dir[u] \in RoleDirs
    PROVE  /\ AfterSuccess(u) \subseteq base[u] \cup done[u] \cup listed[dir[u][1]]
           /\ AfterError(u) \subseteq base[u] \cup listed[dir[u][1]]
BY OfRoleSubset DEF AfterSuccess, AfterError, Shown

LEMMA AnswersType ==
    ASSUME TypeOK, NEW u \in Requests, dir[u] \in RoleDirs
    PROVE  AfterSuccess(u) \in SUBSET Entries /\ AfterError(u) \in SUBSET Entries
BY AnswersFrom, FilesAreEntries, DirParts DEF TypeOK

LEMMA EndsType ==
    ASSUME TypeOK, RequestsSound, NEW u \in Requests, up[u] # "idle",
           NEW fs \in SUBSET Entries, Ends(u, fs)
    PROVE  /\ up' \in [Requests -> {"idle", "check", "write", "temp", "remove", "removed", "lost"}]
           /\ kind' \in [Requests -> {"hand", "attach", "delete"}]
           /\ dir' \in [Requests -> RoleDirs \cup {Nowhere}]
           /\ todo' \in [Requests -> Seq(Names)]
           /\ done' \in [Requests -> SUBSET Files]
           /\ base' \in [Requests -> SUBSET Entries]
           /\ listed' \in [Problems -> SUBSET Entries]
           /\ sent' = sent
           /\ RequestsSound'
<1>1. dir[u] \in RoleDirs
  BY DEF RequestsSound
<1>2. listed' \in [Problems -> SUBSET Entries]
  BY <1>1, ShowFilesType DEF Ends
<1>3. <<>> \in Seq(Names)
  BY EmptySeq
<1>4. RequestsSound'
  BY DEF TypeOK, Ends, RequestsSound
<1>5. QED
  BY <1>2, <1>3, <1>4 DEF TypeOK, Ends

LEMMA CurrentFileType ==
    ASSUME TypeOK, NEW u \in Requests, dir[u] \in RoleDirs, todo[u] # <<>>
    PROVE  CurrentFile(u) \in Files /\ Tail(todo[u]) \in Seq(Names)
<1>1. todo[u] \in Seq(Names) /\ Head(todo[u]) \in Names /\ Tail(todo[u]) \in Seq(Names)
  BY HeadTailProperties DEF TypeOK
<1>2. QED
  BY <1>1, DirParts DEF CurrentFile, Files

----------------------------------------------------------------------------
(* Type correctness. *)
LEMMA ServeTypes ==
    ASSUME TypeOK, RequestsSound, NEW u \in Requests, Serve(u)
    PROVE  TypeOK' /\ RequestsSound'
<1> USE BoundAssumption DEF rowVars, fileVars, uploadVars, createVars, sweepVars, formVars
<1>0. up[u] # "idle" => dir[u] \in RoleDirs /\ AfterSuccess(u) \in SUBSET Entries
                        /\ AfterError(u) \in SUBSET Entries
  BY AnswersType DEF RequestsSound
<1>1. CASE UploadCheck(u)
  <2>1. CASE CurrentFile(u) \in disk
    <3>1. Ends(u, AfterError(u)) /\ up[u] # "idle"
      BY <1>1, <2>1 DEF UploadCheck
    <3>2. QED
      BY <1>0, <1>1, <3>1, EndsType DEF UploadCheck, TypeOK
  <2>2. CASE CurrentFile(u) \notin disk
    BY <1>1, <2>2 DEF UploadCheck, TypeOK, RequestsSound
  <2>3. QED
    BY <2>1, <2>2
<1>2. CASE UploadWrite(u)
  <2>1. dir[u] \in RoleDirs /\ dir[u][1] \in Problems
    BY <1>0, <1>2, DirParts DEF UploadWrite
  <2>2. QED
    BY <1>2, <2>1 DEF UploadWrite, TypeOK, RequestsSound
<1>3. CASE UploadRename(u)
  <2>1. CurrentFile(u) \in Files /\ Tail(todo[u]) \in Seq(Names)
    BY <1>0, <1>3, CurrentFileType DEF UploadRename, RequestsSound
  <2>2. QED
    BY <1>3, <2>1 DEF UploadRename, TypeOK, RequestsSound
<1>4. CASE UploadReply(u)
  <2>1. Ends(u, AfterSuccess(u)) /\ up[u] # "idle"
    BY <1>4 DEF UploadReply
  <2>2. QED
    BY <1>0, <1>4, <2>1, EndsType DEF UploadReply, TypeOK
<1>5. CASE DeleteFile(u)
  <2>1. CurrentFile(u) \in Files
    BY <1>0, <1>5, CurrentFileType DEF DeleteFile, RequestsSound
  <2>2. QED
    BY <1>5, <2>1 DEF DeleteFile, TypeOK, RequestsSound
<1>6. CASE DeleteReply(u)
  <2>1. Ends(u, AfterSuccess(u)) /\ up[u] # "idle"
    BY <1>6 DEF DeleteReply
  <2>2. QED
    BY <1>0, <1>6, <2>1, EndsType DEF DeleteReply, TypeOK
<1>7. CASE RequestFails(u)
  <2>1. Ends(u, AfterError(u)) /\ up[u] # "idle"
    BY <1>7 DEF RequestFails
  <2>2. faults' \in 0..MaxFaults
    BY <1>7 DEF RequestFails, Fault, TypeOK
  <2>3. QED
    BY <1>0, <1>7, <2>1, <2>2, EndsType DEF RequestFails, TypeOK
<1>8. QED
  BY <1>1, <1>2, <1>3, <1>4, <1>5, <1>6, <1>7 DEF Serve

(* What a form has just sent. *)
LEMMA RequestIs ==
    ASSUME TypeOK, NEW u \in Requests, Request(u)
    PROVE  \E d \in RoleDirs :
              /\ \E k \in {"hand", "attach", "delete"}, names \in Seq(Names),
                    list \in SUBSET Shown(d), stage \in {"check", "remove"} :
                    /\ Send(u, k, d, names, list, stage)
                    /\ stage = "remove" => names # <<>>
              /\ \/ listed' = listed
                 \/ ShowFiles(d, Shown(d) \cup {<<d[1], d[2], Uploading>>})
<1>1. ASSUME NEW d \in RoleDirs, NEW b \in Batches, UploadSend(u, d, b)
      PROVE  /\ b \in Seq(Names) /\ Send(u, "hand", d, b, Shown(d), "check")
             /\ ShowFiles(d, Shown(d) \cup {<<d[1], d[2], Uploading>>})
  BY <1>1, BatchAssumption DEF UploadSend
<1>2. ASSUME NEW d \in RoleDirs, NEW n \in Names, AttachSend(u, d, n)
      PROVE  /\ <<n>> \in Seq(Names) /\ Send(u, "attach", d, <<n>>, {}, "check")
             /\ listed' = listed
  BY <1>2 DEF AttachSend
<1>3. ASSUME NEW p \in Problems, NEW f \in listed[p] \cap Files, DeleteSend(u, f)
      PROVE  \E d \in RoleDirs, names \in Seq(Names) :
                /\ names # <<>> /\ Send(u, "delete", d, names, Shown(d), "remove")
                /\ listed' = listed
  <2>1. <<f[1], f[2]>> \in RoleDirs /\ <<f[3]>> \in Seq(Names) /\ <<f[3]>> # <<>>
    BY DEF Files, RoleDirs
  <2>2. QED
    BY <1>3, <2>1 DEF DeleteSend
<1>4. QED
  BY <1>1, <1>2, <1>3 DEF Request

LEMMA RequestTypes ==
    ASSUME TypeOK, RequestsSound, NEW u \in Requests, Request(u)
    PROVE  TypeOK' /\ RequestsSound'
<1>0. PICK d \in RoleDirs :
           /\ \E k \in {"hand", "attach", "delete"}, names \in Seq(Names),
                 list \in SUBSET Shown(d), stage \in {"check", "remove"} :
                 /\ Send(u, k, d, names, list, stage)
                 /\ stage = "remove" => names # <<>>
           /\ \/ listed' = listed
              \/ ShowFiles(d, Shown(d) \cup {<<d[1], d[2], Uploading>>})
  BY RequestIs
<1>1. PICK k \in {"hand", "attach", "delete"}, names \in Seq(Names),
           list \in SUBSET Shown(d), stage \in {"check", "remove"} :
           /\ Send(u, k, d, names, list, stage)
           /\ stage = "remove" => names # <<>>
  BY <1>0
<1>2. Shown(d) \in SUBSET Entries /\ <<d[1], d[2], Uploading>> \in Entries
  BY OfRoleSubset, DirParts DEF Shown, TypeOK, Entries
<1>3. listed' \in [Problems -> SUBSET Entries]
  BY <1>0, <1>2, ShowFilesType DEF TypeOK
<1>4. RequestsSound'
  BY <1>1 DEF Send, TypeOK, RequestsSound
<1>5. QED
  BY <1>1, <1>2, <1>3, <1>4, BoundAssumption DEF Send, TypeOK, rowVars, fileVars, createVars, sweepVars

LEMMA AbandonTypes ==
    ASSUME TypeOK, RequestsSound, NEW p \in Problems, Abandon(p)
    PROVE  /\ listed' \in [Problems -> SUBSET Entries]
           /\ formAge' \in [Problems -> 0..Grace]
           /\ kind' \in [Requests -> {"hand", "attach", "delete"}]
           /\ base' \in [Requests -> SUBSET Entries]
           /\ stayed' \subseteq Problems
           /\ RequestsSound'
BY BoundAssumption DEF Abandon, TypeOK, RequestsSound

LEMMA FormTypes ==
    ASSUME TypeOK, RequestsSound, NEW p \in Problems, Form(p) \/ Row(p)
    PROVE  TypeOK' /\ RequestsSound'
<1> USE BoundAssumption
    DEF rowVars, fileVars, uploadVars, createVars, sweepVars, formVars, Mounted, Ids
<1>1. CASE OpenForm(p)
  BY <1>1 DEF OpenForm, TypeOK, RequestsSound
<1>2. CASE Submit(p)
  BY <1>2 DEF Submit, TypeOK, RequestsSound
<1>3. CASE Leave(p)
  <2>1. cleanup' \in [Problems -> {"none", "check", "remove"}]
    <3>1. cleanup' = cleanup \/ cleanup' = [cleanup EXCEPT ![p] = "check"]
      BY <1>3 DEF Leave, SendCleanup
    <3>2. QED
      BY <3>1 DEF TypeOK
  <2>2. Abandon(p) /\ UNCHANGED <<up, dir, todo, done, sent>>
    BY <1>3 DEF Leave, Abandon
  <2>3. QED
    BY <1>3, <2>1, <2>2, AbandonTypes DEF Leave, TypeOK
<1>4. CASE Stay(p)
  BY <1>4 DEF Stay, TypeOK, RequestsSound
<1>5. CASE CreateInsert(p)
  BY <1>5 DEF CreateInsert, TypeOK, RequestsSound
<1>6. CASE CreateFails(p)
  <2>1. faults' \in 0..MaxFaults
    BY <1>6 DEF CreateFails, Fault, TypeOK
  <2>2. QED
    BY <1>6, <2>1 DEF CreateFails, CreateEnds, TypeOK, RequestsSound
<1>7. CASE CreateReply(p)
  <2>1. CASE phase[p] = "submitting"
    <3>1. Abandon(p) /\ UNCHANGED <<up, dir, todo, done, sent>>
      BY <1>7, <2>1 DEF CreateReply, Abandon
    <3>2. QED
      BY <1>7, <2>1, <3>1, AbandonTypes DEF CreateReply, CreateEnds, TypeOK
  <2>2. CASE phase[p] # "submitting"
    BY <1>7, <2>2 DEF CreateReply, CreateEnds, TypeOK, RequestsSound
  <2>3. QED
    BY <2>1, <2>2
<1>8. QED
  BY <1>1, <1>2, <1>3, <1>4, <1>5, <1>6, <1>7 DEF Form, Row

(* The removal of a directory, which both removers share. *)
LEMMA RemovalTypes ==
    ASSUME TypeOK, RequestsSound, NEW p \in Problems, RemoveDir(p) \/ RemoveSome(p)
    PROVE  /\ disk' \subseteq disk /\ dirs' \subseteq dirs
           /\ age' \in [Problems -> 0..Grace]
           /\ up' \in [Requests -> {"idle", "check", "write", "temp", "remove", "removed", "lost"}]
           /\ faults' \in 0..MaxFaults
           /\ UNCHANGED <<kind, dir, todo, done, base, sent>>
           /\ RequestsSound'
<1>1. CASE RemoveDir(p)
  BY <1>1, BoundAssumption DEF RemoveDir, TypeOK, RequestsSound
<1>2. CASE RemoveSome(p)
  BY <1>2, BoundAssumption DEF RemoveSome, Fault, TypeOK, RequestsSound, uploadVars
<1>3. QED
  BY <1>1, <1>2

LEMMA ServerTypes ==
    ASSUME TypeOK, RequestsSound, [Next]_vars,
           ~ \E u \in Requests : Request(u) \/ Serve(u),
           ~ \E p \in Problems : Form(p) \/ Row(p)
    PROVE  TypeOK' /\ RequestsSound'
<1> USE DEF rowVars, fileVars, uploadVars, createVars, sweepVars, formVars, Mounted, Ids
<1>1. ASSUME NEW p \in Problems, CleanupCheck(p) PROVE TypeOK' /\ RequestsSound'
  BY <1>1 DEF CleanupCheck, TypeOK, RequestsSound
<1>2. ASSUME NEW p \in Problems, CleanupRemove(p) PROVE TypeOK' /\ RequestsSound'
  BY <1>2, RemovalTypes DEF CleanupRemove, TypeOK
<1>3. ASSUME NEW p \in Problems, SweepCheck(p) PROVE TypeOK' /\ RequestsSound'
  BY <1>3 DEF SweepCheck, TypeOK, RequestsSound
<1>4. ASSUME NEW i \in Ids, DeleteRow(i) PROVE TypeOK' /\ RequestsSound'
  BY <1>4 DEF DeleteRow, TypeOK, RequestsSound
<1>5. ASSUME NEW i \in Ids, NEW c \in CopyIds, CopyRow(i, c) PROVE TypeOK' /\ RequestsSound'
  BY <1>5 DEF CopyRow, TypeOK, RequestsSound
<1>6. CASE SweepList
  BY <1>6 DEF SweepList, TypeOK, RequestsSound
<1>7. CASE SweepRemove
  <2>1. target \in Problems
    BY <1>7 DEF SweepRemove, TypeOK
  <2>2. QED
    BY <1>7, <2>1, RemovalTypes DEF SweepRemove, TypeOK
<1>8. CASE SweepAborts
  BY <1>8, BoundAssumption DEF SweepAborts, Fault, TypeOK, RequestsSound
<1>9. CASE Crash
  <2>1. <<>> \in Seq(Names)
    BY EmptySeq
  <2>2. faults' \in 0..MaxFaults
    BY <1>9, BoundAssumption DEF Crash, Fault, TypeOK
  <2>3. RequestsSound'
    BY <1>9 DEF Crash, TypeOK, RequestsSound
  <2>4. QED
    BY <1>9, <2>1, <2>2, <2>3 DEF Crash, TypeOK
<1>10. CASE Tick
  BY <1>10, BoundAssumption DEF Tick, TypeOK, RequestsSound
<1>11. CASE UNCHANGED vars
  BY <1>11 DEF vars, TypeOK, RequestsSound
<1>12. QED
  BY <1>1, <1>2, <1>3, <1>4, <1>5, <1>6, <1>7, <1>8, <1>9, <1>10, <1>11 DEF Next

LEMMA TypeInit == Init => TypeOK /\ RequestsSound
<1>1. <<>> \in Seq(Names)
  BY EmptySeq
<1>2. QED
  BY <1>1, BoundAssumption DEF Init, TypeOK, RequestsSound, Mounted

(* Type correctness, with the fact that a request in flight knows its role *)
(* directory and a file being stored or deleted is still on its list.      *)
THEOREM TypeCorrect == Spec => [](TypeOK /\ RequestsSound)
<1>1. TypeOK /\ RequestsSound /\ [Next]_vars => (TypeOK /\ RequestsSound)'
  BY ServeTypes, RequestTypes, FormTypes, ServerTypes
<1>2. QED
  BY <1>1, TypeInit, PTL DEF Spec

----------------------------------------------------------------------------
(* Where the entries of a list come from: a form's from the answers to its *)
(* requests, a row's from its form or from the row it is copied from, a    *)
(* request's from its form or from what it has stored itself.              *)
ListFlow ==
    /\ \A p \in Problems : \A e \in listed'[p] :
          \/ e \in listed[p]
          \/ e \in Entries /\ e[1] = p /\ e[3] = Uploading
          \/ \E u \in Requests : dir[u] \in RoleDirs /\ dir[u][1] = p /\ e \in base[u] \cup done[u]
    /\ \A p \in Problems : body'[p] \subseteq body[p] \cup listed[p]
    /\ \A i \in Ids : \A f \in assets'[i] :
          \/ f \in assets[i]
          \/ i \in Problems /\ f \in body[i]
          \/ i \in CopyIds /\ \E j \in Ids : f \in assets[j]
    /\ \A u \in Requests : \A e \in base'[u] :
          (e \in base[u] /\ dir'[u] = dir[u]) \/ (dir'[u] \in RoleDirs /\ e \in Shown(dir'[u]))
    /\ \A u \in Requests : \A f \in done'[u] :
          /\ dir'[u] = dir[u]
          /\ f \in done[u] \/ (f \in disk' /\ f = CurrentFile(u) /\ dir[u] \in RoleDirs)

LEMMA EndsFlow ==
    ASSUME TypeOK, NEW u \in Requests, dir[u] \in RoleDirs,
           NEW fs \in SUBSET (base[u] \cup done[u] \cup listed[dir[u][1]]), Ends(u, fs),
           UNCHANGED <<assets, body>>
    PROVE  ListFlow
<1>1. ASSUME NEW p \in Problems, NEW e \in listed'[p]
      PROVE  e \in listed[p] \/ (dir[u][1] = p /\ e \in base[u] \cup done[u])
  BY <1>1, ShowFilesIs, DirParts DEF Ends
<1>2. /\ \A v \in Requests \ {u} : base'[v] = base[v] /\ done'[v] = done[v] /\ dir'[v] = dir[v]
      /\ base'[u] = {} /\ done'[u] = {}
  BY DEF Ends, TypeOK
<1>3. QED
  BY <1>1, <1>2 DEF ListFlow

LEMMA ServeFlow ==
    ASSUME TypeOK, RequestsSound, NEW u \in Requests, Serve(u) PROVE ListFlow
<1> USE DEF rowVars, fileVars, uploadVars, createVars, sweepVars, formVars
<1>0. /\ up[u] # "idle" => dir[u] \in RoleDirs
      /\ up[u] # "idle" => AfterSuccess(u) \subseteq base[u] \cup done[u] \cup listed[dir[u][1]]
      /\ up[u] # "idle" => AfterError(u) \subseteq base[u] \cup done[u] \cup listed[dir[u][1]]
  BY AnswersFrom DEF RequestsSound
<1>1. CASE UploadCheck(u)
  <2>1. CASE CurrentFile(u) \in disk
    <3>1. Ends(u, AfterError(u)) /\ up[u] # "idle" /\ UNCHANGED <<assets, body>>
      BY <1>1, <2>1 DEF UploadCheck
    <3>2. QED
      BY <1>0, <3>1, EndsFlow
  <2>2. CASE CurrentFile(u) \notin disk
    BY <1>1, <2>2 DEF UploadCheck, ListFlow
  <2>3. QED
    BY <2>1, <2>2
<1>2. CASE UploadWrite(u) \/ DeleteFile(u)
  BY <1>2 DEF UploadWrite, DeleteFile, ListFlow
<1>3. CASE UploadRename(u)
  <2>1. /\ \A v \in Requests \ {u} : done'[v] = done[v]
        /\ done'[u] = done[u] \cup {CurrentFile(u)} /\ CurrentFile(u) \in disk'
        /\ dir[u] \in RoleDirs /\ UNCHANGED <<assets, listed, body, base, dir>>
    BY <1>0, <1>3 DEF UploadRename, TypeOK
  <2>2. QED
    BY <2>1 DEF ListFlow
<1>4. CASE UploadReply(u) \/ DeleteReply(u)
  <2>1. Ends(u, AfterSuccess(u)) /\ up[u] # "idle" /\ UNCHANGED <<assets, body>>
    BY <1>4 DEF UploadReply, DeleteReply
  <2>2. QED
    BY <1>0, <2>1, EndsFlow
<1>5. CASE RequestFails(u)
  <2>1. Ends(u, AfterError(u)) /\ up[u] # "idle" /\ UNCHANGED <<assets, body>>
    BY <1>5 DEF RequestFails
  <2>2. QED
    BY <1>0, <2>1, EndsFlow
<1>6. QED
  BY <1>1, <1>2, <1>3, <1>4, <1>5 DEF Serve

LEMMA RequestFlow ==
    ASSUME TypeOK, RequestsSound, NEW u \in Requests, Request(u) PROVE ListFlow
<1>0. PICK d \in RoleDirs :
           /\ \E k \in {"hand", "attach", "delete"}, names \in Seq(Names),
                 list \in SUBSET Shown(d), stage \in {"check", "remove"} :
                 /\ Send(u, k, d, names, list, stage)
                 /\ stage = "remove" => names # <<>>
           /\ \/ listed' = listed
              \/ ShowFiles(d, Shown(d) \cup {<<d[1], d[2], Uploading>>})
  BY RequestIs
<1>1. PICK k \in {"hand", "attach", "delete"}, names \in Seq(Names),
           list \in SUBSET Shown(d), stage \in {"check", "remove"} :
           Send(u, k, d, names, list, stage)
  BY <1>0
<1>2. ASSUME NEW p \in Problems, NEW e \in listed'[p]
      PROVE  e \in listed[p] \/ (e \in Entries /\ e[1] = p /\ e[3] = Uploading)
  <2>1. <<d[1], d[2], Uploading>> \in Entries /\ d[1] \in Problems
    BY DirParts DEF Entries
  <2>2. Shown(d) \subseteq listed[d[1]]
    BY OfRoleSubset DEF Shown
  <2>3. QED
    BY <1>0, <1>2, <2>1, <2>2, ShowFilesIs
<1>3. /\ \A v \in Requests \ {u} : base'[v] = base[v] /\ dir'[v] = dir[v]
      /\ dir'[u] = d /\ base'[u] = list
      /\ done[u] = {} /\ UNCHANGED <<assets, body, done>>
  BY <1>1 DEF Send, TypeOK, RequestsSound, rowVars, createVars
<1>4. QED
  BY <1>2, <1>3 DEF ListFlow

LEMMA AbandonFlow ==
    ASSUME TypeOK, NEW p \in Problems, Abandon(p)
    PROVE  /\ \A s \in Problems : listed'[s] \subseteq listed[s]
           /\ \A u \in Requests : base'[u] \subseteq base[u]
           /\ UNCHANGED <<done, dir>>
BY DEF Abandon, TypeOK

LEMMA FormFlow ==
    ASSUME TypeOK, NEW p \in Problems, Form(p) \/ Row(p) PROVE ListFlow
<1> USE DEF rowVars, fileVars, uploadVars, createVars, sweepVars, formVars
<1>1. CASE OpenForm(p) \/ Stay(p)
  BY <1>1 DEF OpenForm, Stay, ListFlow
<1>2. CASE Submit(p)
  <2>1. \A s \in Problems : body'[s] \subseteq body[s] \cup listed[s]
    BY <1>2 DEF Submit, TypeOK
  <2>2. QED
    BY <1>2, <2>1 DEF Submit, ListFlow
<1>3. CASE Leave(p)
  <2>1. Abandon(p) /\ UNCHANGED <<assets, body>>
    BY <1>3 DEF Leave
  <2>2. QED
    BY <2>1, AbandonFlow DEF ListFlow
<1>4. CASE CreateInsert(p)
  <2>1. \A i \in Ids : \A f \in assets'[i] : f \in assets[i] \/ (i \in Problems /\ f \in body[i])
    BY <1>4 DEF CreateInsert, TypeOK
  <2>2. QED
    BY <1>4, <2>1 DEF CreateInsert, ListFlow
<1>5. CASE CreateFails(p)
  <2>1. \A s \in Problems : body'[s] \subseteq body[s]
    BY <1>5 DEF CreateFails, CreateEnds, TypeOK
  <2>2. QED
    BY <1>5, <2>1 DEF CreateFails, ListFlow
<1>6. CASE CreateReply(p)
  <2>1. \A s \in Problems : body'[s] \subseteq body[s]
    BY <1>6 DEF CreateReply, CreateEnds, TypeOK
  <2>2. /\ \A s \in Problems : listed'[s] \subseteq listed[s]
        /\ \A u \in Requests : base'[u] \subseteq base[u]
        /\ UNCHANGED <<assets, done, dir>>
    BY <1>6, AbandonFlow DEF CreateReply
  <2>3. QED
    BY <2>1, <2>2 DEF ListFlow
<1>7. QED
  BY <1>1, <1>2, <1>3, <1>4, <1>5, <1>6 DEF Form, Row

LEMMA FlowStep ==
    ASSUME TypeOK, RequestsSound, [Next]_vars PROVE ListFlow
<1> USE DEF rowVars, fileVars, uploadVars, createVars, sweepVars, formVars
<1>1. ASSUME UNCHANGED <<assets, listed, body, base, dir>>, done' = done PROVE ListFlow
  BY <1>1 DEF ListFlow
<1>2. ASSUME NEW p \in Problems, CleanupCheck(p) \/ CleanupRemove(p) \/ SweepCheck(p) PROVE ListFlow
  BY <1>1, <1>2 DEF CleanupCheck, CleanupRemove, SweepCheck, RemoveDir, RemoveSome
<1>3. ASSUME NEW i \in Ids, DeleteRow(i) PROVE ListFlow
  <2>1. \A j \in Ids : assets'[j] \subseteq assets[j]
    BY <1>3 DEF DeleteRow, TypeOK
  <2>2. QED
    BY <1>3, <2>1 DEF DeleteRow, ListFlow
<1>4. ASSUME NEW i \in Ids, NEW c \in CopyIds, CopyRow(i, c) PROVE ListFlow
  <2>1. \A j \in Ids : assets'[j] = assets[j] \/ (j \in CopyIds /\ assets'[j] = assets[i])
    BY <1>4 DEF CopyRow, TypeOK
  <2>2. QED
    BY <1>4, <2>1 DEF CopyRow, ListFlow
<1>5. CASE Crash
  <2>1. /\ \A p \in Problems : body'[p] = {}
        /\ \A u \in Requests : done'[u] = {}
        /\ UNCHANGED <<assets, listed, base, dir>>
    BY <1>5 DEF Crash
  <2>2. QED
    BY <2>1 DEF ListFlow
<1>6. CASE SweepList \/ SweepRemove \/ SweepAborts \/ Tick \/ UNCHANGED vars
  BY <1>1, <1>6 DEF SweepList, SweepRemove, SweepAborts, Tick, vars, RemoveDir, RemoveSome
<1>7. QED
  BY <1>2, <1>3, <1>4, <1>5, <1>6, ServeFlow, RequestFlow, FormFlow DEF Next

----------------------------------------------------------------------------
(* Whose files are whose. *)

RoleOf(f) == <<f[1], f[2]>>

(* Every list of files keeps to its owner: a form, its create request and  *)
(* the row made from them name files of their own problem only, and a      *)
(* request those of its role.                                              *)
OwnFiles ==
    /\ \A p \in Problems : \A f \in assets[p] \cup listed[p] \cup body[p] : f[1] = p
    /\ \A u \in Requests : \A f \in base[u] \cup done[u] : RoleOf(f) = dir[u]

(* A file is in a directory that the reaper lists, even while it is        *)
(* written, so that none stays on disk out of its sight.                   *)
FilesInDirs ==
    /\ \A f \in disk : RoleOf(f) \in dirs
    /\ \A u \in Requests : up[u] = "temp" => dir[u] \in dirs

Places == OwnFiles /\ FilesInDirs

LEMMA CurrentFileIs ==
    ASSUME NEW u \in Requests, dir[u] \in RoleDirs
    PROVE  RoleOf(CurrentFile(u)) = dir[u] /\ CurrentFile(u)[1] = dir[u][1]
BY DirParts DEF RoleOf, CurrentFile

LEMMA OwnFilesStep ==
    ASSUME TypeOK, OwnFiles, ListFlow PROVE OwnFiles'
<1>1. ASSUME NEW p \in Problems, NEW f \in assets'[p] \cup listed'[p] \cup body'[p] PROVE f[1] = p
  <2>1. CASE f \in assets'[p]
    BY <2>1, IdAssumption DEF ListFlow, OwnFiles, Ids
  <2>2. CASE f \in listed'[p]
    <3>1. ASSUME NEW u \in Requests, dir[u][1] = p, f \in base[u] \cup done[u] PROVE f[1] = p
      BY <3>1 DEF OwnFiles, RoleOf
    <3>2. QED
      BY <2>2, <3>1 DEF ListFlow, OwnFiles
  <2>3. CASE f \in body'[p]
    BY <2>3 DEF ListFlow, OwnFiles
  <2>4. QED
    BY <1>1, <2>1, <2>2, <2>3
<1>2. ASSUME NEW u \in Requests, NEW f \in base'[u] PROVE RoleOf(f) = dir'[u]
  BY <1>2 DEF ListFlow, OwnFiles, Shown, OfRole, RoleOf
<1>3. ASSUME NEW u \in Requests, NEW f \in done'[u] PROVE RoleOf(f) = dir'[u]
  BY <1>3, CurrentFileIs DEF ListFlow, OwnFiles
<1>4. QED
  BY <1>1, <1>2, <1>3 DEF OwnFiles, RoleOf

(* A removal by either remover. *)
LEMMA RemovalInDirs ==
    ASSUME TypeOK, FilesInDirs, NEW p \in Problems, RemoveDir(p) \/ RemoveSome(p)
    PROVE  FilesInDirs'
<1>1. CASE RemoveDir(p)
  <2>1. /\ disk' = {f \in disk : f[1] # p} /\ dirs' = {d \in dirs : d[1] # p}
        /\ \A u \in Requests : up'[u] = "temp" => up[u] = "temp" /\ dir[u][1] # p
        /\ dir' = dir
    BY <1>1 DEF RemoveDir, TypeOK
  <2>2. \A f \in disk' : RoleOf(f) \in dirs'
    BY <2>1 DEF FilesInDirs, RoleOf
  <2>3. QED
    BY <2>1, <2>2 DEF FilesInDirs
<1>2. CASE RemoveSome(p)
  BY <1>2 DEF RemoveSome, uploadVars, FilesInDirs, RoleOf
<1>3. QED
  BY <1>1, <1>2

LEMMA ServeInDirs ==
    ASSUME TypeOK, RequestsSound, FilesInDirs, NEW u \in Requests, Serve(u)
    PROVE  FilesInDirs'
<1> USE DEF rowVars, fileVars, uploadVars, createVars, sweepVars, formVars
<1>1. CASE UploadRename(u)
  <2>1. RoleOf(CurrentFile(u)) = dir[u]
    BY <1>1, CurrentFileIs DEF UploadRename, RequestsSound
  <2>2. QED
    BY <1>1, <2>1 DEF UploadRename, TypeOK, FilesInDirs, RoleOf
<1>2. CASE UploadWrite(u)
  BY <1>2 DEF UploadWrite, TypeOK, FilesInDirs, RoleOf
<1>3. CASE UploadCheck(u)
  BY <1>3 DEF UploadCheck, Ends, TypeOK, FilesInDirs, RoleOf
<1>4. CASE UploadReply(u) \/ DeleteReply(u) \/ RequestFails(u)
  BY <1>4 DEF UploadReply, DeleteReply, RequestFails, Ends, TypeOK, FilesInDirs, RoleOf
<1>5. CASE DeleteFile(u)
  BY <1>5 DEF DeleteFile, TypeOK, FilesInDirs, RoleOf
<1>6. QED
  BY <1>1, <1>2, <1>3, <1>4, <1>5 DEF Serve

LEMMA RequestInDirs ==
    ASSUME TypeOK, FilesInDirs, NEW u \in Requests, Request(u) PROVE FilesInDirs'
<1>0. PICK d \in RoleDirs :
           \E k \in {"hand", "attach", "delete"}, names \in Seq(Names),
              list \in SUBSET Shown(d), stage \in {"check", "remove"} :
              Send(u, k, d, names, list, stage)
  BY RequestIs
<1>1. PICK k \in {"hand", "attach", "delete"}, names \in Seq(Names),
           list \in SUBSET Shown(d), stage \in {"check", "remove"} :
           Send(u, k, d, names, list, stage)
  BY <1>0
<1>2. QED
  BY <1>1 DEF Send, TypeOK, FilesInDirs, RoleOf, fileVars

LEMMA InDirsStep ==
    ASSUME TypeOK, RequestsSound, FilesInDirs, [Next]_vars PROVE FilesInDirs'
<1> USE DEF rowVars, fileVars, uploadVars, createVars, sweepVars, formVars
<1>1. ASSUME UNCHANGED <<disk, dirs, up, dir>> PROVE FilesInDirs'
  BY <1>1 DEF FilesInDirs, RoleOf
<1>2. ASSUME NEW p \in Problems, CleanupRemove(p) PROVE FilesInDirs'
  BY <1>2, RemovalInDirs DEF CleanupRemove
<1>3. CASE SweepRemove
  BY <1>3, RemovalInDirs DEF SweepRemove, TypeOK
<1>4. CASE Crash
  BY <1>4 DEF Crash, FilesInDirs, RoleOf
<1>5. ASSUME NEW p \in Problems, Form(p) \/ Row(p) \/ CleanupCheck(p) \/ SweepCheck(p)
      PROVE  UNCHANGED <<disk, dirs, up, dir>>
  BY <1>5 DEF Form, Row, OpenForm, Submit, Leave, Stay, Abandon, CreateInsert, CreateFails,
              CreateReply, CleanupCheck, SweepCheck
<1>6. ASSUME NEW i \in Ids, DeleteRow(i) \/ \E c \in CopyIds : CopyRow(i, c)
      PROVE  UNCHANGED <<disk, dirs, up, dir>>
  BY <1>6 DEF DeleteRow, CopyRow
<1>7. ASSUME SweepList \/ SweepAborts \/ Tick \/ UNCHANGED vars
      PROVE  UNCHANGED <<disk, dirs, up, dir>>
  BY <1>7 DEF SweepList, SweepAborts, Tick, vars
<1>8. QED
  BY <1>1, <1>2, <1>3, <1>4, <1>5, <1>6, <1>7, ServeInDirs, RequestInDirs DEF Next

(* Lists keep to their owner, and files to directories the reaper lists. *)
THEOREM FilesInPlace == Spec => []Places
<1>1. Init => Places
  BY DEF Init, Places, OwnFiles, FilesInDirs, Ids
<1>2. TypeOK /\ RequestsSound /\ Places /\ [Next]_vars => Places'
  BY FlowStep, OwnFilesStep, InDirsStep DEF Places
<1>3. QED
  BY <1>1, <1>2, TypeCorrect, PTL DEF Spec

----------------------------------------------------------------------------
(* Accounted for is accounted for ever. *)
LEMMA RequestLeaves ==
    ASSUME TypeOK, NEW u \in Requests, Request(u)
    PROVE  UNCHANGED <<exists, assets, disk, dirs, age, done, create, body, cleanup, candidates, target,
                       stale, phase, formAge, faults, discarded, exposed, stayed>>
<1>0. PICK d \in RoleDirs :
           \E k \in {"hand", "attach", "delete"}, names \in Seq(Names),
              list \in SUBSET Shown(d), stage \in {"check", "remove"} :
              Send(u, k, d, names, list, stage)
  BY RequestIs
<1>1. PICK k \in {"hand", "attach", "delete"}, names \in Seq(Names),
           list \in SUBSET Shown(d), stage \in {"check", "remove"} :
           Send(u, k, d, names, list, stage)
  BY <1>0
<1>2. QED
  BY <1>1 DEF Send, rowVars, fileVars, createVars, sweepVars

LEMMA ServeLeaves ==
    ASSUME NEW u \in Requests, Serve(u)
    PROVE  /\ UNCHANGED <<exists, assets, create, body, cleanup, candidates, target, stale, phase,
                          formAge, exposed, stayed>>
           /\ ~UploadRename(u) /\ ~DeleteFile(u) => UNCHANGED <<disk, discarded>>
           /\ disk \cup discarded \subseteq disk' \cup discarded'
BY DEF Serve, UploadCheck, UploadWrite, UploadRename, UploadReply, DeleteFile, DeleteReply,
       RequestFails, rowVars, fileVars, createVars, sweepVars, formVars

LEMMA RemoversStep ==
    ASSUME TypeOK, RemoversExposed, [Next]_vars PROVE RemoversExposed'
<1> USE DEF rowVars, fileVars, uploadVars, createVars, sweepVars, formVars, RemoversExposed
<1>1. ASSUME NEW u \in Requests, Request(u) \/ Serve(u) PROVE RemoversExposed'
  BY <1>1, RequestLeaves, ServeLeaves
<1>2. ASSUME NEW p \in Problems, Form(p) PROVE RemoversExposed'
  BY <1>2 DEF Form, OpenForm, Submit, Leave, Stay, SendCleanup, TypeOK
<1>3. ASSUME NEW p \in Problems, Row(p) PROVE RemoversExposed'
  BY <1>3 DEF Row, CreateInsert, CreateFails, CreateReply
<1>4. ASSUME NEW p \in Problems, CleanupCheck(p) PROVE RemoversExposed'
  BY <1>4 DEF CleanupCheck, NoRow, TypeOK
<1>5. ASSUME NEW p \in Problems, CleanupRemove(p) PROVE RemoversExposed'
  BY <1>5 DEF CleanupRemove, TypeOK
<1>6. ASSUME NEW p \in Problems, SweepCheck(p) PROVE RemoversExposed'
  BY <1>6 DEF SweepCheck, NoRow, TypeOK
<1>7. ASSUME NEW i \in Ids, DeleteRow(i) \/ \E c \in CopyIds : CopyRow(i, c)
      PROVE  RemoversExposed'
  BY <1>7 DEF DeleteRow, CopyRow
<1>8. CASE SweepList
  BY <1>8 DEF SweepList, SweepDue, PastGrace
<1>9. CASE SweepRemove
  BY <1>9 DEF SweepRemove
<1>10. CASE SweepAborts \/ Crash \/ Tick
  BY <1>10 DEF SweepAborts, Crash, Tick
<1>11. CASE UNCHANGED vars
  BY <1>11 DEF vars
<1>12. QED
  BY <1>1, <1>2, <1>3, <1>4, <1>5, <1>6, <1>7, <1>8, <1>9, <1>10, <1>11 DEF Next

(* Whatever removes a file, except the user, is at work on its problem.    *)
Remover(p) == cleanup[p] = "remove" \/ target = p

LEMMA FilesStay ==
    ASSUME TypeOK, [Next]_vars, NEW f \in disk \cup discarded, ~Remover(f[1])
    PROVE  f \in disk' \cup discarded'
<1> USE DEF rowVars, fileVars, uploadVars, createVars, sweepVars, formVars
<1>1. ASSUME NEW p \in Problems, p # f[1], RemoveDir(p) \/ RemoveSome(p), discarded' = discarded
      PROVE  f \in disk' \cup discarded'
  BY <1>1 DEF RemoveDir, RemoveSome, OfProblem
<1>2. ASSUME NEW p \in Problems, CleanupRemove(p) PROVE f \in disk' \cup discarded'
  BY <1>1, <1>2 DEF CleanupRemove, Remover
<1>3. CASE SweepRemove
  BY <1>1, <1>3 DEF SweepRemove, Remover, TypeOK
<1>4. ASSUME NEW u \in Requests, Request(u) \/ Serve(u) PROVE f \in disk' \cup discarded'
  BY <1>4, RequestLeaves, ServeLeaves
<1>5. ASSUME NEW p \in Problems, Form(p) \/ Row(p) \/ CleanupCheck(p) \/ SweepCheck(p)
      PROVE  UNCHANGED <<disk, discarded>>
  BY <1>5 DEF Form, Row, OpenForm, Submit, Leave, Stay, CreateInsert, CreateFails, CreateReply,
              CleanupCheck, SweepCheck
<1>6. ASSUME NEW i \in Ids, DeleteRow(i) \/ \E c \in CopyIds : CopyRow(i, c)
      PROVE  UNCHANGED <<disk, discarded>>
  BY <1>6 DEF DeleteRow, CopyRow
<1>7. ASSUME SweepList \/ SweepAborts \/ Crash \/ Tick \/ UNCHANGED vars
      PROVE  UNCHANGED <<disk, discarded>>
  BY <1>7 DEF SweepList, SweepAborts, Crash, Tick, vars
<1>8. QED
  BY <1>2, <1>3, <1>4, <1>5, <1>6, <1>7 DEF Next

LEMMA ExposedStays ==
    ASSUME TypeOK, [Next]_vars PROVE exposed \subseteq exposed'
<1> USE DEF rowVars, fileVars, uploadVars, createVars, sweepVars, formVars
<1>1. ASSUME NEW p \in Problems, \/ Form(p) \/ Row(p) \/ CleanupCheck(p) \/ CleanupRemove(p)
                                 \/ SweepCheck(p)
      PROVE  exposed \subseteq exposed'
  BY <1>1 DEF Form, Row, OpenForm, Submit, Leave, Stay, CreateInsert, CreateFails, CreateReply,
              CleanupCheck, CleanupRemove, SweepCheck
<1>2. ASSUME NEW u \in Requests, Request(u) \/ Serve(u) PROVE exposed \subseteq exposed'
  BY <1>2, RequestLeaves, ServeLeaves
<1>3. QED
  BY <1>1, <1>2 DEF Next, DeleteRow, CopyRow, SweepList, SweepRemove, SweepAborts, Crash, Tick, vars

LEMMA KeptStable ==
    ASSUME TypeOK, RemoversExposed, [Next]_vars PROVE KeptEntries \subseteq KeptEntries'
<1>1. \A f \in Files : f[1] \in Problems
  BY DEF Files
<1>2. ASSUME NEW f \in Files, Remover(f[1]) PROVE f[1] \in exposed
  BY <1>1, <1>2, IdAssumption DEF Remover, RemoversExposed
<1>3. QED
  BY <1>2, FilesStay, ExposedStays DEF KeptEntries, Kept

(* What is still uploaded is no file. *)
LEMMA PlaceholdersAreNoFiles ==
    ASSUME NEW e \in Entries, e[3] = Uploading PROVE e \notin Files
BY NameAssumption DEF Entries, Files

LEMMA ListsStep ==
    ASSUME TypeOK, ListsKept, ListFlow, KeptEntries \subseteq KeptEntries', TypeOK'
    PROVE  ListsKept'
<1>1. ASSUME NEW e \in Entries, e[3] = Uploading PROVE e \in KeptEntries'
  BY <1>1, PlaceholdersAreNoFiles DEF KeptEntries
<1>2. ASSUME NEW u \in Requests, NEW f \in done'[u] PROVE f \in KeptEntries'
  <2>1. f \in done[u] \/ f \in disk'
    BY <1>2 DEF ListFlow
  <2>2. f \in Entries
    BY <1>2, FilesAreEntries DEF TypeOK
  <2>3. QED
    BY <2>1, <2>2 DEF ListsKept, KeptEntries, Kept
<1>3. ASSUME NEW p \in Problems, NEW e \in listed'[p] PROVE e \in KeptEntries'
  BY <1>1, <1>3 DEF ListFlow, ListsKept
<1>4. ASSUME NEW p \in Problems, NEW e \in body'[p] PROVE e \in KeptEntries'
  BY <1>4 DEF ListFlow, ListsKept
<1>5. ASSUME NEW i \in Ids, NEW f \in assets'[i] PROVE f \in KeptEntries'
  BY <1>5 DEF ListFlow, ListsKept
<1>6. ASSUME NEW u \in Requests, NEW e \in base'[u] PROVE e \in KeptEntries'
  <2>1. CASE e \in base[u]
    BY <2>1 DEF ListsKept
  <2>2. CASE dir'[u] \in RoleDirs /\ e \in Shown(dir'[u])
    BY <2>2, DirParts, OfRoleSubset DEF Shown, ListsKept
  <2>3. QED
    BY <1>6, <2>1, <2>2 DEF ListFlow
<1>7. QED
  BY <1>2, <1>3, <1>4, <1>5, <1>6 DEF ListsKept

----------------------------------------------------------------------------
(* Nobody is at work on a young form. *)

(* What can happen to a form that is not opened in this step.              *)
LEMMA FormHistory ==
    ASSUME TypeOK, [Next]_vars, NEW p \in Problems, ~OpenForm(p)
    PROVE  /\ phase'[p] = "closed" <=> phase[p] = "closed"
           /\ phase'[p] \in Mounted =>
                 /\ phase[p] \in Mounted
                 /\ p \in stayed => p \in stayed'
                 /\ formAge[p] <= formAge'[p]
<1> USE DEF rowVars, fileVars, uploadVars, createVars, sweepVars, formVars, Mounted
<1> DEFINE Goal == /\ phase'[p] = "closed" <=> phase[p] = "closed"
                   /\ phase'[p] \in Mounted =>
                         /\ phase[p] \in Mounted
                         /\ p \in stayed => p \in stayed'
                         /\ formAge[p] <= formAge'[p]
<1>0. formAge[p] \in 0..Grace /\ Grace \in Nat
  BY BoundAssumption DEF TypeOK
<1>2. ASSUME NEW u \in Requests, Request(u) \/ Serve(u) PROVE UNCHANGED <<phase, stayed, formAge>>
  BY <1>2, RequestLeaves, ServeLeaves
<1>3. ASSUME NEW s \in Problems, Form(s) PROVE Goal
  <2>1. CASE OpenForm(s)
    <3>1. s # p
      BY <2>1
    <3>2. phase'[p] = phase[p] /\ UNCHANGED <<stayed, formAge>>
      BY <2>1, <3>1 DEF OpenForm, TypeOK
    <3>3. QED
      BY <1>0, <3>2
  <2>2. CASE Submit(s)
    BY <1>0, <2>2 DEF Submit, TypeOK
  <2>3. CASE Leave(s)
    BY <1>0, <2>3 DEF Leave, Abandon, TypeOK
  <2>4. CASE Stay(s)
    BY <1>0, <2>4 DEF Stay, TypeOK
  <2>5. QED
    BY <1>3, <2>1, <2>2, <2>3, <2>4 DEF Form
<1>4. ASSUME NEW s \in Problems, Row(s) PROVE Goal
  <2>1. CASE CreateInsert(s)
    BY <1>0, <2>1 DEF CreateInsert
  <2>2. CASE CreateFails(s)
    BY <1>0, <2>2 DEF CreateFails, TypeOK
  <2>3. CASE CreateReply(s)
    BY <1>0, <2>3 DEF CreateReply, Abandon, TypeOK
  <2>4. QED
    BY <1>4, <2>1, <2>2, <2>3 DEF Row
<1>5. ASSUME NEW s \in Problems, CleanupCheck(s) \/ CleanupRemove(s) \/ SweepCheck(s)
      PROVE  UNCHANGED <<phase, stayed, formAge>>
  BY <1>5 DEF CleanupCheck, CleanupRemove, SweepCheck
<1>6. CASE Crash
  BY <1>0, <1>6 DEF Crash, TypeOK
<1>7. CASE Tick
  <2>1. formAge'[p] = formAge[p] \/ (formAge[p] < Grace /\ formAge'[p] = formAge[p] + 1)
    BY <1>7 DEF Tick
  <2>2. QED
    BY <1>0, <1>7, <2>1 DEF Tick
<1>8. ASSUME NEW i \in Ids, DeleteRow(i) \/ \E c \in CopyIds : CopyRow(i, c)
      PROVE  UNCHANGED <<phase, stayed, formAge>>
  BY <1>8 DEF DeleteRow, CopyRow
<1>9. CASE SweepList \/ SweepRemove \/ SweepAborts \/ UNCHANGED vars
  BY <1>0, <1>9 DEF SweepList, SweepRemove, SweepAborts, vars
<1>10. Goal
  BY <1>0, <1>2, <1>3, <1>4, <1>5, <1>6, <1>7, <1>8, <1>9 DEF Next
<1>11. QED
  BY <1>10

(* A form that is not open gets no directory and no remover. *)
LEMMA UnopenedStep ==
    ASSUME TypeOK, RequestsSound, Unopened, [Next]_vars PROVE Unopened'
<1> SUFFICES ASSUME NEW p \in Problems, phase'[p] = "closed"
             PROVE  /\ Spared(p)' /\ ~HasDir(p)' /\ age'[p] = 0 /\ formAge'[p] = 0
                    /\ listed'[p] = {} /\ \A u \in Requests : dir'[u][1] # p
  BY DEF Unopened
<1> USE DEF rowVars, fileVars, uploadVars, createVars, sweepVars, formVars, Spared, HasDir
<1> DEFINE Goal == /\ Spared(p)' /\ ~HasDir(p)' /\ age'[p] = 0 /\ formAge'[p] = 0
                   /\ listed'[p] = {} /\ \A u \in Requests : dir'[u][1] # p
<1>0. ~OpenForm(p)
  BY DEF OpenForm, TypeOK
<1>1. phase[p] = "closed" /\ phase[p] \notin Mounted
  BY <1>0, FormHistory DEF Mounted
<1>2. /\ Spared(p) /\ ~HasDir(p) /\ age[p] = 0 /\ formAge[p] = 0
      /\ listed[p] = {} /\ \A u \in Requests : dir[u][1] # p
  BY <1>1 DEF Unopened
<1>3. ASSUME NEW u \in Requests, Serve(u) PROVE Goal
  <2>1. Spared(p)' /\ formAge' = formAge
    BY <1>2, <1>3, ServeLeaves
  <2>2. up[u] # "idle" /\ dir[u] \in RoleDirs /\ dir[u][1] # p
    BY <1>2, <1>3 DEF Serve, UploadCheck, UploadWrite, UploadRename, UploadReply, DeleteFile,
                      DeleteReply, RequestFails, RequestsSound, TypeOK
  <2>3. ASSUME NEW fs, Ends(u, fs)
        PROVE  listed'[p] = {} /\ \A v \in Requests : dir'[v][1] # p
    <3>1. listed'[p] = {}
      BY <1>2, <2>2, <2>3, ShowFilesIs DEF Ends
    <3>2. \A v \in Requests : dir'[v] = dir[v] \/ dir'[v] = Nowhere
      BY <2>3 DEF Ends, TypeOK
    <3>3. QED
      BY <1>2, <3>1, <3>2, NowhereIsNowhere
  <2>4. CASE UploadCheck(u)
    <3>1. Ends(u, AfterError(u)) \/ UNCHANGED <<dir, listed>>
      BY <2>4 DEF UploadCheck
    <3>2. QED
      BY <1>2, <2>1, <2>3, <2>4, <3>1 DEF UploadCheck
  <2>5. CASE UploadWrite(u)
    BY <1>2, <2>1, <2>2, <2>5 DEF UploadWrite, TypeOK
  <2>6. CASE UploadRename(u) \/ DeleteFile(u)
    BY <1>2, <2>1, <2>6 DEF UploadRename, DeleteFile
  <2>7. CASE UploadReply(u) \/ DeleteReply(u) \/ RequestFails(u)
    BY <1>2, <2>1, <2>3, <2>7 DEF UploadReply, DeleteReply, RequestFails
  <2>8. QED
    BY <1>3, <2>4, <2>5, <2>6, <2>7 DEF Serve
<1>4. ASSUME NEW u \in Requests, Request(u) PROVE Goal
  <2>1. PICK d \in RoleDirs :
           /\ \E k \in {"hand", "attach", "delete"}, names \in Seq(Names),
                 list \in SUBSET Shown(d), stage \in {"check", "remove"} :
                 /\ Send(u, k, d, names, list, stage)
                 /\ stage = "remove" => names # <<>>
           /\ \/ listed' = listed
              \/ ShowFiles(d, Shown(d) \cup {<<d[1], d[2], Uploading>>})
    BY <1>4, RequestIs
  <2>2. phase[d[1]] \in Mounted /\ \A v \in Requests : dir'[v] = dir[v] \/ dir'[v] = d
    BY <2>1 DEF Send, TypeOK
  <2>3. d[1] # p /\ listed'[p] = listed[p]
    BY <1>1, <2>1, <2>2, ShowFilesIs
  <2>4. QED
    BY <1>2, <1>4, <2>2, <2>3, RequestLeaves
<1>5. ASSUME NEW s \in Problems, Form(s) PROVE Goal
  <2>1. CASE OpenForm(s) \/ Submit(s)
    BY <1>2, <2>1 DEF OpenForm, Submit
  <2>2. CASE Leave(s)
    <3>1. s # p /\ cleanup'[p] = cleanup[p] /\ UNCHANGED <<dirs, age, candidates, target, dir>>
      BY <1>1, <2>2 DEF Leave, SendCleanup, Abandon, TypeOK
    <3>2. listed'[p] = listed[p] /\ formAge'[p] = formAge[p]
      BY <2>2, <3>1 DEF Leave, Abandon, TypeOK
    <3>3. QED
      BY <1>2, <3>1, <3>2
  <2>3. CASE Stay(s)
    BY <1>1, <1>2, <2>3 DEF Stay, TypeOK
  <2>4. QED
    BY <1>5, <2>1, <2>2, <2>3 DEF Form
<1>6. ASSUME NEW s \in Problems, Row(s) PROVE Goal
  <2>1. CASE CreateInsert(s) \/ CreateFails(s)
    BY <1>2, <2>1 DEF CreateInsert, CreateFails
  <2>2. CASE CreateReply(s)
    <3>1. UNCHANGED <<dirs, age, cleanup, candidates, target, dir>>
      BY <2>2 DEF CreateReply, Abandon
    <3>2. listed'[p] = {} /\ formAge'[p] = 0
      BY <1>2, <2>2 DEF CreateReply, Abandon, TypeOK
    <3>3. QED
      BY <1>2, <3>1, <3>2
  <2>3. QED
    BY <1>6, <2>1, <2>2 DEF Row
<1>7. ASSUME NEW s \in Problems, RemoveDir(s) \/ RemoveSome(s), listed' = listed, formAge' = formAge
      PROVE  Goal \/ ~Spared(p)'
  BY <1>2, <1>7 DEF RemoveDir, RemoveSome, TypeOK
<1>8. ASSUME NEW s \in Problems, CleanupCheck(s) PROVE Goal
  BY <1>2, <1>8 DEF CleanupCheck, TypeOK
<1>9. ASSUME NEW s \in Problems, CleanupRemove(s) PROVE Goal
  <2>1. Spared(p)'
    BY <1>2, <1>9 DEF CleanupRemove, TypeOK
  <2>2. QED
    BY <1>7, <1>9, <2>1 DEF CleanupRemove
<1>10. ASSUME NEW s \in Problems, SweepCheck(s) PROVE Goal
  BY <1>2, <1>10, IdAssumption DEF SweepCheck
<1>11. CASE SweepList
  BY <1>2, <1>11 DEF SweepList, PastGrace
<1>12. CASE SweepRemove
  <2>1. Spared(p)'
    BY <1>2, <1>12, IdAssumption DEF SweepRemove
  <2>2. QED
    BY <1>7, <1>12, <2>1 DEF SweepRemove, TypeOK
<1>13. CASE SweepAborts \/ Crash
  BY <1>2, <1>13, IdAssumption DEF SweepAborts, Crash
<1>14. CASE Tick
  BY <1>1, <1>2, <1>14 DEF Tick
<1>15. ASSUME NEW i \in Ids, DeleteRow(i) \/ \E c \in CopyIds : CopyRow(i, c) PROVE Goal
  BY <1>2, <1>15 DEF DeleteRow, CopyRow
<1>16. CASE UNCHANGED vars
  BY <1>2, <1>16 DEF vars
<1>17. Goal
  BY <1>3, <1>4, <1>5, <1>6, <1>8, <1>9, <1>10, <1>11, <1>12, <1>13, <1>14, <1>15, <1>16 DEF Next
<1>18. QED
  BY <1>17

(* An undisturbed form was so before, or has just been opened. *)
LEMMA UndisturbedBefore ==
    ASSUME TypeOK, TypeOK', Unopened, YoungSpared, [Next]_vars,
           NEW p \in Problems, Undisturbed(p)'
    PROVE  /\ Undisturbed(p) \/ (OpenForm(p) /\ phase[p] = "closed")
           /\ Spared(p) /\ age[p] <= formAge[p]
<1>0. /\ formAge[p] \in Int /\ formAge'[p] \in Int /\ formAge'[p] < Grace
      /\ Grace \in Int /\ age[p] \in Int
  BY BoundAssumption DEF TypeOK, Undisturbed
<1>1. CASE OpenForm(p)
  BY <1>0, <1>1 DEF OpenForm, Unopened
<1>2. CASE ~OpenForm(p)
  <2>1. phase[p] \in Mounted /\ p \notin stayed /\ formAge[p] <= formAge'[p]
    BY <1>2, FormHistory DEF Undisturbed
  <2>2. Undisturbed(p)
    BY <1>0, <2>1 DEF Undisturbed
  <2>3. QED
    BY <2>2 DEF YoungSpared
<1>3. QED
  BY <1>1, <1>2

LEMMA YoungStep ==
    ASSUME TypeOK, TypeOK', RequestsSound, Unopened, YoungSpared, [Next]_vars PROVE YoungSpared'
<1> SUFFICES ASSUME NEW p \in Problems, Undisturbed(p)'
             PROVE  Spared(p)' /\ age'[p] <= formAge'[p]
  BY DEF YoungSpared
<1> USE DEF rowVars, fileVars, uploadVars, createVars, sweepVars, formVars, Spared
<1> DEFINE Goal == Spared(p)' /\ age'[p] <= formAge'[p]
<1>0. /\ Spared(p) /\ age[p] <= formAge[p] /\ p # NoProblem
      /\ phase'[p] \in Mounted /\ formAge'[p] < Grace /\ p \notin stayed'
      /\ age[p] \in 0..Grace /\ formAge[p] \in 0..Grace /\ Grace \in Nat \ {0}
  BY UndisturbedBefore, IdAssumption, BoundAssumption DEF Undisturbed, TypeOK
<1>1. ASSUME NEW s \in Problems, RemoveDir(s) \/ RemoveSome(s)
      PROVE  age'[p] <= formAge[p]
  <2>1. age'[p] = age[p] \/ age'[p] = 0
    BY <1>1 DEF RemoveDir, RemoveSome, TypeOK
  <2>2. QED
    BY <1>0, <2>1
<1>2. ASSUME NEW u \in Requests, Request(u) PROVE Goal
  BY <1>0, <1>2, RequestLeaves
<1>3. ASSUME NEW u \in Requests, Serve(u) PROVE Goal
  <2>1. age'[p] = age[p] \/ age'[p] = 0
    BY <1>3 DEF Serve, UploadCheck, UploadWrite, UploadRename, UploadReply, DeleteFile,
                DeleteReply, RequestFails, TypeOK
  <2>2. QED
    BY <1>0, <1>3, <2>1, ServeLeaves
<1>4. ASSUME NEW s \in Problems, Form(s) PROVE Goal
  <2>1. CASE OpenForm(s) \/ Submit(s)
    BY <1>0, <2>1 DEF OpenForm, Submit
  <2>2. CASE Leave(s)
    <3>1. s # p
      BY <1>0, <2>2 DEF Leave, TypeOK, Mounted
    <3>2. cleanup'[p] = cleanup[p] /\ formAge'[p] = formAge[p] /\ UNCHANGED <<age, candidates, target>>
      BY <2>2, <3>1 DEF Leave, SendCleanup, Abandon, TypeOK
    <3>3. QED
      BY <1>0, <3>2
  <2>3. CASE Stay(s)
    <3>1. s # p
      BY <1>0, <2>3 DEF Stay
    <3>2. QED
      BY <1>0, <2>3, <3>1 DEF Stay, TypeOK
  <2>4. QED
    BY <1>4, <2>1, <2>2, <2>3 DEF Form
<1>5. ASSUME NEW s \in Problems, Row(s) PROVE Goal
  <2>1. CASE CreateInsert(s) \/ CreateFails(s)
    BY <1>0, <2>1 DEF CreateInsert, CreateFails
  <2>2. CASE CreateReply(s)
    <3>1. UNCHANGED <<age, cleanup, candidates, target>>
      BY <2>2 DEF CreateReply
    <3>2. formAge'[p] = formAge[p]
      BY <1>0, <2>2 DEF CreateReply, Abandon, TypeOK, Mounted
    <3>3. QED
      BY <1>0, <3>1, <3>2
  <2>3. QED
    BY <1>5, <2>1, <2>2 DEF Row
<1>6. ASSUME NEW s \in Problems, CleanupCheck(s) PROVE Goal
  BY <1>0, <1>6 DEF CleanupCheck, TypeOK
<1>7. ASSUME NEW s \in Problems, CleanupRemove(s) PROVE Goal
  BY <1>0, <1>1, <1>7 DEF CleanupRemove, TypeOK
<1>8. ASSUME NEW s \in Problems, SweepCheck(s) PROVE Goal
  BY <1>0, <1>8 DEF SweepCheck
<1>9. CASE SweepList
  BY <1>0, <1>9 DEF SweepList, PastGrace
<1>10. CASE SweepRemove
  BY <1>0, <1>1, <1>10 DEF SweepRemove, TypeOK
<1>11. CASE SweepAborts \/ Crash
  BY <1>0, <1>11 DEF SweepAborts, Crash
<1>12. CASE Tick
  <2>1. phase[p] \in Mounted /\ (age'[p] = age[p] \/ age'[p] = age[p] + 1)
    BY <1>0, <1>12 DEF Tick
  <2>2. formAge'[p] = IF formAge[p] < Grace THEN formAge[p] + 1 ELSE formAge[p]
    BY <1>12, <2>1 DEF Tick
  <2>3. age'[p] <= formAge'[p]
    BY <1>0, <2>1, <2>2
  <2>4. QED
    BY <1>0, <1>12, <2>3 DEF Tick
<1>13. ASSUME NEW i \in Ids, DeleteRow(i) \/ \E c \in CopyIds : CopyRow(i, c) PROVE Goal
  BY <1>0, <1>13 DEF DeleteRow, CopyRow
<1>14. CASE UNCHANGED vars
  BY <1>0, <1>14 DEF vars
<1>15. Goal
  BY <1>2, <1>3, <1>4, <1>5, <1>6, <1>7, <1>8, <1>9, <1>10, <1>11, <1>12, <1>13, <1>14 DEF Next
<1>16. QED
  BY <1>15

(* The answers to the requests of a young form, and so its lists, name     *)
(* only files of its own directory, where no remover is at work.           *)
LEMMA YoungListsStep ==
    ASSUME TypeOK, TypeOK', Unopened, YoungSpared, YoungLists, OwnFiles, ListFlow, [Next]_vars
    PROVE  YoungLists'
<1> SUFFICES ASSUME NEW p \in Problems, Undisturbed(p)'
             PROVE  /\ listed'[p] \subseteq InPlace'
                    /\ \A u \in Requests : dir'[u][1] = p => base'[u] \cup done'[u] \subseteq InPlace'
  BY DEF YoungLists
<1>1. Spared(p) /\ p # NoProblem
  BY UndisturbedBefore, IdAssumption
<1>2. /\ listed[p] \subseteq InPlace
      /\ \A u \in Requests : dir[u][1] = p => base[u] \cup done[u] \subseteq InPlace
  BY UndisturbedBefore DEF Unopened, YoungLists
<1>3. ASSUME NEW e \in InPlace, e[1] = p PROVE e \in InPlace'
  <2>1. ~Remover(e[1])
    BY <1>1, <1>3 DEF Spared, Remover
  <2>2. QED
    BY <2>1, FilesStay DEF InPlace
<1>4. ASSUME NEW e \in Entries, e[3] = Uploading PROVE e \in InPlace'
  BY <1>4, PlaceholdersAreNoFiles DEF InPlace
<1>5. ASSUME NEW u \in Requests, dir[u][1] = p, NEW e \in base[u] \cup done[u] PROVE e \in InPlace'
  <2>1. e[1] = p
    BY <1>5 DEF OwnFiles, RoleOf
  <2>2. QED
    BY <1>2, <1>3, <1>5, <2>1
<1>6. ASSUME NEW e \in listed[p] PROVE e \in InPlace'
  BY <1>2, <1>3, <1>6 DEF OwnFiles
<1>7. ASSUME NEW e \in listed'[p] PROVE e \in InPlace'
  BY <1>4, <1>5, <1>6, <1>7 DEF ListFlow
<1>8. ASSUME NEW u \in Requests, dir'[u][1] = p, NEW e \in base'[u] PROVE e \in InPlace'
  <2>1. CASE e \in base[u] /\ dir'[u] = dir[u]
    BY <1>5, <1>8, <2>1
  <2>2. CASE e \in Shown(dir'[u])
    BY <1>6, <1>8, <2>2, OfRoleSubset DEF Shown
  <2>3. QED
    BY <1>8, <2>1, <2>2 DEF ListFlow
<1>9. ASSUME NEW u \in Requests, dir'[u][1] = p, NEW f \in done'[u] PROVE f \in InPlace'
  <2>1. dir'[u] = dir[u] /\ (f \in done[u] \/ f \in disk')
    BY <1>9 DEF ListFlow
  <2>2. f \in Entries
    BY <1>9, FilesAreEntries DEF TypeOK
  <2>3. QED
    BY <1>5, <1>9, <2>1, <2>2 DEF InPlace
<1>10. QED
  BY <1>7, <1>8, <1>9

(* The inductive invariant: every list of files on its way to a row or a   *)
(* form is kept, a remover on its way has passed its check, and none is at *)
(* work on a form in its first REAP_GRACE.                                 *)
THEOREM FilesInvariant == Spec => []IInv
<1>1. Init => IInv
  <2>1. Init => RemoversExposed /\ ListsKept
    BY DEF Init, RemoversExposed, ListsKept
  <2>2. Init => Unopened
    BY IdAssumption, NowhereIsNowhere DEF Init, Unopened, Spared, HasDir
  <2>3. Init => YoungSpared /\ YoungLists
    BY DEF Init, YoungSpared, YoungLists, Undisturbed, Mounted
  <2>4. QED
    BY <2>1, <2>2, <2>3, TypeInit DEF IInv
<1>2. IInv /\ (TypeOK /\ RequestsSound)' /\ Places /\ [Next]_vars => IInv'
  BY RemoversStep, KeptStable, FlowStep, ListsStep, UnopenedStep, YoungStep, YoungListsStep
     DEF IInv, Places
<1>3. QED
  BY <1>1, <1>2, TypeCorrect, FilesInPlace, PTL DEF Spec

(* A saved problem, or a copy of one, loses no file except through a check *)
(* that truly found its problem without a row.                             *)
THEOREM SavedFilesAreKept == Spec => []SavedFilesKept
<1>1. IInv => SavedFilesKept
  BY DEF IInv, TypeOK, ListsKept, KeptEntries, SavedFilesKept
<1>2. QED
  BY <1>1, FilesInvariant, PTL

(* A form that has been open for less than REAP_GRACE, and has not sent    *)
(* its own cleanup, lists no file that is gone, unless the user removed it *)
(* (cleanup.rs:11-12), in whatever order its requests end.                 *)
THEOREM FormFilesAreKept == Spec => []FormFilesKept
<1>1. IInv => FormFilesKept
  BY FilesAreEntries DEF IInv, YoungLists, InPlace, FormFilesKept
<1>2. QED
  BY <1>1, FilesInvariant, PTL

----------------------------------------------------------------------------
(* How far the races of the runs FilesSaved and FilesCopied reach. *)

(* A row with no remover between its check and its removal.                *)
Settled(p) == p \in exists /\ ~Remover(p)

(* The race of the run FilesSaved needs a remover that had asked before    *)
(* the row was inserted: from a settled row on, no later cleanup or sweep  *)
(* endangers it, and only the user removes its files.                      *)
SettledIsSafe ==
    \A p \in Problems : Settled(p) =>
        /\ \A f \in OfProblem(p) : f \in disk' \/ f \in discarded'
        /\ p \in exists' => Settled(p)'

(* The files that the run FilesCopied loses are those of copies only: no   *)
(* row made by a form refers to the directory of another problem.          *)
OnlyCopiesLose ==
    \A p \in Problems \ exists : Removes(p) =>
        \A i \in exists : (\E f \in assets[i] : f[1] = p) => i \in CopyIds

(* The removal of a directory without a row can only harm copies. *)
THEOREM OnlyCopiesAreHarmed == Spec => [][OnlyCopiesLose]_vars
<1>1. TypeOK /\ Places /\ [Next]_vars => [OnlyCopiesLose]_vars
  BY DEF TypeOK, Places, OwnFiles, OnlyCopiesLose, Ids
<1>2. QED
  BY <1>1, FilesInPlace, TypeCorrect, PTL DEF Spec

(* No remover sets to work on a problem that has its row. *)
LEMMA RowsStaySettled ==
    ASSUME TypeOK, [Next]_vars, NEW p \in Problems, Settled(p) PROVE ~Remover(p)'
<1> USE DEF rowVars, fileVars, uploadVars, createVars, sweepVars, formVars, Remover
<1>0. cleanup[p] # "remove" /\ target # p /\ p \in exists /\ p # NoProblem
  BY IdAssumption DEF Settled
<1>1. ASSUME NEW u \in Requests, Request(u) \/ Serve(u) PROVE ~Remover(p)'
  BY <1>0, <1>1, RequestLeaves, ServeLeaves
<1>2. ASSUME NEW s \in Problems, Form(s) PROVE ~Remover(p)'
  BY <1>0, <1>2 DEF Form, OpenForm, Submit, Leave, Stay, SendCleanup, TypeOK
<1>3. ASSUME NEW s \in Problems, Row(s) PROVE ~Remover(p)'
  BY <1>0, <1>3 DEF Row, CreateInsert, CreateFails, CreateReply
<1>4. ASSUME NEW s \in Problems, CleanupCheck(s) PROVE ~Remover(p)'
  BY <1>0, <1>4 DEF CleanupCheck, NoRow, TypeOK
<1>5. ASSUME NEW s \in Problems, CleanupRemove(s) PROVE ~Remover(p)'
  BY <1>0, <1>5 DEF CleanupRemove, TypeOK
<1>6. ASSUME NEW s \in Problems, SweepCheck(s) PROVE ~Remover(p)'
  BY <1>0, <1>6 DEF SweepCheck, NoRow
<1>7. ASSUME NEW i \in Ids, DeleteRow(i) \/ \E c \in CopyIds : CopyRow(i, c) PROVE ~Remover(p)'
  BY <1>0, <1>7 DEF DeleteRow, CopyRow
<1>8. CASE SweepList \/ SweepRemove \/ SweepAborts \/ Crash \/ Tick \/ UNCHANGED vars
  BY <1>0, <1>8 DEF SweepList, SweepRemove, SweepAborts, Crash, Tick, vars
<1>9. QED
  BY <1>1, <1>2, <1>3, <1>4, <1>5, <1>6, <1>7, <1>8 DEF Next

(* A settled row is safe from the cleanup and the reaper as long as it is  *)
(* there: only a remover that asked before the insert can race it.         *)
THEOREM SettledRowsAreSafe == Spec => [][SettledIsSafe]_vars
<1>1. TypeOK /\ [Next]_vars => [SettledIsSafe]_vars
  <2> SUFFICES ASSUME TypeOK, [Next]_vars, NEW p \in Problems, Settled(p)
               PROVE  /\ \A f \in OfProblem(p) : f \in disk' \/ f \in discarded'
                      /\ p \in exists' => Settled(p)'
    BY DEF SettledIsSafe
  <2>1. ~Remover(p)'
    BY RowsStaySettled
  <2>2. ASSUME NEW f \in OfProblem(p) PROVE f \in disk' \cup discarded'
    BY FilesStay DEF OfProblem, Settled
  <2>3. QED
    BY <2>1, <2>2 DEF Settled
<1>2. QED
  BY <1>1, TypeCorrect, PTL DEF Spec
=============================================================================
