------------------------- MODULE ProblemSetsProofs -------------------------
(***************************************************************************)
(* ProblemSets, for any requests, problems, addresses and limits. The      *)
(* invariant has three parts that share only the places of the requests:   *)
(* counting and inserting, copying, and sharing.                           *)
(***************************************************************************)
EXTENDS ProblemSets, FiniteSetTheorems, TLAPS

(* Room: a create that nothing crossed still has room below its limit.     *)
Room == \A r \in Requests : pc[r] = "insert" /\ r \notin crossed => Cardinality(Own) < limit[r]

Counted == Room /\ OverOnlyIfCrossed

(* What a copy has linked, holds and has still to do is what it took.      *)
Progress ==
    \A r \in Requests : pc[r] \in {"row", "link"} /\ r \in sets =>
        taken[r] = links[r] \cup todo[r] \cup (IF pc[r] = "link" THEN hand[r] ELSE {})

Unlinked == \A r \in Requests : pc[r] \in {"new", "copy", "list"} => links[r] = {}

Recorded == \A r \in copies : pc[r] = "done"

Copied == Progress /\ Unlinked /\ Recorded /\ CopyIsWhole

(* Only requests that have ended are earlier than another.                 *)
EarlierEnded ==
    \A r \in Requests : r \notin earlier[r] /\ \A q \in earlier[r] : pc[q] \in Ended

(* Shares come from the creation or from a finished replacement.           *)
FromReplaced == \A row \in shares : row.by = Source \/ Replaced(row.by)

(* A running replacement has every older share on its list of deletions.   *)
OldDoomed ==
    \A r \in Requests : pc[r] \in {"lock", "add", "commit"} =>
        \A row \in shares : row.by \in earlier[r] \cup {Source} => row \in doomed[r]

(* It adds only its own list, and all of it unless another replacement     *)
(* overlapped.                                                             *)
AddsOwn ==
    \A r \in Requests : pc[r] = "commit" =>
        /\ \A row \in added[r] : row.by = r /\ row.who \in list[r]
        /\ Alone(r) => \A p \in list[r] : Has(added[r], p)

Shared == EarlierEnded /\ FromReplaced /\ OldDoomed /\ AddsOwn /\ SharesAreLatest

IInv == TypeOK /\ Counted /\ Copied /\ Shared

LEMMA Initially == Init => IInv
<1> SUFFICES ASSUME Init PROVE IInv OBVIOUS
<1> USE RequestsAssumption DEF Init, Nothing
<1>1. TypeOK BY DEF TypeOK, PCs, Ended, ShareRow, Share
<1>2. Counted BY DEF Counted, Room, OverOnlyIfCrossed
<1>3. Copied BY DEF Copied, Progress, Unlinked, Recorded, CopyIsWhole
<1>4. EarlierEnded /\ OldDoomed /\ AddsOwn /\ SharesAreLatest
      BY DEF EarlierEnded, OldDoomed, AddsOwn, SharesAreLatest, Replaced
<1>5. FromReplaced BY DEF FromReplaced, ShareRow
<1> QED BY <1>1, <1>2, <1>3, <1>4, <1>5 DEF IInv, Shared

LEMMA StepTypeOK == TypeOK /\ [Next]_vars => TypeOK'
<1> SUFFICES ASSUME TypeOK, [Next]_vars PROVE TypeOK' OBVIOUS
<1> USE RequestsAssumption, LimitsAssumption
    DEF TypeOK, PCs, Ended, Goto, copyVars, createVars, shareVars, sourceVars
<1>1. ASSUME NEW r \in Requests, Create(r) PROVE TypeOK'
  <2>1. CASE CheckLimit(r) BY <2>1 DEF CheckLimit
  <2>2. CASE InsertSet(r) BY <2>2 DEF InsertSet, NewSet
  <2> QED BY <1>1, <2>1, <2>2 DEF Create
<1>2. ASSUME NEW r \in Requests, Copy(r) PROVE TypeOK'
  <2>1. CASE CopyRead(r) BY <2>1 DEF CopyRead
  <2>2. CASE CopyInsert(r) BY <2>2 DEF CopyInsert, NewSet
  <2>3. CASE CopyList(r) BY <2>3 DEF CopyList
  <2>4. CASE CopyRow(r) BY <2>4 DEF CopyRow
  <2>5. CASE CopyLink(r) BY <2>5 DEF CopyLink
  <2>6. CASE CopyRecord(r) BY <2>6 DEF CopyRecord
  <2> QED BY <1>2, <2>1, <2>2, <2>3, <2>4, <2>5, <2>6 DEF Copy
<1>3. ASSUME NEW r \in Requests, Update(r) PROVE TypeOK'
  <2>1. CASE UpdateRow(r) BY <2>1 DEF UpdateRow
  <2>2. CASE DeleteStarts(r) BY <2>2 DEF DeleteStarts
  <2>3. CASE DeleteEnds(r) BY <2>3 DEF DeleteEnds
  <2>4. CASE AddShares(r)
    <3>1. {ShareRow(p, r) : p \in {p \in list[r] : ~Has(shares \ doomed[r], p)}} \subseteq Share
          BY DEF ShareRow, Share
    <3> QED BY <2>4, <3>1 DEF AddShares
  <2>5. CASE Commit(r) BY <2>5 DEF Commit
  <2> QED BY <1>3, <2>1, <2>2, <2>3, <2>4, <2>5 DEF Update
<1>4. ASSUME NEW r \in Requests, Fail(r) PROVE TypeOK' BY <1>4 DEF Fail
<1>5. ASSUME NEW s \in sets, DeleteSet(s) PROVE TypeOK' BY <1>5 DEF DeleteSet
<1>6. ASSUME NEW p \in Problems, DeleteProblem(p) \/ AddProblem(p) \/ RemoveProblem(p)
      PROVE  TypeOK'
      BY <1>6 DEF DeleteProblem, AddProblem, RemoveProblem
<1>7. CASE UNCHANGED vars BY <1>7 DEF vars
<1> QED BY <1>1, <1>2, <1>3, <1>4, <1>5, <1>6, <1>7 DEF Next

(* Sets that go make room.                                                 *)
LEMMA Fewer ==
    ASSUME TypeOK, sets' \subseteq sets
    PROVE  /\ Cardinality(Own') <= Cardinality(Own)
           /\ Cardinality(Own') \in Nat /\ Cardinality(Own) \in Nat
<1>1. Own \in SUBSET Requests /\ Own' \in SUBSET Own BY DEF TypeOK, Own
<1>2. IsFiniteSet(Own) BY <1>1, RequestsAssumption, FS_Subset
<1>3. IsFiniteSet(Own') /\ Cardinality(Own') <= Cardinality(Own) BY <1>1, <1>2, FS_Subset
<1> QED BY <1>2, <1>3, FS_CardinalityType

(* Steps that insert no set and begin no create.                           *)
LEMMA CountedFrame ==
    ASSUME TypeOK, TypeOK', Counted, sets' \subseteq sets, UNCHANGED createVars,
           \A q \in Requests : pc'[q] = "insert" => pc[q] = "insert"
    PROVE  Counted'
<1>1. Room'
  <2> SUFFICES ASSUME NEW q \in Requests, pc'[q] = "insert", q \notin crossed
               PROVE  Cardinality(Own') < limit[q]
      BY DEF Room, createVars
  <2>1. Cardinality(Own) < limit[q] BY DEF Counted, Room
  <2> QED BY <2>1, Fewer DEF TypeOK
<1> QED BY <1>1 DEF Counted, OverOnlyIfCrossed, createVars

(* A new set crosses every create that waits to insert.                    *)
LEMMA CountedInsert ==
    ASSUME TypeOK, TypeOK', Counted, NEW r \in Requests, NewSet(r), UNCHANGED limit,
           NEW x \in PCs \ {"insert"}, pc' = [pc EXCEPT ![r] = x],
           over' \subseteq over \/ (over' \subseteq over \cup {r} /\ r \in crossed)
    PROVE  Counted'
<1>1. Room' BY DEF Room, NewSet, TypeOK
<1> QED BY <1>1 DEF Counted, OverOnlyIfCrossed, NewSet, TypeOK

(* A create that nothing crossed inserts below the limit it read.          *)
LEMMA InsertWithin ==
    ASSUME TypeOK, Counted, NEW r \in Requests, InsertSet(r), r \notin crossed
    PROVE  over' = over
<1>1. Cardinality(Own) < limit[r] BY DEF InsertSet, Goto, Counted, Room
<1>2. Own \in SUBSET Requests BY DEF TypeOK, Own
<1>3. IsFiniteSet(Own) BY <1>2, RequestsAssumption, FS_Subset
<1>4. Cardinality(Own) \in Nat BY <1>3, FS_CardinalityType
<1>5. Cardinality(Own \cup {r}) = IF r \in Own THEN Cardinality(Own) ELSE Cardinality(Own) + 1
      BY <1>3, FS_AddElement
<1>6. ~(Cardinality(Own \cup {r}) > limit[r]) BY <1>1, <1>4, <1>5 DEF TypeOK
<1> QED BY <1>6 DEF InsertSet

(* Steps that touch neither the sets nor the copies.                       *)
LEMMA CopiedFrame ==
    ASSUME TypeOK, Copied, UNCHANGED <<sets, links, copyVars>>, NEW r \in Requests,
           pc[r] \notin Ended,
           NEW x \in PCs \ {"new", "copy", "list", "row", "link"}, pc' = [pc EXCEPT ![r] = x]
    PROVE  Copied'
<1> USE DEF copyVars, Copied
<1>1. Progress' BY DEF Progress, TypeOK
<1>2. Unlinked' BY DEF Unlinked, TypeOK
<1>3. Recorded' BY DEF Recorded, TypeOK, Ended
<1>4. CopyIsWhole' BY DEF CopyIsWhole
<1> QED BY <1>1, <1>2, <1>3, <1>4

(* Steps that write no share and finish no replacement.                    *)
LEMMA SharedFrame ==
    ASSUME TypeOK, Shared, UNCHANGED shareVars, Source \in sets' => Source \in sets,
           NEW r \in Requests, pc[r] \notin Ended,
           NEW x \in PCs \ {"lock", "add", "commit", "replaced"}, pc' = [pc EXCEPT ![r] = x]
    PROVE  Shared'
<1> USE DEF shareVars, Shared
<1>1. EarlierEnded' BY DEF EarlierEnded, TypeOK, Ended
<1>2. FromReplaced' BY RequestsAssumption DEF FromReplaced, Replaced, TypeOK, Share, Ended
<1>3. OldDoomed' BY DEF OldDoomed, TypeOK
<1>4. \A q \in Requests : Replaced(q)' <=> Replaced(q) BY DEF Replaced, TypeOK, Ended
<1>5. \A q \in Requests : Alone(q)' <=> Alone(q) BY <1>4 DEF Alone
<1>6. AddsOwn' BY <1>5 DEF AddsOwn, TypeOK, Has
<1>7. SharesAreLatest' BY <1>4, <1>5 DEF SharesAreLatest
<1> QED BY <1>1, <1>2, <1>3, <1>6, <1>7

LEMMA CreateKeeps ==
    ASSUME IInv, TypeOK', NEW r \in Requests, Create(r)
    PROVE  IInv'
<1> USE DEF IInv
<1>1. CASE CheckLimit(r)
  <2>1. PICK max \in Limits :
            /\ limit' = [limit EXCEPT ![r] = max] /\ pc[r] = "new"
            /\ pc' = [pc EXCEPT ![r] = IF Allowed(Cardinality(Own), max) THEN "insert" ELSE "done"]
        BY <1>1 DEF CheckLimit, Goto
  <2>2. UNCHANGED <<sets, links, copyVars, crossed, over, shareVars>>
        BY <1>1 DEF CheckLimit, sourceVars
  <2>3. Own' = Own BY <2>2 DEF Own
  <2>4. Room' BY <2>1, <2>2, <2>3 DEF Counted, Room, Allowed, TypeOK
  <2>5. Counted' BY <2>2, <2>4 DEF Counted, OverOnlyIfCrossed
  <2>6. PICK x \in {"insert", "done"} : pc' = [pc EXCEPT ![r] = x] BY <2>1
  <2>7. pc[r] \notin Ended /\ x \in PCs BY <2>1 DEF Ended, PCs
  <2>8. Copied' BY <2>2, <2>6, <2>7, CopiedFrame
  <2>9. Shared' BY <2>2, <2>6, <2>7, SharedFrame
  <2> QED BY <2>5, <2>8, <2>9
<1>2. CASE InsertSet(r)
  <2>1. /\ pc[r] = "insert" /\ pc' = [pc EXCEPT ![r] = "done"] /\ NewSet(r)
        /\ UNCHANGED <<links, copyVars, limit, shareVars>> /\ over' \subseteq over \cup {r}
        BY <1>2 DEF InsertSet, Goto, sourceVars
  <2>2. "done" \in PCs /\ pc[r] \notin Ended BY <2>1 DEF PCs, Ended
  <2>3. Counted'
    <3>1. over' \subseteq over \/ (over' \subseteq over \cup {r} /\ r \in crossed)
          BY <2>1, <1>2, InsertWithin
    <3> QED BY <2>1, <2>2, <3>1, CountedInsert
  <2>4. Copied'
    <3>1. r \notin copies BY <2>1 DEF Copied, Recorded
    <3>2. Progress' BY <2>1 DEF Copied, Progress, TypeOK, NewSet, copyVars
    <3>3. Unlinked' /\ Recorded' BY <2>1, <3>1 DEF Copied, Unlinked, Recorded, TypeOK, copyVars
    <3>4. CopyIsWhole' BY <2>1, <3>1 DEF Copied, CopyIsWhole, NewSet, copyVars
    <3> QED BY <3>2, <3>3, <3>4 DEF Copied
  <2>5. Source \in sets' => Source \in sets BY <2>1, RequestsAssumption DEF NewSet
  <2>6. Shared' BY <2>1, <2>2, <2>5, SharedFrame
  <2> QED BY <2>3, <2>4, <2>6
<1> QED BY <1>1, <1>2 DEF Create

LEMMA CopyKeeps ==
    ASSUME IInv, TypeOK', NEW r \in Requests, Copy(r)
    PROVE  IInv'
<1> USE DEF IInv
<1>1. PICK x \in {"copy", "list", "row", "link", "done", "failed"} : pc' = [pc EXCEPT ![r] = x]
      BY DEF Copy, CopyRead, CopyInsert, CopyList, CopyRow, CopyLink, CopyRecord, Goto
<1>2. pc[r] \notin Ended /\ x \in PCs /\ pc[r] # "insert" /\ UNCHANGED <<shareVars, limit, over>>
      BY DEF Copy, CopyRead, CopyInsert, CopyList, CopyRow, CopyLink, CopyRecord, Goto, Ended, PCs,
             createVars
<1>3. Source \in sets' => Source \in sets
      BY RequestsAssumption DEF Copy, CopyRead, CopyInsert, CopyList, CopyRow, CopyLink, CopyRecord,
                                NewSet
<1>4. Shared' BY <1>1, <1>2, <1>3, SharedFrame
<1>5. Counted'
  <2>1. CASE CopyInsert(r)
    <3>1. NewSet(r) /\ x # "insert" BY <2>1 DEF CopyInsert
    <3> QED BY <3>1, <1>1, <1>2, CountedInsert
  <2>2. CASE ~CopyInsert(r)
    <3>1. UNCHANGED <<sets, createVars>>
          BY <2>2 DEF Copy, CopyRead, CopyList, CopyRow, CopyLink, CopyRecord
    <3>2. \A q \in Requests : pc'[q] = "insert" => pc[q] = "insert" BY <1>1 DEF TypeOK
    <3> QED BY <3>1, <3>2, CountedFrame
  <2> QED BY <2>1, <2>2
<1>6. r \notin copies BY <1>2 DEF Copied, Recorded, Ended
<1>7. Copied'
  <2> USE <1>6 DEF Copied, copyVars, sourceVars, Goto
  <2>1. CASE CopyRead(r)
    <3>1. Progress' /\ Unlinked' BY <2>1 DEF CopyRead, Progress, Unlinked, TypeOK
    <3>2. Recorded' /\ CopyIsWhole' BY <2>1 DEF CopyRead, Recorded, CopyIsWhole, TypeOK
    <3> QED BY <3>1, <3>2
  <2>2. CASE CopyInsert(r)
    <3>1. Progress' BY <2>2 DEF CopyInsert, NewSet, Progress, TypeOK
    <3>2. Unlinked' /\ Recorded' BY <2>2 DEF CopyInsert, Unlinked, Recorded, TypeOK
    <3>3. CopyIsWhole' BY <2>2 DEF CopyInsert, NewSet, CopyIsWhole
    <3> QED BY <3>1, <3>2, <3>3
  <2>3. CASE CopyList(r)
    <3>1. links[r] = {} BY <2>3 DEF CopyList, Unlinked
    <3>2. Progress' BY <2>3, <3>1 DEF CopyList, Progress, TypeOK
    <3>3. Unlinked' /\ Recorded' BY <2>3 DEF CopyList, Unlinked, Recorded, TypeOK
    <3>4. CopyIsWhole' BY <2>3 DEF CopyList, CopyIsWhole, TypeOK
    <3> QED BY <3>2, <3>3, <3>4
  <2>4. CASE CopyRow(r)
    <3>1. Progress' BY <2>4 DEF CopyRow, Progress, TypeOK
    <3>2. Unlinked' /\ Recorded' BY <2>4 DEF CopyRow, Unlinked, Recorded, TypeOK
    <3>3. CopyIsWhole' BY <2>4 DEF CopyRow, CopyIsWhole
    <3> QED BY <3>1, <3>2, <3>3
  <2>5. CASE CopyLink(r)
    <3>1. Progress' BY <2>5 DEF CopyLink, Progress, TypeOK
    <3>2. Unlinked' /\ Recorded' BY <2>5 DEF CopyLink, Unlinked, Recorded, TypeOK
    <3>3. CopyIsWhole' BY <2>5 DEF CopyLink, CopyIsWhole, TypeOK
    <3> QED BY <3>1, <3>2, <3>3
  <2>6. CASE CopyRecord(r)
    <3>1. Progress' BY <2>6 DEF CopyRecord, Progress, TypeOK
    <3>2. Unlinked' /\ Recorded' BY <2>6 DEF CopyRecord, Unlinked, Recorded, TypeOK
    <3>3. r \in sets => links[r] = taken[r] BY <2>6 DEF CopyRecord, Progress
    <3>4. CopyIsWhole' BY <2>6, <3>3 DEF CopyRecord, CopyIsWhole
    <3> QED BY <3>1, <3>2, <3>4
  <2> QED BY <2>1, <2>2, <2>3, <2>4, <2>5, <2>6 DEF Copy
<1> QED BY <1>4, <1>5, <1>7

(* The row of an update is a new beginning: its shares are to come.        *)
LEMMA BeginShared ==
    ASSUME IInv, NEW r \in Requests, UpdateRow(r)
    PROVE  Shared'
<1> USE DEF IInv, Shared
<1>1. PICK x \in {"update", "done"} : pc[r] = "new" /\ pc' = [pc EXCEPT ![r] = x]
      BY DEF UpdateRow, Goto
<1>2. /\ UNCHANGED <<sets, shares, doomed, added>>
      /\ earlier' = [earlier EXCEPT ![r] = {q \in Requests : pc[q] \in Ended}]
      /\ \A q \in Requests \ {r} : list'[q] = list[q]
      BY DEF UpdateRow, TypeOK
<1>3. EarlierEnded' BY <1>1, <1>2 DEF EarlierEnded, TypeOK, Ended
<1>4. \A q \in Requests : Replaced(q)' <=> Replaced(q) BY <1>1 DEF Replaced, TypeOK
<1>5. FromReplaced' BY <1>2, <1>4 DEF FromReplaced, TypeOK, Share
<1>6. OldDoomed' BY <1>1, <1>2 DEF OldDoomed, TypeOK
<1>7. \A q \in Requests \ {r} : Alone(q)' <=> Alone(q) BY <1>2, <1>4 DEF Alone, TypeOK
<1>8. AddsOwn' BY <1>1, <1>2, <1>7 DEF AddsOwn, TypeOK, Has
<1>9. SharesAreLatest'
  <2> SUFFICES ASSUME NEW q \in Requests, Replaced(q)'
               PROVE  /\ \A row \in shares : row.by \notin earlier'[q] \cup {Source}
                      /\ Alone(q)' /\ Source \in sets => {row.who : row \in shares} = list'[q]
      BY <1>2 DEF SharesAreLatest
  <2>1. q # r /\ Replaced(q) BY <1>1, <1>4 DEF Replaced, TypeOK
  <2> QED BY <2>1, <1>2, <1>7 DEF SharesAreLatest, TypeOK
<1> QED BY <1>3, <1>5, <1>6, <1>8, <1>9

(* The steps of the transaction up to its commit.                          *)
LEMMA RunShared ==
    ASSUME IInv, TypeOK', NEW r \in Requests,
           DeleteStarts(r) \/ DeleteEnds(r) \/ AddShares(r)
    PROVE  Shared'
<1> USE DEF IInv, Shared
<1>1. PICK x \in {"lock", "add", "commit", "failed"} : pc' = [pc EXCEPT ![r] = x]
      BY DEF DeleteStarts, DeleteEnds, AddShares, Goto
<1>2. /\ UNCHANGED <<sets, shares, list, earlier>>
      /\ pc[r] \in {"update", "lock", "add"} /\ pc[r] \notin Ended
      /\ \A q \in Requests \ {r} : doomed'[q] = doomed[q] /\ added'[q] = added[q]
      BY DEF DeleteStarts, DeleteEnds, AddShares, Goto, shareVars, TypeOK, Ended
<1>3. EarlierEnded' BY <1>1, <1>2 DEF EarlierEnded, TypeOK
<1>4. \A q \in Requests : Replaced(q)' <=> Replaced(q)
      BY <1>1, <1>2 DEF Replaced, TypeOK
<1>5. FromReplaced' BY <1>2, <1>4 DEF FromReplaced, TypeOK, Share
<1>6. \A q \in Requests : Alone(q)' <=> Alone(q) BY <1>2, <1>4 DEF Alone
<1>7. OldDoomed'
  <2> SUFFICES ASSUME NEW q \in Requests, pc'[q] \in {"lock", "add", "commit"},
                      NEW row \in shares, row.by \in earlier[q] \cup {Source}
               PROVE  row \in doomed'[q]
      BY <1>2 DEF OldDoomed
  <2>1. CASE q # r BY <2>1, <1>1, <1>2 DEF OldDoomed, TypeOK
  <2>2. CASE q = r /\ DeleteStarts(r) BY <2>2 DEF DeleteStarts, TypeOK
  <2>3. CASE q = r /\ ~DeleteStarts(r)
    <3>1. pc[r] \in {"lock", "add"} /\ doomed' = doomed
          BY <2>3 DEF DeleteEnds, AddShares, Goto, shareVars
    <3> QED BY <2>3, <3>1 DEF OldDoomed
  <2> QED BY <2>1, <2>2, <2>3
<1>8. AddsOwn'
  <2> SUFFICES ASSUME NEW q \in Requests, pc'[q] = "commit"
               PROVE  /\ \A row \in added'[q] : row.by = q /\ row.who \in list[q]
                      /\ Alone(q)' => \A p \in list[q] : Has(added'[q], p)
      BY <1>2 DEF AddsOwn, Has
  <2>1. CASE q # r BY <2>1, <1>1, <1>2, <1>6 DEF AddsOwn, TypeOK
  <2>2. CASE q = r
    <3>1. AddShares(r)
          BY <2>2, <1>2 DEF DeleteStarts, DeleteEnds, Goto, TypeOK
    <3>2. added'[r] = {ShareRow(p, r) : p \in {p \in list[r] : ~Has(shares \ doomed[r], p)}}
          BY <3>1 DEF AddShares, TypeOK
    <3>3. \A row \in added'[r] : row.by = r /\ row.who \in list[r] BY <3>2 DEF ShareRow
    <3>4. ASSUME Alone(r), NEW p \in list[r] PROVE Has(added'[r], p)
      <4>1. ~Has(shares \ doomed[r], p)
        <5> SUFFICES ASSUME NEW row \in shares \ doomed[r] PROVE FALSE BY DEF Has
        <5>1. pc[r] = "add" BY <3>1 DEF AddShares, Goto
        <5>2. row.by \notin earlier[r] \cup {Source} BY <5>1 DEF OldDoomed
        <5>3. row.by \in Requests /\ Replaced(row.by)
              BY <5>2 DEF FromReplaced, TypeOK, Share
        <5>4. row.by # r BY <5>1, <5>3 DEF Replaced
        <5> QED BY <3>4, <5>2, <5>3, <5>4 DEF Alone
      <4>2. ShareRow(p, r) \in added'[r] BY <3>2, <4>1
      <4>3. ShareRow(p, r).who = p BY DEF ShareRow
      <4> QED BY <4>2, <4>3 DEF Has
    <3> QED BY <2>2, <3>3, <3>4, <1>6
  <2> QED BY <2>1, <2>2
<1>9. SharesAreLatest' BY <1>2, <1>4, <1>6 DEF SharesAreLatest
<1> QED BY <1>3, <1>5, <1>7, <1>8, <1>9

LEMMA CommitShared ==
    ASSUME IInv, NEW r \in Requests, Commit(r)
    PROVE  Shared'
<1> USE DEF IInv, Shared
<1>1. /\ pc[r] = "commit" /\ pc' = [pc EXCEPT ![r] = "replaced"]
      /\ shares' = (shares \ doomed[r]) \cup added[r]
      /\ UNCHANGED <<sets, list, doomed, added, earlier>>
      BY DEF Commit, Goto
<1>2. EarlierEnded' BY <1>1 DEF EarlierEnded, TypeOK, Ended
<1>3. \A q \in Requests : r \notin earlier[q]
      BY <1>1 DEF EarlierEnded, Ended
<1>4. \A q \in Requests : Replaced(q)' <=> Replaced(q) \/ q = r BY <1>1 DEF Replaced, TypeOK
<1>5. \A row \in added[r] : row.by = r /\ row.who \in list[r] BY <1>1 DEF AddsOwn
<1>6. \A row \in shares \ doomed[r] :
          row.by \notin earlier[r] \cup {Source} /\ row.by \in Requests /\ Replaced(row.by)
          /\ row.by # r
      BY <1>1 DEF OldDoomed, FromReplaced, TypeOK, Share, Replaced
<1>7. FromReplaced' BY <1>1, <1>4, <1>5, <1>6 DEF FromReplaced
<1>8. OldDoomed'
  <2> SUFFICES ASSUME NEW q \in Requests, pc'[q] \in {"lock", "add", "commit"},
                      NEW row \in shares', row.by \in earlier[q] \cup {Source}
               PROVE  row \in doomed[q]
      BY <1>1 DEF OldDoomed
  <2>1. q # r /\ pc[q] = pc'[q] BY <1>1 DEF TypeOK
  <2>2. row.by # r BY <1>3, RequestsAssumption
  <2>3. row \in shares BY <2>2, <1>1, <1>5
  <2> QED BY <2>1, <2>3 DEF OldDoomed
<1>9. \A q \in Requests \ {r} : ~Alone(q)' BY <1>1, <1>3, <1>4 DEF Alone
<1>10. AddsOwn' BY <1>1, <1>9 DEF AddsOwn, TypeOK, Has
<1>11. SharesAreLatest'
  <2> SUFFICES ASSUME NEW q \in Requests, Replaced(q)'
               PROVE  /\ \A row \in shares' : row.by \notin earlier[q] \cup {Source}
                      /\ Alone(q)' /\ Source \in sets' => {row.who : row \in shares'} = list[q]
      BY <1>1 DEF SharesAreLatest
  <2>1. CASE q # r
    <3>1. Replaced(q) BY <2>1, <1>4
    <3>2. \A row \in shares' : row.by \notin earlier[q] \cup {Source}
          BY <3>1, <1>1, <1>3, <1>5, RequestsAssumption DEF SharesAreLatest
    <3> QED BY <3>2, <2>1, <1>9
  <2>2. CASE q = r
    <3>1. \A row \in shares' : row.by \notin earlier[r] \cup {Source}
          BY <1>1, <1>3, <1>5, <1>6, RequestsAssumption
    <3>2. ASSUME Alone(r)' PROVE {row.who : row \in shares'} = list[r]
      <4>1. Alone(r) BY <3>2, <1>1, <1>4 DEF Alone
      <4>2. shares \ doomed[r] = {} BY <4>1, <1>6 DEF Alone
      <4>3. shares' = added[r] BY <4>2, <1>1
      <4>4. \A p \in list[r] : Has(added[r], p) BY <4>1, <1>1 DEF AddsOwn
      <4> QED BY <4>3, <4>4, <1>5 DEF Has
    <3> QED BY <2>2, <3>1, <3>2
  <2> QED BY <2>1, <2>2
<1> QED BY <1>2, <1>7, <1>8, <1>10, <1>11

LEMMA UpdateKeeps ==
    ASSUME IInv, TypeOK', NEW r \in Requests, Update(r)
    PROVE  IInv'
<1> USE DEF IInv
<1>1. PICK x \in {"update", "done", "lock", "add", "commit", "replaced", "failed"} :
          pc' = [pc EXCEPT ![r] = x]
      BY DEF Update, UpdateRow, DeleteStarts, DeleteEnds, AddShares, Commit, Goto
<1>2. pc[r] \notin Ended /\ x \in PCs /\ UNCHANGED <<sets, links, copyVars, createVars>>
      BY DEF Update, UpdateRow, DeleteStarts, DeleteEnds, AddShares, Commit, Goto, Ended, PCs,
             sourceVars
<1>3. Copied' BY <1>1, <1>2, CopiedFrame
<1>4. Counted'
  <2>1. \A q \in Requests : pc'[q] = "insert" => pc[q] = "insert" BY <1>1 DEF TypeOK
  <2> QED BY <1>2, <2>1, CountedFrame
<1>5. Shared' BY BeginShared, RunShared, CommitShared DEF Update
<1> QED BY <1>3, <1>4, <1>5

LEMMA FailKeeps ==
    ASSUME IInv, TypeOK', NEW r \in Requests, Fail(r)
    PROVE  IInv'
<1> USE DEF IInv
<1>1. /\ pc[r] \notin Ended /\ pc' = [pc EXCEPT ![r] = "failed"] /\ "failed" \in PCs
      /\ UNCHANGED <<sets, links, copyVars, createVars, shareVars>>
      BY DEF Fail, sourceVars, PCs, Ended
<1>2. \A q \in Requests : pc'[q] = "insert" => pc[q] = "insert" BY <1>1 DEF TypeOK
<1>3. Counted' BY <1>1, <1>2, CountedFrame
<1>4. Copied' BY <1>1, CopiedFrame
<1>5. Shared' BY <1>1, SharedFrame
<1> QED BY <1>3, <1>4, <1>5

LEMMA OthersKeep ==
    ASSUME IInv, TypeOK',
           \/ \E s \in sets : DeleteSet(s)
           \/ \E p \in Problems : DeleteProblem(p) \/ AddProblem(p) \/ RemoveProblem(p)
    PROVE  IInv'
<1> USE DEF IInv
<1>1. /\ UNCHANGED <<pc, copyVars, createVars, list, doomed, added, earlier>> /\ sets' \subseteq sets
      /\ \A r \in Requests : links'[r] = IF r \in sets \ sets' THEN {} ELSE links[r]
      BY RequestsAssumption DEF DeleteSet, DeleteProblem, AddProblem, RemoveProblem, TypeOK, shareVars
<1>2. \/ shares' = {} /\ Source \notin sets'
      \/ shares' = shares /\ (Source \in sets' => Source \in sets)
      BY DEF DeleteSet, DeleteProblem, AddProblem, RemoveProblem, shareVars
<1>3. Counted' BY <1>1, CountedFrame
<1>4. Copied'
  <2> USE <1>1 DEF Copied, copyVars
  <2>1. Progress' BY DEF Progress
  <2>2. Unlinked' BY DEF Unlinked
  <2>3. Recorded' BY DEF Recorded
  <2>4. CopyIsWhole' BY DEF CopyIsWhole, TypeOK
  <2> QED BY <2>1, <2>2, <2>3, <2>4
<1>5. \A q \in Requests : (Replaced(q)' <=> Replaced(q)) /\ (Alone(q)' <=> Alone(q))
      BY <1>1 DEF Replaced, Alone
<1>6. Shared'
  <2> USE <1>1, <1>2, <1>5 DEF Shared
  <2>1. EarlierEnded' BY DEF EarlierEnded
  <2>2. FromReplaced' BY DEF FromReplaced, TypeOK, Share
  <2>3. OldDoomed' BY DEF OldDoomed
  <2>4. AddsOwn' BY DEF AddsOwn, Has
  <2>5. SharesAreLatest' BY DEF SharesAreLatest
  <2> QED BY <2>1, <2>2, <2>3, <2>4, <2>5
<1> QED BY <1>3, <1>4, <1>6

LEMMA Preserved == IInv /\ [Next]_vars => IInv'
<1> SUFFICES ASSUME IInv, [Next]_vars PROVE IInv' OBVIOUS
<1>1. TypeOK' BY StepTypeOK DEF IInv
<1>2. CASE \E r \in Requests : Create(r) BY <1>1, <1>2, CreateKeeps
<1>3. CASE \E r \in Requests : Copy(r) BY <1>1, <1>3, CopyKeeps
<1>4. CASE \E r \in Requests : Update(r) BY <1>1, <1>4, UpdateKeeps
<1>5. CASE \E r \in Requests : Fail(r) BY <1>1, <1>5, FailKeeps
<1>6. CASE \/ \E s \in sets : DeleteSet(s)
           \/ \E p \in Problems : DeleteProblem(p) \/ AddProblem(p) \/ RemoveProblem(p)
      BY <1>1, <1>6, OthersKeep
<1>7. CASE UNCHANGED vars
  <2> USE <1>7 DEF vars, copyVars, createVars, shareVars, sourceVars, IInv
  <2>1. Counted' BY DEF Counted, Room, OverOnlyIfCrossed, Own
  <2>2. Copied' BY DEF Copied, Progress, Unlinked, Recorded, CopyIsWhole
  <2>3. EarlierEnded' /\ FromReplaced' /\ OldDoomed'
        BY DEF Shared, EarlierEnded, FromReplaced, OldDoomed, Replaced
  <2>4. AddsOwn' /\ SharesAreLatest'
        BY DEF Shared, AddsOwn, SharesAreLatest, Replaced, Alone, Has
  <2> QED BY <1>1, <2>1, <2>2, <2>3, <2>4 DEF Shared
<1> QED BY <1>2, <1>3, <1>4, <1>5, <1>6, <1>7 DEF Next

(* The inductive invariant: a create that nothing crossed has room, a copy *)
(* accounts for every problem it took, and a running replacement deletes   *)
(* every older share.                                                      *)
THEOREM SetsInvariant == Spec => []IInv
BY Initially, Preserved, PTL DEF Spec

(* Types, for any requests, problems and addresses.                        *)
THEOREM TypeCorrect == Spec => []TypeOK
BY SetsInvariant, PTL DEF IInv

(* The limit is passed only by creates that overlap (create_problem_set).  *)
THEOREM LimitPassedByOverlap == Spec => []OverOnlyIfCrossed
BY SetsInvariant, PTL DEF IInv, Counted

(* A recorded copy is whole (copy_problem_set).                            *)
THEOREM CopiesAreWhole == Spec => []CopyIsWhole
BY SetsInvariant, PTL DEF IInv, Copied

(* The sharing list is a register (replace_shares).                        *)
THEOREM SharesAreARegister == Spec => []SharesAreLatest
BY SetsInvariant, PTL DEF IInv, Shared

----------------------------------------------------------------------------
(* What the rows themselves look like, whoever overlaps: the unique index  *)
(* of an address, where a row comes from, and what a copy may hold.        *)

(* No address has two rows (problem_set_shares_email_idx).                 *)
SharesUnique == \A s, t \in shares : s.who = t.who => s = t

(* Every row was asked for, at the creation or by the list of its update.  *)
SharesAsked == \A row \in shares : row.by = Source \/ row.who \in list[row.by]

(* What a transaction will commit is not there yet, but for what it        *)
(* deletes itself, and two of them never add the same address.             *)
AddsMissing ==
    \A r \in Requests : pc[r] = "commit" =>
        \A row \in added[r], s \in shares : s.who = row.who => s \in doomed[r]

AddsApart ==
    \A q, r \in Requests : q # r /\ pc[q] = "commit" /\ pc[r] = "commit" =>
        \A a \in added[q], b \in added[r] : a.who # b.who

(* A copy, finished or not, holds nothing that Source did not hold when it *)
(* was read.                                                               *)
CopyIsPart == \A r \in Requests : links[r] \subseteq taken[r]

Rows == SharesUnique /\ SharesAsked /\ AddsMissing /\ AddsApart /\ CopyIsPart

LEMMA RowsInitially == Init => Rows
<1> SUFFICES ASSUME Init PROVE Rows OBVIOUS
<1>1. SharesUnique /\ SharesAsked BY DEF Init, SharesUnique, SharesAsked, ShareRow
<1>2. AddsMissing /\ AddsApart BY DEF Init, AddsMissing, AddsApart
<1>3. CopyIsPart BY RequestsAssumption DEF Init, CopyIsPart
<1> QED BY <1>1, <1>2, <1>3 DEF Rows

(* Steps that add no row and bring no transaction to its commit.           *)
LEMMA RowsFrame ==
    ASSUME IInv, Rows, shares' \subseteq shares, UNCHANGED <<doomed, added>>,
           \A q \in Requests : Replaced(q) => list'[q] = list[q],
           \A q \in Requests : pc'[q] = "commit" => pc[q] = "commit"
    PROVE  SharesUnique' /\ SharesAsked' /\ AddsMissing' /\ AddsApart'
<1> USE DEF IInv, Rows
<1>1. SharesUnique' BY DEF SharesUnique
<1>2. SharesAsked'
  <2> SUFFICES ASSUME NEW row \in shares, row.by # Source PROVE row.who \in list'[row.by]
      BY DEF SharesAsked
  <2>1. row.by \in Requests /\ Replaced(row.by) BY DEF Shared, FromReplaced, TypeOK, Share
  <2> QED BY <2>1 DEF SharesAsked
<1>3. AddsMissing' BY DEF AddsMissing
<1>4. AddsApart' BY DEF AddsApart
<1> QED BY <1>1, <1>2, <1>3, <1>4

(* The delete has no effect yet, and the insert skips what is there.       *)
LEMMA RunRows ==
    ASSUME IInv, TypeOK', Rows, NEW r \in Requests, DeleteStarts(r) \/ AddShares(r)
    PROVE  SharesUnique' /\ SharesAsked' /\ AddsMissing' /\ AddsApart'
<1> USE DEF IInv, Rows
<1>1. /\ UNCHANGED <<shares, list>> /\ pc[r] # "commit"
      /\ \A q \in Requests \ {r} : pc'[q] = pc[q] /\ doomed'[q] = doomed[q] /\ added'[q] = added[q]
      BY DEF DeleteStarts, AddShares, Goto, TypeOK
<1>2. SharesUnique' /\ SharesAsked' BY <1>1 DEF SharesUnique, SharesAsked
<1>3. CASE pc'[r] # "commit" BY <1>1, <1>2, <1>3 DEF AddsMissing, AddsApart
<1>4. CASE pc'[r] = "commit"
  <2>1. AddShares(r) BY <1>4 DEF DeleteStarts, Goto, TypeOK
  <2>2. /\ doomed' = doomed
        /\ added'[r] = {ShareRow(p, r) : p \in {p \in list[r] : ~Has(shares \ doomed[r], p)}}
        /\ \A q \in Requests \ {r}, p \in list[r] : pc[q] = "commit" => ~Has(added[q], p)
        BY <2>1 DEF AddShares, TypeOK
  <2>3. \A row \in added'[r] : row.who \in list[r] /\ ~Has(shares \ doomed[r], row.who)
        BY <2>2 DEF ShareRow
  <2>4. AddsMissing'
    <3> SUFFICES ASSUME NEW q \in Requests, pc'[q] = "commit",
                        NEW row \in added'[q], NEW s \in shares, s.who = row.who
                 PROVE  s \in doomed[q]
        BY <1>1, <2>2 DEF AddsMissing
    <3>1. CASE q = r BY <3>1, <2>3 DEF Has
    <3>2. CASE q # r BY <3>2, <1>1 DEF AddsMissing
    <3> QED BY <3>1, <3>2
  <2>5. \A q \in Requests \ {r}, a \in added'[r] :
            pc[q] = "commit" => \A b \in added[q] : a.who # b.who
        BY <2>2, <2>3 DEF Has
  <2>6. AddsApart' BY <1>1, <2>5 DEF AddsApart
  <2> QED BY <1>2, <2>4, <2>6
<1> QED BY <1>3, <1>4

(* A commit puts in what no other row and no other commit has.             *)
LEMMA CommitRows ==
    ASSUME IInv, Rows, NEW r \in Requests, Commit(r)
    PROVE  SharesUnique' /\ SharesAsked' /\ AddsMissing' /\ AddsApart'
<1> USE DEF IInv, Rows
<1>1. /\ pc[r] = "commit" /\ shares' = (shares \ doomed[r]) \cup added[r]
      /\ UNCHANGED <<list, doomed, added>>
      /\ \A q \in Requests : pc'[q] = "commit" => q # r /\ pc[q] = "commit"
      BY DEF Commit, Goto, TypeOK
<1>2. \A row \in added[r] : row.by = r /\ row.who \in list[r] BY <1>1 DEF Shared, AddsOwn
<1>3. SharesUnique'
  <2>1. ASSUME NEW s \in added[r], NEW t \in added[r], s.who = t.who PROVE s = t
        BY <2>1, <1>2 DEF TypeOK, Share
  <2>2. ASSUME NEW s \in shares \ doomed[r], NEW t \in added[r] PROVE s.who # t.who
        BY <2>2, <1>1 DEF AddsMissing
  <2> QED BY <1>1, <2>1, <2>2 DEF SharesUnique
<1>4. SharesAsked' BY <1>1, <1>2 DEF SharesAsked
<1>5. AddsMissing'
  <2> SUFFICES ASSUME NEW q \in Requests, q # r, pc[q] = "commit",
                      NEW row \in added[q], NEW s \in shares', s.who = row.who
               PROVE  s \in doomed[q]
      BY <1>1 DEF AddsMissing
  <2>1. s \notin added[r] BY <1>1 DEF AddsApart
  <2> QED BY <2>1, <1>1 DEF AddsMissing
<1>6. AddsApart' BY <1>1 DEF AddsApart
<1> QED BY <1>3, <1>4, <1>5, <1>6

LEMMA UpdateRows ==
    ASSUME IInv, TypeOK', Rows, NEW r \in Requests, Update(r)
    PROVE  SharesUnique' /\ SharesAsked' /\ AddsMissing' /\ AddsApart'
<1>1. CASE UpdateRow(r)
  <2>1. \A q \in Requests : Replaced(q) => list'[q] = list[q]
        BY <1>1 DEF UpdateRow, Goto, Replaced, IInv, TypeOK
  <2>2. \A q \in Requests : pc'[q] = "commit" => pc[q] = "commit"
        BY <1>1 DEF UpdateRow, Goto, IInv, TypeOK
  <2>3. UNCHANGED <<shares, doomed, added>> BY <1>1 DEF UpdateRow
  <2> QED BY <2>1, <2>2, <2>3, RowsFrame
<1>2. CASE DeleteEnds(r)
  <2>1. \A q \in Requests : pc'[q] = "commit" => pc[q] = "commit"
        BY <1>2 DEF DeleteEnds, Goto, IInv, TypeOK
  <2>2. UNCHANGED shareVars BY <1>2 DEF DeleteEnds
  <2> QED BY <2>1, <2>2, RowsFrame DEF shareVars
<1> QED BY <1>1, <1>2, RunRows, CommitRows DEF Update

(* What a copy links it has in its hand, and that it took.                 *)
LEMMA PartStays ==
    ASSUME IInv, Rows, [Next]_vars
    PROVE  CopyIsPart'
<1> SUFFICES ASSUME NEW q \in Requests PROVE links'[q] \subseteq taken'[q]
    BY DEF CopyIsPart
<1> USE DEF IInv, Rows, CopyIsPart, TypeOK
<1>1. ASSUME NEW r \in Requests, Copy(r) PROVE links'[q] \subseteq taken'[q]
  <2>1. CASE CopyList(r)
    <3>1. links[r] = {} BY <2>1 DEF CopyList, Goto, Copied, Unlinked
    <3> QED BY <2>1, <3>1 DEF CopyList, sourceVars
  <2>2. CASE CopyLink(r)
    <3>1. pc[r] = "link" BY <2>2 DEF CopyLink, Goto
    <3>2. r \in sets => hand[r] \subseteq taken[r] BY <3>1 DEF Copied, Progress
    <3> QED BY <2>2, <3>2 DEF CopyLink, copyVars
  <2>3. CASE ~CopyList(r) /\ ~CopyLink(r)
        BY <1>1, <2>3 DEF Copy, CopyRead, CopyInsert, CopyRow, CopyRecord, copyVars, sourceVars
  <2> QED BY <2>1, <2>2, <2>3
<1>2. CASE \E r \in Requests : Create(r) \/ Fail(r)
      BY <1>2 DEF Create, CheckLimit, InsertSet, Fail, sourceVars, copyVars
<1>3. CASE \E r \in Requests : Update(r)
      BY <1>3 DEF Update, UpdateRow, DeleteStarts, DeleteEnds, AddShares, Commit, sourceVars, copyVars
<1>4. CASE \E s \in sets : DeleteSet(s) BY <1>4 DEF DeleteSet, copyVars
<1>5. CASE \E p \in Problems : DeleteProblem(p) \/ AddProblem(p) \/ RemoveProblem(p)
      BY <1>5, RequestsAssumption DEF DeleteProblem, AddProblem, RemoveProblem, copyVars
<1>6. CASE UNCHANGED vars BY <1>6 DEF vars, copyVars, sourceVars
<1> QED BY <1>1, <1>2, <1>3, <1>4, <1>5, <1>6 DEF Next

LEMMA RowsStay == IInv /\ Rows /\ [Next]_vars => Rows'
<1> SUFFICES ASSUME IInv, Rows, [Next]_vars PROVE Rows' OBVIOUS
<1>1. CopyIsPart' BY PartStays
<1>2. TypeOK' BY StepTypeOK DEF IInv
<1>3. SharesUnique' /\ SharesAsked' /\ AddsMissing' /\ AddsApart'
  <2>1. CASE \E r \in Requests : Update(r) BY <2>1, <1>2, UpdateRows
  <2>2. CASE \E r \in Requests : Create(r) \/ Copy(r) \/ Fail(r)
    <3>1. UNCHANGED shareVars
          BY <2>2 DEF Create, CheckLimit, InsertSet, Copy, CopyRead, CopyInsert, CopyList,
                      CopyRow, CopyLink, CopyRecord, Fail
    <3>2. \A q \in Requests : pc'[q] = "commit" => pc[q] = "commit"
          BY <2>2 DEF Create, CheckLimit, InsertSet, Copy, CopyRead, CopyInsert, CopyList,
                      CopyRow, CopyLink, CopyRecord, Fail, Goto, IInv, TypeOK
    <3> QED BY <3>1, <3>2, RowsFrame DEF shareVars
  <2>3. CASE \/ \E s \in sets : DeleteSet(s)
             \/ \E p \in Problems : DeleteProblem(p) \/ AddProblem(p) \/ RemoveProblem(p)
    <3>1. shares' \subseteq shares /\ UNCHANGED <<doomed, added, list, pc>>
          BY <2>3 DEF DeleteSet, DeleteProblem, AddProblem, RemoveProblem, shareVars
    <3> QED BY <3>1, RowsFrame
  <2>4. CASE UNCHANGED vars BY <2>4, RowsFrame DEF vars, shareVars
  <2> QED BY <2>1, <2>2, <2>3, <2>4 DEF Next
<1> QED BY <1>1, <1>3 DEF Rows

(* Beside the invariant above, the rows are as they should be.              *)
THEOREM RowsInvariant == Spec => []Rows
<1>1. Spec => []IInv BY SetsInvariant
<1>2. Init => Rows BY RowsInitially
<1>3. IInv /\ Rows /\ [Next]_vars => Rows' BY RowsStay
<1> QED BY <1>1, <1>2, <1>3, PTL DEF Spec

(* Overlapping updates never give an address two rows: the waiting that    *)
(* the inserts and deletes of replace_shares do is enough for the unique   *)
(* index of the schema.                                                    *)
THEOREM AddressesAreUnique == Spec => []SharesUnique
BY RowsInvariant, PTL DEF Rows

(* Nobody is on the list whom no update has put there, however the updates *)
(* overlap (replace_shares).                                               *)
THEOREM SharesAreAsked == Spec => []SharesAsked
BY RowsInvariant, PTL DEF Rows

(* A copy cut short holds nothing but what it read (copy_problem_set).     *)
THEOREM CopiesAreParts == Spec => []CopyIsPart
BY RowsInvariant, PTL DEF Rows
=============================================================================
