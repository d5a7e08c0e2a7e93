---------------------------- MODULE ProblemSets ----------------------------
(***************************************************************************)
(* Problem sets (services/problem_sets.rs): the sharing list of one set,   *)
(* Source, edited by its owner, and the sets that another user creates     *)
(* within the content limit (services/content_limits.rs) or copies from    *)
(* it, while Source and its problems change and disappear.                 *)
(*                                                                         *)
(* Only replace_shares is a transaction. Creating counts the user's sets   *)
(* and inserts later; copying inserts the set, each problem and each link  *)
(* on its own and leaves what it has when it fails.                        *)
(***************************************************************************)
EXTENDS Naturals, FiniteSets

CONSTANTS Requests,  \* each is made once; it names the set or the list it makes
          Source,
          Problems,  \* of Source's owner
          People,    \* the addresses a set is shared with
          Limits     \* the limits an administrator may have set when one is read

ASSUME RequestsAssumption == IsFiniteSet(Requests) /\ Source \notin Requests
ASSUME LimitsAssumption   == Limits \subseteq Nat

VARIABLES sets,     \* problem_sets: Source and the other user's
          links,    \* problem_set_problems; a copied problem stands for its original
          alive,    \* the problems of Source's owner
          allow,    \* allow_copying of Source
          shares,   \* problem_set_shares of Source: to whom, by which list
          copies,   \* problem_set_copies
          pc,       \* where each request stands
          limit,    \* the limit a create has read
          todo,     \* the problems a copy has still to do
          hand,     \* the problem a copy has copied and not linked
          list,     \* the list an update will write
          doomed,   \* the shares its delete sees
          added,    \* the shares its transaction has inserted
          taken,    \* history: the problems a copy has read
          earlier,  \* history: the requests that had ended when it began
          crossed,  \* history: creates with another set inserted since their check
          over      \* history: creates that went above the limit they had read

copyVars   == <<copies, todo, hand, taken>>
createVars == <<limit, crossed, over>>
shareVars  == <<shares, list, doomed, added, earlier>>
sourceVars == <<links, alive, allow>>
vars == <<sets, sourceVars, copyVars, createVars, shareVars, pc>>

Share == [who : People, by : Requests \cup {Source}]

Ended == {"replaced", "done", "failed"}
PCs   == {"new", "insert", "copy", "list", "row", "link",
          "update", "lock", "add", "commit"} \cup Ended

TypeOK ==
    /\ sets \subseteq Requests \cup {Source}
    /\ links \in [Requests \cup {Source} -> SUBSET Problems]
    /\ alive \subseteq Problems /\ allow \in BOOLEAN
    /\ shares \subseteq Share
    /\ copies \subseteq Requests
    /\ pc \in [Requests -> PCs]
    /\ limit \in [Requests -> Nat]
    /\ todo \in [Requests -> SUBSET Problems] /\ hand \in [Requests -> SUBSET Problems]
    /\ list \in [Requests -> SUBSET People]
    /\ doomed \in [Requests -> SUBSET Share] /\ added \in [Requests -> SUBSET Share]
    /\ taken \in [Requests -> SUBSET Problems]
    /\ earlier \in [Requests -> SUBSET Requests]
    /\ crossed \subseteq Requests /\ over \subseteq Requests

Nothing == [r \in Requests |-> {}]

(* insert into problem_set_shares: the address, and the list it comes from. *)
BugShareRow(p, r) == [who |-> r, by |-> p]

ShareRow(p, r) == [who |-> p, by |-> r]

(* After Source was created and shared. *)
Init ==
    /\ sets = {Source}
    /\ \E S \in SUBSET Problems :
          links = [s \in Requests \cup {Source} |-> IF s = Source THEN S ELSE {}]
    /\ alive = Problems /\ allow \in BOOLEAN
    /\ \E L \in SUBSET People : shares = {ShareRow(p, Source) : p \in L}
    /\ copies = {}
    /\ pc = [r \in Requests |-> "new"]
    /\ limit = [r \in Requests |-> 0]
    /\ todo = Nothing /\ hand = Nothing /\ list = Nothing
    /\ doomed = Nothing /\ added = Nothing
    /\ taken = Nothing /\ earlier = Nothing
    /\ crossed = {} /\ over = {}

Own == sets \ {Source}

Goto(r, from, to) == pc[r] = from /\ pc' = [pc EXCEPT ![r] = to]

----------------------------------------------------------------------------
(* create_problem_set. What it links and shares at once is not followed.   *)

BugAllowed(count, max) == count <= max

Allowed(count, max) == count < max

CheckLimit(r) ==
    /\ \E max \in Limits :
          /\ limit' = [limit EXCEPT ![r] = max]
          /\ Goto(r, "new", IF Allowed(Cardinality(Own), max) THEN "insert" ELSE "done")
    /\ UNCHANGED <<sets, sourceVars, copyVars, crossed, over, shareVars>>

(* A new row of problem_sets. *)
NewSet(r) ==
    /\ sets' = sets \cup {r}
    /\ crossed' = crossed \cup {q \in Requests \ {r} : pc[q] = "insert"}

InsertSet(r) ==
    /\ Goto(r, "insert", "done")
    /\ NewSet(r)
    /\ over' = IF Cardinality(Own \cup {r}) > limit[r] THEN over \cup {r} ELSE over
    /\ UNCHANGED <<sourceVars, copyVars, limit, shareVars>>

----------------------------------------------------------------------------
(* copy_problem_set. *)

CopyRead(r) ==
    /\ Source \in sets /\ allow
    /\ Goto(r, "new", "copy")
    /\ UNCHANGED <<sets, sourceVars, copyVars, createVars, shareVars>>

(* No limit is asked. *)
CopyInsert(r) ==
    /\ Goto(r, "copy", "list")
    /\ NewSet(r)
    /\ UNCHANGED <<sourceVars, copyVars, limit, over, shareVars>>

(* problem_ids_for_set; Source may be gone by now. *)
CopyList(r) ==
    /\ Goto(r, "list", IF Source \in sets THEN "row" ELSE "failed")
    /\ todo'  = [todo  EXCEPT ![r] = links[Source]]
    /\ taken' = [taken EXCEPT ![r] = links[Source]]
    /\ UNCHANGED <<sets, sourceVars, copies, hand, createVars, shareVars>>

(* copy_problem_row: insert .. select .. returning id, one row expected.   *)
BugCopyRow(r) ==
    /\ \E p \in todo[r] :
          /\ todo' = [todo EXCEPT ![r] = todo[r] \ {p}]
          /\ hand' = [hand EXCEPT ![r] = {p} \cap alive]
    /\ Goto(r, "row", "link")
    /\ UNCHANGED <<sets, sourceVars, copies, taken, createVars, shareVars>>

CopyRow(r) ==
    /\ \E p \in todo[r] :
          /\ todo' = [todo EXCEPT ![r] = todo[r] \ {p}]
          /\ hand' = [hand EXCEPT ![r] = {p}]
          /\ Goto(r, "row", IF p \in alive THEN "link" ELSE "failed")
    /\ UNCHANGED <<sets, sourceVars, copies, taken, createVars, shareVars>>

(* insert_problem_set_links; the foreign key holds the set. *)
CopyLink(r) ==
    /\ Goto(r, "link", IF r \in sets THEN "row" ELSE "failed")
    /\ links' = IF r \in sets THEN [links EXCEPT ![r] = links[r] \cup hand[r]] ELSE links
    /\ UNCHANGED <<sets, alive, allow, copyVars, createVars, shareVars>>

(* record_copy; its foreign keys hold both sets. *)
CopyRecord(r) ==
    LET both == Source \in sets /\ r \in sets IN
    /\ todo[r] = {}
    /\ Goto(r, "row", IF both THEN "done" ELSE "failed")
    /\ copies' = IF both THEN copies \cup {r} ELSE copies
    /\ UNCHANGED <<sets, sourceVars, todo, hand, taken, createVars, shareVars>>

----------------------------------------------------------------------------
(* update_problem_set and replace_shares. *)

(* The row. Unless neither sharing_level nor shared_with_emails is in the  *)
(* body the shares are replaced, by nobody when no list came.              *)
BugUpdateRow(r) ==
    /\ Source \in sets
    /\ allow' \in BOOLEAN
    /\ \E replaces \in BOOLEAN, L \in SUBSET People :
          /\ replaces \/ L = {}
          /\ Goto(r, "new", IF replaces /\ L # {} THEN "update"
                            ELSE IF replaces THEN "replaced" ELSE "done")
          /\ list' = [list EXCEPT ![r] = L]
    /\ earlier' = [earlier EXCEPT ![r] = {q \in Requests : pc[q] \in Ended}]
    /\ UNCHANGED <<sets, links, alive, copyVars, createVars, shares, doomed, added>>

UpdateRow(r) ==
    /\ Source \in sets
    /\ allow' \in BOOLEAN
    /\ \E replaces \in BOOLEAN, L \in SUBSET People :
          /\ replaces \/ L = {}
          /\ Goto(r, "new", IF replaces THEN "update" ELSE "done")
          /\ list' = [list EXCEPT ![r] = L]
    /\ earlier' = [earlier EXCEPT ![r] = {q \in Requests : pc[q] \in Ended}]
    /\ UNCHANGED <<sets, links, alive, copyVars, createVars, shares, doomed, added>>

(* The delete sees what is committed as it starts, and waits for a         *)
(* transaction that is deleting any of it.                                 *)
DeleteStarts(r) ==
    /\ Goto(r, "update", "lock")
    /\ doomed' = [doomed EXCEPT ![r] = shares]
    /\ UNCHANGED <<sets, sourceVars, copyVars, createVars, shares, list, added, earlier>>

Deleting(r) == IF pc[r] \in {"add", "commit"} THEN doomed[r] \cap shares ELSE {}

DeleteEnds(r) ==
    /\ Goto(r, "lock", "add")
    /\ \A q \in Requests \ {r} : Deleting(q) \cap doomed[r] = {}
    /\ UNCHANGED <<sets, sourceVars, copyVars, createVars, shareVars>>

Has(rows, p) == \E row \in rows : row.who = p

(* on conflict do nothing: an address that is there stays as it is, one    *)
(* that another transaction is deleting or adding is waited for, and the   *)
(* foreign key holds the set.                                              *)
AddShares(r) ==
    LET kept == shares \ doomed[r] IN
    /\ Goto(r, "add", IF Source \in sets \/ list[r] = {} THEN "commit" ELSE "failed")
    /\ \A q \in Requests \ {r}, p \in list[r] :
          ~Has(Deleting(q), p) /\ (pc[q] = "commit" => ~Has(added[q], p))
    /\ added' = [added EXCEPT ![r] =
                    {ShareRow(p, r) : p \in {p \in list[r] : ~Has(kept, p)}}]
    /\ UNCHANGED <<sets, sourceVars, copyVars, createVars, shares, list, doomed, earlier>>

Commit(r) ==
    /\ Goto(r, "commit", "replaced")
    /\ shares' = (shares \ doomed[r]) \cup added[r]
    /\ UNCHANGED <<sets, sourceVars, copyVars, createVars, list, doomed, added, earlier>>

(* A database error, a deadlock that the database resolves, a crash: an    *)
(* open transaction is rolled back, everything else stays.                 *)
Fail(r) ==
    /\ pc[r] \notin Ended \cup {"new"}
    /\ pc' = [pc EXCEPT ![r] = "failed"]
    /\ UNCHANGED <<sets, sourceVars, copyVars, createVars, shareVars>>

----------------------------------------------------------------------------
(* Single statements of other requests, with their cascades. *)

(* delete_problem_set: Source waits for a transaction that deletes or has   *)
(* added shares of it.                                                     *)
DeleteSet(s) ==
    /\ s \in sets
    /\ s = Source => \A q \in Requests :
                        Deleting(q) = {} /\ (pc[q] = "commit" => added[q] = {})
    /\ sets' = sets \ {s}
    /\ links' = [links EXCEPT ![s] = {}]
    /\ shares' = IF s = Source THEN {} ELSE shares
    /\ UNCHANGED <<alive, allow, copyVars, createVars, list, doomed, added, earlier, pc>>

(* delete_problem *)
DeleteProblem(p) ==
    /\ p \in alive
    /\ alive' = alive \ {p}
    /\ links' = [links EXCEPT ![Source] = links[Source] \ {p}]
    /\ UNCHANGED <<sets, allow, copyVars, createVars, shareVars, pc>>

(* add_problems_to_set and remove_problems_from_set *)
AddProblem(p) ==
    /\ Source \in sets /\ p \in alive \ links[Source]
    /\ links' = [links EXCEPT ![Source] = links[Source] \cup {p}]
    /\ UNCHANGED <<sets, alive, allow, copyVars, createVars, shareVars, pc>>

RemoveProblem(p) ==
    /\ Source \in sets /\ p \in links[Source]
    /\ links' = [links EXCEPT ![Source] = links[Source] \ {p}]
    /\ UNCHANGED <<sets, alive, allow, copyVars, createVars, shareVars, pc>>

Create(r) == CheckLimit(r) \/ InsertSet(r)

Copy(r) ==
    \/ CopyRead(r) \/ CopyInsert(r) \/ CopyList(r)
    \/ CopyRow(r) \/ CopyLink(r) \/ CopyRecord(r)

Update(r) ==
    \/ UpdateRow(r) \/ DeleteStarts(r) \/ DeleteEnds(r)
    \/ AddShares(r) \/ Commit(r)

Next ==
    \/ \E r \in Requests : Create(r) \/ Copy(r) \/ Update(r) \/ Fail(r)
    \/ \E s \in sets : DeleteSet(s)
    \/ \E p \in Problems : DeleteProblem(p) \/ AddProblem(p) \/ RemoveProblem(p)

Spec == Init /\ [][Next]_vars

----------------------------------------------------------------------------
(* Properties. *)

(* The content limit is passed only by a create that another insert        *)
(* overtook between its count and its own insert (problem_sets.rs:123).    *)
(* Copies take part in the count but are never refused.                    *)
OverOnlyIfCrossed == over \subseteq crossed

(* A recorded copy is whole: whatever happened to Source and its problems  *)
(* meanwhile, it holds every problem that Source held when it was read     *)
(* (problem_sets.rs:419); a copy that could not be finished is not         *)
(* recorded.                                                               *)
CopyIsWhole ==
    \A r \in copies \cap sets : links[r] = taken[r]

(* The sharing list behaves as a register: no entry outlives an update     *)
(* that began after the entry's own update had ended, and an update that   *)
(* no other overlapped or followed leaves its own list (replace_shares).   *)
(* Updates that overlap may leave the union of their lists.                *)
Replaced(r) == pc[r] = "replaced"
Alone(r)    == \A q \in Requests \ {r} : Replaced(q) => q \in earlier[r]

SharesAreLatest ==
    \A r \in Requests : Replaced(r) =>
        /\ \A row \in shares : row.by \notin earlier[r] \cup {Source}
        /\ Alone(r) /\ Source \in sets => {row.who : row \in shares} = list[r]
=============================================================================
