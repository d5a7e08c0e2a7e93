--------------------------- MODULE AccountsProofs ---------------------------
(***************************************************************************)
(* Proofs, for any number of requests and passwords and any bound of the   *)
(* version, that a token is accepted only for the password in force, that  *)
(* the two rows of an account agree, and that the token version implements *)
(* sessions.                                                               *)
(***************************************************************************)
EXTENDS Accounts, TLAPS

----------------------------------------------------------------------------
(* What a token, or a read that is to become one, knows: it is not ahead   *)
(* of the row, and if it is level with it then the account is open and has *)
(* the token's password.                                                   *)
Fits(t) ==
    Exists => /\ t.version <= account.version
              /\ t.version = account.version => Open /\ t.password = account.password

TokensFit == \A t \in tokens : Fits(t)
ReadsFit  == \A r \in Requests : pc[r] \in {"login", "change", "issue"} => Fits(read[r])

(* A request that switches has a state to write.                           *)
SwitchesMean == \A r \in Requests : pc[r] \in {"switch", "flag"} => patch[r].state \in States

RowsTogether == Exists => profile.state # "none"

(* Without a race whoever is to write the profile's state has the one of   *)
(* the account, and without such a writer the profile has it.              *)
FlagsFollow ==
    Exists /\ "flag" \notin raced =>
        /\ \A r \in Requests : pc[r] = "flag" => patch[r].state = account.state
        /\ (\A r \in Requests : pc[r] # "flag") => profile.state = account.state

DeletionIsFinal ==
    ~Exists /\ "delete" \notin raced =>
        /\ profile.state = "none"
        /\ \A r \in Requests : pc[r] \notin {"insert", "promote"}

CrownIsSafe ==
    crowned /\ "role" \notin raced =>
        /\ Exists /\ IsSuperAdmin
        /\ \A r \in Requests : pc[r] \in Writing => patch[r].role \in {NoRole, "super_admin"}

TokenInv == TypeOK /\ TokensFit /\ ReadsFit
Rows     == SwitchesMean /\ RowsTogether /\ FlagsFollow /\ DeletionIsFinal /\ CrownIsSafe
IInv     == TokenInv /\ Rows

----------------------------------------------------------------------------
LEMMA InitTypeOK == Init => TypeOK
BY RolesAssumption, StateAssumption DEF Init, TypeOK, Token, Patch, NoPatch, States, PCs, Row, ProfileRow

LEMMA StepTypeOK == TypeOK /\ SwitchesMean /\ [Next]_vars => TypeOK'
<1> SUFFICES ASSUME TypeOK, SwitchesMean, [Next]_vars PROVE TypeOK'
  OBVIOUS
<1> USE RolesAssumption DEF TypeOK, Token, Patch, NoPatch, States, PCs, Writing, dbVars, history, Goto, Ends, Row, ProfileRow
<1>0. Current \in Token
  BY DEF Current
<1>1. ASSUME NEW r \in Requests, LoginRead(r) \/ ChangeRead(r) PROVE TypeOK'
  <2>1. read' \in [Requests -> Token] /\ pc' \in [Requests -> PCs]
    <3>1. read' = [read EXCEPT ![r] = Current] /\ pc' \in [Requests -> PCs]
      BY <1>1 DEF LoginRead, ChangeRead
    <3>2. QED
      BY <1>0, <3>1
  <2>2. UNCHANGED <<account, profile, tokens, patch, raced, crowned>>
    BY <1>1 DEF LoginRead, ChangeRead
  <2>3. QED
    BY <2>1, <2>2
<1>2. ASSUME NEW r \in Requests, NEW to \in {"auth", "insert"}, Authenticate(r, to) PROVE TypeOK'
  BY <1>2 DEF Authenticate
<1>3. ASSUME NEW r \in Requests, LoginIssue(r) \/ ChangeIssue(r) PROVE TypeOK'
  <2>1. tokens' \in SUBSET Token /\ pc' \in [Requests -> PCs]
    BY <1>3 DEF LoginIssue, ChangeIssue
  <2>2. UNCHANGED <<account, profile, read, patch, raced, crowned>>
    BY <1>3 DEF LoginIssue, ChangeIssue
  <2>3. QED
    BY <2>1, <2>2
<1>4. ASSUME NEW r \in Requests, ChangeUpdate(r) PROVE TypeOK'
  BY <1>4 DEF ChangeUpdate, NewPassword
<1>5. ASSUME NEW r \in Requests, CheckRole(r) PROVE TypeOK'
  BY <1>5 DEF CheckRole
<1>6. ASSUME NEW r \in Requests, InsertProfile(r) PROVE TypeOK'
  BY <1>6 DEF InsertProfile
<1>7. ASSUME NEW r \in Requests, SetRole(r) PROVE TypeOK'
  <2>1. profile' \in [state : States \cup {"none"}, role : Roles]
    BY <1>7 DEF SetRole
  <2>2. UNCHANGED history \/ Crown(r)
    BY <1>7 DEF SetRole
  <2>4. crowned' \in BOOLEAN
    BY <2>2 DEF Crown
  <2>5. raced' \in SUBSET {"flag", "delete", "role"}
    BY <2>2 DEF Crown, Race
  <2>3. QED
    BY <1>7, <2>1, <2>4, <2>5 DEF SetRole
<1>8. ASSUME NEW r \in Requests, Switch(r) PROVE TypeOK'
  <2>1. pc[r] = "switch"
    BY <1>8 DEF Switch
  <2>2. patch[r].state \in States
    BY <2>1 DEF SwitchesMean
  <2>3. account' \in [state : States \cup {"none"}, version : Nat, password : Passwords]
    <3>1. UNCHANGED account
          \/ \E d \in {0, 1} : account' = Row(patch[r].state, account.version + d, account.password)
      BY <1>8 DEF Switch
    <3>2. QED
      BY <2>2, <3>1
  <2>4. raced' \in SUBSET {"flag", "delete", "role"}
    BY <1>8 DEF Switch, Race
  <2>5. pc' \in [Requests -> PCs]
    BY <1>8 DEF Switch
  <2>6. QED
    BY <1>8, <2>3, <2>4, <2>5 DEF Switch
<1>9. ASSUME NEW r \in Requests, Toggle(r) PROVE TypeOK'
  BY <1>9 DEF Toggle, Race, Opposite
<1>10. ASSUME NEW r \in Requests, WriteFlag(r) PROVE TypeOK'
  BY <1>10 DEF WriteFlag, SwitchesMean
<1>11. ASSUME Delete PROVE TypeOK'
  BY <1>11 DEF Delete, Race
<1>12. ASSUME NEW r \in Requests, NEW s \in BOOLEAN, NEW to \in {"promote", "reset"}, Find(r, s, to)
       PROVE  TypeOK'
  BY <1>12 DEF Find
<1>13. ASSUME NEW r \in Requests, Promote(r) PROVE TypeOK'
  <2>1. crowned' \in BOOLEAN /\ raced' \in SUBSET {"flag", "delete", "role"}
    BY <1>13 DEF Promote, Crown, Race
  <2>2. QED
    BY <1>13, <2>1 DEF Promote
<1>14. ASSUME NEW r \in Requests, Reset(r) PROVE TypeOK'
  BY <1>14 DEF Reset, NewPassword
<1>15. ASSUME NEW r \in Requests, Fail(r) PROVE TypeOK'
  BY <1>15 DEF Fail, Race
<1>16. CASE UNCHANGED vars
  BY <1>16 DEF vars
<1>17. QED
  BY <1>1, <1>2, <1>3, <1>4, <1>5, <1>6, <1>7, <1>8, <1>9, <1>10, <1>11, <1>12, <1>13, <1>14,
     <1>15, <1>16 DEF Next, Owner, Administrator, CommandLine

(* The account's row stands still, gets a new version, or goes.            *)
Moves ==
    Exists' => /\ Exists
               /\ \/ account'.version = account.version + 1
                  \/ /\ account'.version = account.version
                     /\ account'.state = account.state
                     /\ account'.password = account.password

LEMMA AccountMoves == TypeOK /\ SwitchesMean /\ [Next]_vars => Moves
<1> SUFFICES ASSUME TypeOK, SwitchesMean, [Next]_vars PROVE Moves
  OBVIOUS
<1> USE DEF TypeOK, Token, Exists, Row, dbVars, Goto, Ends
<1>1. ASSUME account' = account PROVE Moves
  BY <1>1 DEF Moves
<1>2. ASSUME NEW r \in Requests, ChangeUpdate(r) \/ Reset(r) PROVE Moves
  <2>1. PICK p \in Passwords : NewPassword(p)
    BY <1>2 DEF ChangeUpdate, Reset
  <2>2. QED
    BY <2>1 DEF NewPassword, Moves
<1>3. ASSUME NEW r \in Requests, Switch(r) PROVE Moves
  <2>1. CASE ~(Exists /\ ~IsSuperAdmin)
    BY <2>1, <1>1, <1>3 DEF Switch
  <2>2. CASE Exists /\ account.state # patch[r].state
    <3>1. account' = account \/ account' = Row(patch[r].state, account.version + 1, account.password)
      BY <2>2, <1>3 DEF Switch
    <3>2. QED
      BY <2>2, <3>1, <1>1 DEF Moves
  <2>3. CASE Exists /\ account.state = patch[r].state
    <3>1. account' = account \/ account' = Row(patch[r].state, account.version + 0, account.password)
      BY <2>3, <1>3 DEF Switch
    <3>2. QED
      BY <2>3, <3>1, <1>1 DEF Moves
  <2>4. QED
    BY <2>1, <2>2, <2>3
<1>4. ASSUME NEW r \in Requests, Toggle(r) PROVE Moves
  BY <1>4 DEF Toggle, Moves
<1>5. ASSUME Delete PROVE Moves
  BY <1>5 DEF Delete, Moves
<1>6. ASSUME NEW r \in Requests,
             \/ LoginRead(r) \/ LoginIssue(r) \/ ChangeRead(r) \/ ChangeIssue(r)
             \/ Authenticate(r, "auth") \/ Authenticate(r, "insert")
      PROVE  Moves
  BY <1>1, <1>6 DEF LoginRead, LoginIssue, ChangeRead, ChangeIssue, Authenticate
<1>7. ASSUME NEW r \in Requests,
             \/ CheckRole(r) \/ InsertProfile(r) \/ SetRole(r) \/ WriteFlag(r) \/ Promote(r) \/ Fail(r)
             \/ Find(r, FALSE, "promote") \/ Find(r, TRUE, "reset")
      PROVE  Moves
  BY <1>1, <1>7 DEF CheckRole, InsertProfile, SetRole, WriteFlag, Promote, Fail, Find
<1>8. CASE UNCHANGED vars
  BY <1>1, <1>8 DEF vars
<1>9. QED
  BY <1>2, <1>3, <1>4, <1>5, <1>6, <1>7, <1>8 DEF Next, Owner, Administrator, CommandLine

(* A token comes from a request that has read, and a request's read from   *)
(* the row as it is, or from its own update.                               *)
Knowing == {"login", "change", "issue"}

Known ==
    /\ \A t \in tokens' : t \in tokens \/ \E r \in Requests : pc[r] \in Knowing /\ t = read[r]
    /\ \A r \in Requests : pc'[r] \in Knowing =>
          \/ pc[r] \in Knowing /\ read'[r] = read[r]
          \/ Open /\ account' = account /\ read'[r] = Current
          \/ ChangeUpdate(r)

LEMMA KnownOrigin == TypeOK /\ [Next]_vars => Known
<1> SUFFICES ASSUME TypeOK, [Next]_vars PROVE Known
  OBVIOUS
<1> USE DEF TypeOK, dbVars, Goto, Ends, Knowing, Writing
<1>1. ASSUME NEW r \in Requests, LoginRead(r) \/ ChangeRead(r) PROVE Known
  BY <1>1 DEF LoginRead, ChangeRead, Known
<1>2. ASSUME NEW r \in Requests, LoginIssue(r) \/ ChangeIssue(r) PROVE Known
  BY <1>2 DEF LoginIssue, ChangeIssue, Known
<1>3. ASSUME NEW r \in Requests, ChangeUpdate(r) PROVE Known
  <2>1. \A q \in Requests : q = r \/ (pc'[q] = pc[q] /\ read'[q] = read[q])
    BY <1>3 DEF ChangeUpdate
  <2>2. tokens' = tokens
    BY <1>3 DEF ChangeUpdate
  <2>3. QED
    BY <1>3, <2>1, <2>2 DEF Known
<1>4. ASSUME NEW r \in Requests,
             \/ Authenticate(r, "auth") \/ Authenticate(r, "insert")
             \/ Find(r, FALSE, "promote") \/ Find(r, TRUE, "reset")
      PROVE  Known
  BY <1>4 DEF Authenticate, Find, Known
<1>5. ASSUME NEW r \in Requests, CheckRole(r) PROVE Known
  <2>1. UNCHANGED <<tokens, read>> /\ \E to \in {"insert", "switch"} : Goto(r, "idle", to)
    BY <1>5 DEF CheckRole
  <2>2. QED
    BY <2>1 DEF Known
<1>6. ASSUME NEW r \in Requests, InsertProfile(r) \/ WriteFlag(r) \/ Promote(r) \/ Reset(r) \/ Fail(r)
      PROVE  Known
  BY <1>6 DEF InsertProfile, WriteFlag, Promote, Reset, Fail, Known
<1>7. ASSUME NEW r \in Requests, SetRole(r) \/ Switch(r) \/ Toggle(r) PROVE Known
  <2>1. UNCHANGED <<tokens, read>>
    BY <1>7 DEF SetRole, Switch, Toggle
  <2>2. \E to \in {"idle", "switch", "flag"} : pc' = [pc EXCEPT ![r] = to]
    BY <1>7 DEF SetRole, Switch, Toggle
  <2>3. QED
    BY <2>1, <2>2 DEF Known
<1>8. ASSUME Delete PROVE Known
  BY <1>8 DEF Delete, Known
<1>9. CASE UNCHANGED vars
  BY <1>9 DEF vars, Known
<1>10. QED
  BY <1>1, <1>2, <1>3, <1>4, <1>5, <1>6, <1>7, <1>8, <1>9 DEF Next, Owner, Administrator, CommandLine

LEMMA TokenStep == TypeOK /\ SwitchesMean /\ TokensFit /\ ReadsFit /\ [Next]_vars => TokensFit' /\ ReadsFit'
<1> SUFFICES ASSUME TypeOK, SwitchesMean, TokensFit, ReadsFit, [Next]_vars
             PROVE  TokensFit' /\ ReadsFit'
  OBVIOUS
<1>1. Moves /\ Known
  BY AccountMoves, KnownOrigin
<1>2. TypeOK'
  BY StepTypeOK
<1>3. ASSUME NEW t \in Token, Fits(t) PROVE Fits(t)'
  BY <1>1, <1>2, <1>3 DEF Fits, Moves, TypeOK, Token, Open, Exists
<1>4. TokensFit'
  <2> SUFFICES ASSUME NEW t \in tokens' PROVE Fits(t)'
    BY DEF TokensFit
  <2>1. CASE t \in tokens
    BY <2>1, <1>3 DEF TokensFit, TypeOK
  <2>2. CASE \E r \in Requests : pc[r] \in Knowing /\ t = read[r]
    <3>1. PICK r \in Requests : pc[r] \in Knowing /\ t = read[r]
      BY <2>2
    <3>2. t \in Token /\ Fits(t)
      BY <3>1 DEF ReadsFit, Knowing, TypeOK
    <3>3. QED
      BY <3>2, <1>3
  <2>3. QED
    BY <2>1, <2>2, <1>1 DEF Known
<1>5. ReadsFit'
  <2> SUFFICES ASSUME NEW r \in Requests, pc'[r] \in Knowing PROVE Fits(read[r])'
    BY DEF ReadsFit, Knowing
  <2>1. CASE pc[r] \in Knowing /\ read'[r] = read[r]
    <3>1. read[r] \in Token /\ Fits(read[r])
      BY <2>1 DEF ReadsFit, Knowing, TypeOK
    <3>2. PICK t \in Token : t = read[r]
      BY <3>1
    <3>3. Fits(t)'
      BY <3>1, <3>2, <1>3 DEF Fits
    <3>4. QED
      BY <2>1, <3>2, <3>3 DEF Fits
  <2>2. CASE Open /\ account' = account /\ read'[r] = Current
    BY <2>2 DEF Fits, Current, TypeOK, Open
  <2>3. CASE ChangeUpdate(r)
    <3>1. pc[r] \in Knowing /\ Fits(read[r])
      BY <2>3 DEF ChangeUpdate, Goto, ReadsFit, Knowing
    <3>2. PICK p \in Passwords : /\ NewPassword(p)
                                 /\ read'[r] = [version |-> read[r].version + 1, password |-> p]
      BY <2>3 DEF ChangeUpdate, TypeOK
    <3>3. CASE ~Exists
      BY <3>2, <3>3 DEF NewPassword, Fits, Exists
    <3>4. CASE Exists
      BY <3>1, <3>2, <3>4 DEF NewPassword, Fits, Exists, Open, Row, TypeOK, Token
    <3>5. QED
      BY <3>3, <3>4
  <2>4. QED
    BY <2>1, <2>2, <2>3, <1>1 DEF Known
<1>6. QED
  BY <1>4, <1>5

LEMMA RowStep == TypeOK /\ Rows /\ [Next]_vars => Rows'
<1> SUFFICES ASSUME TypeOK, Rows, [Next]_vars PROVE Rows'
  OBVIOUS
<1>0. TypeOK'
  BY StepTypeOK DEF Rows
<1> USE RolesAssumption, StateAssumption DEF TypeOK, Patch, Rows, SwitchesMean, RowsTogether, FlagsFollow,
      DeletionIsFinal, CrownIsSafe, Exists, Open, IsSuperAdmin, RoleOf, States, Writing, dbVars, history,
      Goto, Ends
<1>1. ASSUME NEW r \in Requests, NEW to \in PCs \ {"switch", "flag", "insert", "setRole", "promote"},
             pc[r] # "flag", pc' = [pc EXCEPT ![r] = to],
             \A q \in Requests : q # r => patch'[q] = patch[q],
             account'.state = account.state, UNCHANGED <<profile, raced, crowned>>
      PROVE  Rows'
  BY <1>1
<1>2. ASSUME NEW r \in Requests, LoginRead(r) \/ LoginIssue(r) \/ ChangeRead(r) \/ ChangeIssue(r)
      PROVE  Rows'
  BY <1>2, <1>1 DEF LoginRead, LoginIssue, ChangeRead, ChangeIssue, PCs
<1>3. ASSUME NEW r \in Requests, Authenticate(r, "auth") PROVE Rows'
  BY <1>3, <1>1 DEF Authenticate, PCs
<1>4. ASSUME NEW r \in Requests, ChangeUpdate(r) \/ Reset(r) PROVE Rows'
  <2>1. PICK p \in Passwords : NewPassword(p)
    BY <1>4 DEF ChangeUpdate, Reset
  <2>2. account'.state = account.state
    BY <2>1 DEF NewPassword, Row
  <2>3. QED
    BY <1>4, <1>1, <2>2 DEF ChangeUpdate, Reset, PCs
<1>5. ASSUME NEW r \in Requests, Authenticate(r, "insert") PROVE Rows'
  BY <1>5 DEF Authenticate, Accepts, NoPatch
<1>6. ASSUME NEW r \in Requests, CheckRole(r) PROVE Rows'
  BY <1>6 DEF CheckRole, NoPatch
<1>7. ASSUME NEW r \in Requests, InsertProfile(r) PROVE Rows'
  BY <1>7 DEF InsertProfile, ProfileRow
<1>8. ASSUME NEW r \in Requests, SetRole(r) PROVE Rows'
  BY <1>8 DEF SetRole, Crown, Race, InFlight, ProfileRow
<1>9. ASSUME NEW r \in Requests, Switch(r) PROVE Rows'
  BY <1>9 DEF Switch, Race, InFlight, Row
<1>10. ASSUME NEW r \in Requests, Toggle(r) PROVE Rows'
  BY <1>10 DEF Toggle, Race, InFlight, Row, Opposite
<1>11. ASSUME NEW r \in Requests, WriteFlag(r) PROVE Rows'
  BY <1>11 DEF WriteFlag, ProfileRow
<1>12. ASSUME Delete PROVE Rows'
  BY <1>12 DEF Delete, Race, InFlight, Row, ProfileRow
<1>13. ASSUME NEW r \in Requests, Find(r, FALSE, "promote") \/ Find(r, TRUE, "reset") PROVE Rows'
  BY <1>13 DEF Find
<1>14. ASSUME NEW r \in Requests, Promote(r) PROVE Rows'
  BY <1>14 DEF Promote, Crown, Race, InFlight, ProfileRow
<1>15. ASSUME NEW r \in Requests, Fail(r) PROVE Rows'
  BY <1>15 DEF Fail, Race
<1>16. CASE UNCHANGED vars
  BY <1>16 DEF vars
<1>17. QED
  BY <1>2, <1>3, <1>4, <1>5, <1>6, <1>7, <1>8, <1>9, <1>10, <1>11, <1>12, <1>13, <1>14, <1>15, <1>16
     DEF Next, Owner, Administrator, CommandLine

----------------------------------------------------------------------------
LEMMA Initially == Init => IInv
<1> SUFFICES ASSUME Init PROVE IInv
  OBVIOUS
<1>1. TypeOK
  BY InitTypeOK
<1>2. Exists /\ profile.state = "active" /\ account.state = "active" /\ profile.role \in {"user", "super_admin"}
  BY DEF Init, Exists, Row, ProfileRow
<1>3. TokensFit /\ ReadsFit
  BY DEF Init, TokensFit, ReadsFit, Fits, Exists, Open, Row
<1>4. SwitchesMean /\ RowsTogether /\ FlagsFollow /\ DeletionIsFinal
  BY <1>2 DEF Init, SwitchesMean, RowsTogether, FlagsFollow, DeletionIsFinal
<1>5. CrownIsSafe
  <2>1. crowned => profile.role = "super_admin"
    <3>1. PICK role \in {"user", "super_admin"} :
             profile = ProfileRow("active", role) /\ crowned = (role = "super_admin")
      BY DEF Init
    <3>2. QED
      BY <3>1 DEF ProfileRow
  <2>2. QED
    BY <1>2, <2>1 DEF Init, CrownIsSafe, IsSuperAdmin, RoleOf, Writing
<1>6. QED
  BY <1>1, <1>3, <1>4, <1>5 DEF IInv, TokenInv, Rows

LEMMA Preserved == IInv /\ [Next]_vars => IInv'
BY StepTypeOK, TokenStep, RowStep DEF IInv, TokenInv, Rows

LEMMA AccountInvariant == Spec => []IInv
BY Initially, Preserved, PTL DEF Spec

(* The rows, requests and tokens have their types. *)
THEOREM TypeCorrect == Spec => []TypeOK
BY AccountInvariant, PTL DEF IInv, TokenInv

(* A token is accepted only under the password it was issued for. *)
THEOREM TokensDieWithPassword == Spec => []LiveTokenIsCurrent
<1>1. IInv => LiveTokenIsCurrent
  BY DEF IInv, TokenInv, TokensFit, Fits, LiveTokenIsCurrent, Accepts, Exists, Open
<1>2. QED
  BY <1>1, AccountInvariant, PTL

(* The version alone locks a disabled account out. *)
THEOREM DisabledIsLockedOut == Spec => []DisabledHasNoToken
<1>1. IInv => DisabledHasNoToken
  BY DEF IInv, TokenInv, TokensFit, Fits, DisabledHasNoToken, Exists, Open
<1>2. QED
  BY <1>1, AccountInvariant, PTL

(* The two rows of an account agree when no switch is half done. *)
THEOREM RowsAgree == Spec => []FlagsAgree
<1>1. IInv => FlagsAgree
  BY DEF IInv, Rows, FlagsFollow, FlagsAgree, InFlight
<1>2. QED
  BY <1>1, AccountInvariant, PTL

(* A deletion leaves no profile behind, but for an insert it overtook. *)
THEOREM DeletionTakesBoth == Spec => []NoOrphan
<1>1. IInv => NoOrphan
  BY DEF IInv, Rows, DeletionIsFinal, NoOrphan
<1>2. QED
  BY <1>1, AccountInvariant, PTL

(* A super_admin remains one, but for a role change that overtook. *)
THEOREM SuperAdminsRemain == Spec => []SuperAdminLasts
<1>1. IInv => SuperAdminLasts
  BY DEF IInv, Rows, CrownIsSafe, SuperAdminLasts
<1>2. QED
  BY <1>1, AccountInvariant, PTL

----------------------------------------------------------------------------
(* The account's row and its tokens implement sessions: a new version, or  *)
(* the row's end, revokes all; a token that fits begins one.               *)
Live == {t \in tokens : Accepts(t)}

LEMMA TokensGrow == ASSUME TypeOK, [Next]_vars
                    PROVE  \/ tokens' = tokens
                           \/ account' = account /\ \E r \in Requests :
                                 pc[r] \in Knowing /\ tokens' = tokens \cup {read[r]}
<1> USE DEF Goto, Ends, dbVars, Knowing
<1>1. ASSUME NEW r \in Requests, LoginIssue(r) \/ ChangeIssue(r)
      PROVE  account' = account /\ pc[r] \in Knowing /\ tokens' = tokens \cup {read[r]}
  BY <1>1 DEF LoginIssue, ChangeIssue
<1>2. ASSUME NEW r \in Requests,
             \/ LoginRead(r) \/ ChangeRead(r) \/ ChangeUpdate(r)
             \/ Authenticate(r, "auth") \/ Authenticate(r, "insert")
      PROVE  tokens' = tokens
  BY <1>2 DEF LoginRead, ChangeRead, ChangeUpdate, Authenticate
<1>3. ASSUME NEW r \in Requests,
             \/ CheckRole(r) \/ InsertProfile(r) \/ SetRole(r) \/ Switch(r) \/ Toggle(r) \/ WriteFlag(r)
      PROVE  tokens' = tokens
  BY <1>3 DEF CheckRole, InsertProfile, SetRole, Switch, Toggle, WriteFlag
<1>4. ASSUME NEW r \in Requests,
             \/ Promote(r) \/ Reset(r) \/ Fail(r)
             \/ Find(r, FALSE, "promote") \/ Find(r, TRUE, "reset")
      PROVE  tokens' = tokens
  BY <1>4 DEF Promote, Reset, Fail, Find
<1>5. ASSUME Delete \/ UNCHANGED vars PROVE tokens' = tokens
  BY <1>5 DEF Delete, vars
<1>6. QED
  BY <1>1, <1>2, <1>3, <1>4, <1>5 DEF Next, Owner, Administrator, CommandLine

(* The row and its tokens implement sessions that begin singly, while the  *)
(* account is open, and end together (login, authenticate_token).          *)
THEOREM Implementation == Spec => ImplementsSessions
<1>1. Init => Service!Init
  BY DEF Init, Service!Init, Open, Row
<1>2. IInv /\ [Next]_vars => [Service!Next]_Service!vars
  <2> SUFFICES ASSUME IInv, [Next]_vars PROVE Service!Next \/ UNCHANGED <<Open, Live>>
    BY DEF Service!vars, Live
  <2>1. TypeOK /\ Moves
    BY AccountMoves DEF IInv, TokenInv, Rows
  <2>2. CASE tokens' = tokens /\ Exists' /\ account'.version = account.version + 1
    <3>1. \A t \in tokens : t.version <= account.version /\ t.version \in Nat
      BY <2>1, <2>2 DEF IInv, TokenInv, TokensFit, Fits, TypeOK, Token, Moves
    <3>2. Live' = {}
      BY <2>1, <2>2, <3>1 DEF Live, Accepts, TypeOK
    <3>3. QED
      BY <3>2 DEF Service!Next, Service!Revoke, Live, Open
  <2>3. CASE tokens' = tokens /\ ~Exists'
    <3>1. Live' = {}
      BY <2>3 DEF Live, Accepts, Open, Exists
    <3>2. QED
      BY <3>1 DEF Service!Next, Service!Revoke, Live, Open
  <2>4. CASE /\ tokens' = tokens
             /\ account'.version = account.version /\ account'.state = account.state
    BY <2>4 DEF Live, Accepts, Open
  <2>5. CASE account' = account /\ \E r \in Requests :
                pc[r] \in Knowing /\ tokens' = tokens \cup {read[r]}
    <3>1. PICK r \in Requests : tokens' = tokens \cup {read[r]}
      BY <2>5
    <3>2. CASE Accepts(read[r])
      <4>1. Live' = Live \cup {read[r]} /\ Open /\ UNCHANGED Open
        BY <2>5, <3>1, <3>2 DEF Live, Accepts, Open
      <4>2. QED
        BY <4>1 DEF Service!Next, Service!Begin, Live
    <3>3. CASE ~Accepts(read[r])
      BY <2>5, <3>1, <3>3 DEF Live, Accepts, Open
    <3>4. QED
      BY <3>2, <3>3
  <2>6. QED
    BY <2>1, <2>2, <2>3, <2>4, <2>5, TokensGrow DEF Moves
<1>3. QED
  BY <1>1, <1>2, AccountInvariant, PTL DEF Spec, ImplementsSessions, Service!Spec

----------------------------------------------------------------------------
(* What a step may never do to the sessions. *)

(* Whatever writes a new password or switches the account raises the       *)
(* version with it, nothing lowers it, and a deleted account stays gone.   *)
ChangesRaiseVersion ==
    Exists' =>
        /\ Exists /\ account'.version >= account.version
        /\ (account'.password # account.password \/ account'.state # account.state)
               => account'.version > account.version

(* A token that is refused is refused for ever: neither the return of a    *)
(* disabled account nor an old password that is set again revives it.      *)
NoneRevived == \A t \in tokens : ~Accepts(t) => ~Accepts(t)'

(* Sessions end only all at once, and one begins only while the account is *)
(* open: what Sessions promises of open and live.                          *)
EndTogether ==
    \/ Live \subseteq Live' /\ (Live' # Live => Open')
    \/ Live' = {}

(* Every statement that must end the account's sessions raises the version *)
(* (routes/auth.rs:196, services/accounts.rs:93 and 138, cli.rs:136).       *)
THEOREM VersionTellsChanges == Spec => [][ChangesRaiseVersion]_vars
<1>1. IInv /\ [Next]_vars => [ChangesRaiseVersion]_vars
  <2> SUFFICES ASSUME IInv, [Next]_vars PROVE ChangesRaiseVersion
    OBVIOUS
  <2>1. Moves /\ account.version \in Nat
    BY AccountMoves DEF IInv, TokenInv, Rows, TypeOK
  <2>2. QED
    BY <2>1 DEF Moves, ChangesRaiseVersion
<1>2. QED
  BY <1>1, AccountInvariant, PTL DEF Spec

(* No token comes back to life. *)
THEOREM RefusedForEver == Spec => [][NoneRevived]_vars
<1>1. IInv /\ IInv' /\ [Next]_vars => [NoneRevived]_vars
  <2> SUFFICES ASSUME IInv, IInv', [Next]_vars, NEW t \in tokens, ~Accepts(t), Accepts(t)'
               PROVE  FALSE
    BY DEF NoneRevived
  <2>1. Moves /\ account.version \in Nat /\ t.version \in Nat /\ Fits(t)
    BY AccountMoves DEF IInv, TokenInv, Rows, TypeOK, Token, TokensFit
  <2>2. Exists' /\ Exists /\ t.version = account'.version
    BY <2>1 DEF Accepts, Open, Exists, Moves
  <2>3. t.version < account.version
    BY <2>1, <2>2 DEF Fits, Accepts
  <2>4. account'.version >= account.version
    BY <2>1, <2>2 DEF Moves
  <2>5. QED
    BY <2>1, <2>2, <2>3, <2>4
<1>2. QED
  BY <1>1, AccountInvariant, PTL DEF Spec

LEMMA ServiceEndsTogether ==
    ASSUME [Service!Next]_Service!vars PROVE EndTogether
<1>1. CASE Service!Begin
  BY <1>1 DEF Service!Begin, EndTogether, Live
<1>2. CASE Service!Revoke
  BY <1>2 DEF Service!Revoke, EndTogether, Live
<1>3. CASE UNCHANGED Service!vars
  BY <1>3 DEF Service!vars, EndTogether, Live
<1>4. QED
  BY <1>1, <1>2, <1>3 DEF Service!Next

(* Carried over from Sessions by the refinement: an account's sessions     *)
(* never end one by one.                                                   *)
THEOREM SessionsEndTogether == Spec => [][EndTogether]_vars
<1>1. [Service!Next]_Service!vars => [EndTogether]_vars
  BY ServiceEndsTogether
<1>2. ImplementsSessions => [][EndTogether]_vars
  BY <1>1, PTL DEF ImplementsSessions, Service!Spec
<1>3. QED
  BY <1>2, Implementation, PTL
=============================================================================
