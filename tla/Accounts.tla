----------------------------- MODULE Accounts -----------------------------
(***************************************************************************)
(* One account: its row of app_users (password, token_version,             *)
(* disabled_at) and its row of user_profiles (role, is_active), under      *)
(* concurrent logins and password changes of its owner (routes/auth.rs,    *)
(* auth.rs), administrators (services/admin.rs, services/accounts.rs) and  *)
(* the command line (cli.rs).                                              *)
(*                                                                         *)
(* A token carries the version its handler read and is accepted while the  *)
(* row has that version. There is no foreign key between the two rows, and *)
(* apart from sign-up and deletion each statement commits by itself.       *)
(***************************************************************************)
EXTENDS Naturals

CONSTANTS Requests,    \* slots for requests in flight, used again and again
          Passwords,
          Roles,       \* the roles of user_profiles
          NoRole,      \* a patch without user_role
          NoState,     \* a patch without is_active
          MaxVersion   \* bound: the last token version

ASSUME RolesAssumption   == {"user", "super_admin"} \subseteq Roles /\ NoRole \notin Roles
ASSUME StateAssumption   == NoState \notin {"active", "disabled"}
ASSUME VersionAssumption == MaxVersion \in Nat

VARIABLES account,  \* the app_users row: state (disabled_at), version, password
          profile,  \* the user_profiles row: state (is_active), role
          tokens,   \* every token issued, with the password it was issued for
          pc,       \* where each request stands
          read,     \* the version and password a request read
          patch,    \* the role and state a request will write
          raced,    \* history: kinds of overlaps that happened
          crowned   \* history: the account has become a super_admin

dbVars  == <<account, profile>>
history == <<raced, crowned>>
vars == <<account, profile, tokens, pc, read, patch, raced, crowned>>

Token    == [version : Nat, password : Passwords]
States   == {"active", "disabled"}   \* "none": no row
Patch    == [role : Roles \cup {NoRole}, state : States \cup {NoState}]
NoPatch  == [role |-> NoRole, state |-> NoState]
Writing  == {"insert", "setRole"}    \* past the role check, before the role is written
PCs      == {"idle", "login", "auth", "change", "issue", "switch", "flag",
             "promote", "reset"} \cup Writing

TypeOK ==
    /\ account \in [state : States \cup {"none"}, version : Nat, password : Passwords]
    /\ profile \in [state : States \cup {"none"}, role : Roles]
    /\ tokens \in SUBSET Token
    /\ pc \in [Requests -> PCs]
    /\ read \in [Requests -> Token]
    /\ patch \in [Requests -> Patch]
    /\ raced \in SUBSET {"flag", "delete", "role"}
    /\ crowned \in BOOLEAN

Row(s, v, p)     == [state |-> s, version |-> v, password |-> p]
ProfileRow(s, r) == [state |-> s, role |-> r]

(* After sign_up, which answers with a token of version 0, or after the    *)
(* command line's create_super_admin, which issues none.                   *)
Init ==
    \E p \in Passwords, role \in {"user", "super_admin"} :
        /\ account = Row("active", 0, p)
        /\ profile = ProfileRow("active", role)
        /\ tokens = IF role = "user" THEN {[version |-> 0, password |-> p]} ELSE {}
        /\ pc = [r \in Requests |-> "idle"]
        /\ read = [r \in Requests |-> [version |-> 0, password |-> p]]
        /\ patch = [r \in Requests |-> NoPatch]
        /\ raced = {}
        /\ crowned = (role = "super_admin")

(* authenticate_token. *)
Open       == account.state = "active"
Accepts(t) == Open /\ t.version = account.version

(* coalesce(up.user_role, 'user') *)
RoleOf       == IF profile.state # "none" THEN profile.role ELSE "user"
IsSuperAdmin == RoleOf = "super_admin"
Exists       == account.state # "none"

Current == [version |-> account.version, password |-> account.password]

Goto(r, from, to) == pc[r] = from /\ pc' = [pc EXCEPT ![r] = to]
Ends(r, from)     == Goto(r, from, "idle")

InFlight(S) == {r \in Requests : pc[r] \in S}
Race(kind, happened) == raced' = IF happened THEN raced \cup {kind} ELSE raced

----------------------------------------------------------------------------
(* The owner: login and change_password.                                   *)

(* One read of password hash, version and disabled_at; the caller's        *)
(* password matches the hash. The two updates of last_login_at that follow *)
(* change nothing here.                                                    *)
BugLoginDisabled(r) ==
    /\ Exists
    /\ Goto(r, "idle", "login")
    /\ read' = [read EXCEPT ![r] = Current]
    /\ UNCHANGED <<dbVars, tokens, patch, history>>

LoginRead(r) ==
    /\ Open
    /\ Goto(r, "idle", "login")
    /\ read' = [read EXCEPT ![r] = Current]
    /\ UNCHANGED <<dbVars, tokens, patch, history>>

(* The token is issued for the version that was read. *)
BugLoginIssue(r) ==
    /\ Ends(r, "login")
    /\ tokens' = tokens \cup {[version |-> account.version, password |-> read[r].password]}
    /\ UNCHANGED <<dbVars, read, patch, history>>

LoginIssue(r) ==
    /\ Ends(r, "login")
    /\ tokens' = tokens \cup {read[r]}
    /\ UNCHANGED <<dbVars, read, patch, history>>

(* A handler that takes AuthUser: the token is accepted once, at its start. *)
Authenticate(r, to) ==
    /\ \E t \in tokens : Accepts(t)
    /\ Goto(r, "idle", to)
    /\ patch' = [patch EXCEPT ![r] = NoPatch]
    /\ UNCHANGED <<dbVars, tokens, read, history>>

(* user_by_id; the current password is verified only if it was sent. *)
ChangeRead(r) ==
    /\ Open
    /\ Goto(r, "auth", "change")
    /\ read' = [read EXCEPT ![r] = Current]
    /\ UNCHANGED <<dbVars, tokens, patch, history>>

(* set password_hash = .., token_version = token_version + 1 where id = .. *)
NewPassword(p) ==
    account' = IF Exists
               THEN Row(account.state, account.version + 1, p)
               ELSE account

(* The token will be for the version read plus one, whatever the row has. *)
ChangeUpdate(r) ==
    /\ account.version < MaxVersion
    /\ Goto(r, "change", "issue")
    /\ \E p \in Passwords :
          /\ NewPassword(p)
          /\ read' = [read EXCEPT ![r] = [version |-> read[r].version + 1, password |-> p]]
    /\ UNCHANGED <<profile, tokens, patch, history>>

ChangeIssue(r) ==
    /\ Ends(r, "issue")
    /\ tokens' = tokens \cup {read[r]}
    /\ UNCHANGED <<dbVars, read, patch, history>>

----------------------------------------------------------------------------
(* Administrators: update_user and update_role, set_account_active and     *)
(* toggle_account_active, delete_account. Another account acts.            *)

(* admin_role_for_target: the role is looked at once. A patch without role *)
(* or user name goes straight to the switch; update_role is a patch of the *)
(* role alone.                                                             *)
BugCheckAnyone(r) ==
    /\ Exists
    /\ \E p \in Patch, named \in BOOLEAN :
          /\ p # NoPatch \/ named
          /\ patch' = [patch EXCEPT ![r] = p]
          /\ Goto(r, "idle", IF named \/ p.role # NoRole THEN "insert" ELSE "switch")
    /\ UNCHANGED <<dbVars, tokens, read, history>>

CheckRole(r) ==
    /\ Exists /\ ~IsSuperAdmin
    /\ \E p \in Patch, named \in BOOLEAN :
          /\ p # NoPatch \/ named
          /\ patch' = [patch EXCEPT ![r] = p]
          /\ Goto(r, "idle", IF named \/ p.role # NoRole THEN "insert" ELSE "switch")
    /\ UNCHANGED <<dbVars, tokens, read, history>>

(* insert into user_profiles (id) .. on conflict (id) do nothing, by an    *)
(* administrator, or by the owner (update_profile, upload_avatar,          *)
(* complete_onboarding), whose further columns are not modelled.           *)
InsertProfile(r) ==
    /\ Goto(r, "insert", "setRole")
    /\ profile' = IF profile.state # "none" THEN profile
                  ELSE ProfileRow("active", "user")
    /\ UNCHANGED <<account, tokens, read, patch, history>>

(* A super_admin comes to be while another request, past its check, is to  *)
(* write another role.                                                     *)
Crown(r) ==
    LET late == {q \in InFlight(Writing) \ {r} : patch[q].role \notin {NoRole, "super_admin"}} IN
    /\ crowned' = (crowned \/ Exists)
    /\ Race("role", late # {})

(* update user_profiles set user_role = .. where id = .. *)
BugSetRole(r) ==
    /\ Goto(r, "setRole", IF patch[r].state = NoState THEN "idle" ELSE "switch")
    /\ profile' = ProfileRow(profile.state, patch[r].role)
    /\ UNCHANGED <<account, tokens, read, patch, history>>

SetRole(r) ==
    LET p == patch[r] IN
    /\ Goto(r, "setRole", IF p.state = NoState THEN "idle" ELSE "switch")
    /\ profile' = IF profile.state # "none" /\ p.role # NoRole
                  THEN ProfileRow(profile.state, p.role) ELSE profile
    /\ IF profile.state # "none" /\ p.role = "super_admin" THEN Crown(r) ELSE UNCHANGED history
    /\ UNCHANGED <<account, tokens, read, patch>>

(* set_account_active: the row is returned, and its state goes into the    *)
(* profile in a second statement. A super_admin is not found.              *)
BugSwitchNoBump(r) ==
    LET to == patch[r].state IN
    /\ IF Exists /\ ~IsSuperAdmin
       THEN /\ Goto(r, "switch", "flag")
            /\ account' = Row(to, account.version, account.password)
            /\ Race("flag", \E q \in InFlight({"flag"}) : patch[q].state # to)
       ELSE Ends(r, "switch") /\ UNCHANGED <<account, raced>>
    /\ UNCHANGED <<profile, tokens, read, patch, crowned>>

Switch(r) ==
    LET to      == patch[r].state
        changes == account.state # to IN
    /\ IF Exists /\ ~IsSuperAdmin
       THEN /\ changes => account.version < MaxVersion
            /\ Goto(r, "switch", "flag")
            /\ account' = Row(to, account.version + (IF changes THEN 1 ELSE 0), account.password)
            /\ Race("flag", \E q \in InFlight({"flag"}) : patch[q].state # to)
       ELSE Ends(r, "switch") /\ UNCHANGED <<account, raced>>
    /\ UNCHANGED <<profile, tokens, read, patch, crowned>>

(* toggle_account_active turns whatever state it finds, and bumps always.  *)
Opposite == IF Open THEN "disabled" ELSE "active"

Toggle(r) ==
    /\ Exists /\ ~IsSuperAdmin
    /\ account.version < MaxVersion
    /\ Goto(r, "idle", "flag")
    /\ account' = Row(Opposite, account.version + 1, account.password)
    /\ patch' = [patch EXCEPT ![r] = [role |-> NoRole, state |-> Opposite]]
    /\ Race("flag", \E q \in InFlight({"flag"}) : patch[q].state # Opposite)
    /\ UNCHANGED <<profile, tokens, read, crowned>>

(* update user_profiles set is_active = .. where id = .. *)
BugWriteFlagActive(r) ==
    /\ Ends(r, "flag")
    /\ profile' = ProfileRow("active", profile.role)
    /\ UNCHANGED <<account, tokens, read, patch, history>>

WriteFlag(r) ==
    /\ Ends(r, "flag")
    /\ profile' = IF profile.state # "none" THEN ProfileRow(patch[r].state, profile.role)
                  ELSE profile
    /\ UNCHANGED <<account, tokens, read, patch, history>>

(* One statement deletes both rows, of anybody but a super_admin.          *)
BugDeleteAccountOnly ==
    /\ Exists /\ ~IsSuperAdmin
    /\ account' = Row("none", account.version, account.password)
    /\ Race("delete", InFlight({"insert", "promote"}) # {})
    /\ UNCHANGED <<profile, tokens, pc, read, patch, crowned>>

Delete ==
    /\ Exists /\ ~IsSuperAdmin
    /\ account' = Row("none", account.version, account.password)
    /\ profile' = ProfileRow("none", profile.role)
    /\ Race("delete", InFlight({"insert", "promote"}) # {})
    /\ UNCHANGED <<tokens, pc, read, patch, crowned>>

----------------------------------------------------------------------------
(* The command line: find_user_by_email, a confirmation, one statement.    *)

Find(r, super, to) ==
    /\ Exists /\ IsSuperAdmin = super
    /\ Goto(r, "idle", to)
    /\ UNCHANGED <<dbVars, tokens, read, patch, history>>

(* insert .. 'super_admin' on conflict (id) do update set user_role = ..   *)
Promote(r) ==
    /\ Ends(r, "promote")
    /\ profile' = IF profile.state # "none" THEN ProfileRow(profile.state, "super_admin")
                  ELSE ProfileRow("active", "super_admin")
    /\ Crown(r)
    /\ UNCHANGED <<account, tokens, read, patch>>

Reset(r) ==
    /\ account.version < MaxVersion
    /\ Ends(r, "reset")
    /\ \E p \in Passwords : NewPassword(p)
    /\ UNCHANGED <<profile, tokens, read, patch, history>>

(* A database error, a closed connection or a crash ends a request where   *)
(* it stands.                                                              *)
Fail(r) ==
    /\ pc[r] # "idle"
    /\ pc' = [pc EXCEPT ![r] = "idle"]
    /\ Race("flag", pc[r] = "flag")
    /\ UNCHANGED <<dbVars, tokens, read, patch, crowned>>

Owner(r) ==
    \/ LoginRead(r) \/ LoginIssue(r)
    \/ Authenticate(r, "auth") \/ ChangeRead(r) \/ ChangeUpdate(r) \/ ChangeIssue(r)
    \/ Authenticate(r, "insert")

Administrator(r) ==
    \/ CheckRole(r) \/ InsertProfile(r) \/ SetRole(r)
    \/ Switch(r) \/ Toggle(r) \/ WriteFlag(r)

CommandLine(r) ==
    \/ Find(r, FALSE, "promote") \/ Promote(r)
    \/ Find(r, TRUE, "reset") \/ Reset(r)

Next ==
    \/ \E r \in Requests : Owner(r) \/ Administrator(r) \/ CommandLine(r) \/ Fail(r)
    \/ Delete

Spec == Init /\ [][Next]_vars

----------------------------------------------------------------------------
(* Properties. *)

(* No session outlives the password it was opened with: whatever overtakes *)
(* a login or a password change between its read and its token, a token    *)
(* that is accepted was issued for the password now in force               *)
(* (cli.rs:20-21, "invalidating every existing session").                  *)
LiveTokenIsCurrent == \A t \in tokens : Accepts(t) => t.password = account.password

(* The version alone locks a disabled account out, before disabled_at is   *)
(* looked at: no login or password change in flight leaves a token that    *)
(* the account's return would revive.                                      *)
DisabledHasNoToken ==
    account.state = "disabled" => \A t \in tokens : t.version # account.version

(* The administrator's list (disabled_at) and the profile (is_active)      *)
(* agree once no switch is half done, unless two switches that disagree    *)
(* crossed, or one failed between its statements.                          *)
FlagsAgree ==
    Exists /\ InFlight({"flag"}) = {} /\ "flag" \notin raced
        => profile.state = account.state

(* A deleted account leaves no profile, unless a request that was past its *)
(* check when the account went inserts one again (user_profiles.id has no  *)
(* foreign key).                                                           *)
NoOrphan == ~Exists /\ "delete" \notin raced => profile.state = "none"

(* A super_admin stays one and is never deleted, unless a role change had  *)
(* checked before the promotion and wrote after it.                        *)
SuperAdminLasts ==
    crowned /\ "role" \notin raced => Exists /\ IsSuperAdmin

Service == INSTANCE Sessions WITH
              open <- Open,
              live <- {t \in tokens : Accepts(t)}

(* The version number implements sessions that begin while the account is  *)
(* open and end all at once; none is ever revived.                         *)
ImplementsSessions == Service!Spec
=============================================================================
