------------------------------ MODULE Accounts -------------------------------
(***************************************************************************)
(* User administration (app/auth/users_service.py, app/api/users.py) and   *)
(* what it leaves in its three stores: the Keycloak accounts, the local    *)
(* users table and the audit trail.  Only the last two share a             *)
(* transaction; every call to Keycloak is a step of its own.               *)
(***************************************************************************)
EXTENDS Naturals, FiniteSets

CONSTANTS
    Users,       \* Keycloak subjects
    Desks,       \* administration requests that may be in flight at once
    Patches,     \* PATCH bodies: [role, active, password]
    MaxFlows,    \* bound on requests started
    MaxFaults    \* bound on calls that fail and processes that die

ASSUME AccountsAssumption ==
    /\ MaxFlows \in Nat /\ MaxFaults \in Nat
    /\ Patches \subseteq [role : {"keep", "admin", "plain"}, active : {"keep", "on", "off"},
                          password : {"keep", "good", "weak"}]

VARIABLES
    account,   \* Keycloak: user -> [state, enabled, admin, linked, reader, dead]
    row,       \* users table: user -> "absent", "active" or "disabled"
    trail,     \* audit_log: user -> is the last permission change recorded a grant?
    holders,   \* users with an access token that says administrator
    command,   \* desk -> a request of the users API
    flows, faults,
    torn,      \* history: users a command left half changed
    raced,     \* history: users two requests changed at once
    usurped    \* history: a command went on after its actor lost the role

accountVars == <<account, row, trail, holders, command, flows, faults, torn, raced, usurped>>

Never == [state |-> "never", enabled |-> FALSE, admin |-> FALSE, linked |-> FALSE, reader |-> FALSE, dead |-> FALSE]
Fresh == [Never EXCEPT !.state = "live", !.enabled = TRUE]
Gone == [Never EXCEPT !.state = "gone"]

Live(u) == account[u].state = "live"
MayAuthenticate(u) == Live(u) /\ account[u].enabled
Administers(u) == MayAuthenticate(u) /\ account[u].admin

NoPatch == [role |-> "keep", active |-> "keep", password |-> "keep"]
Idle == [phase |-> "idle", actor |-> "nobody", target |-> "nobody", patch |-> NoPatch,
         admin |-> FALSE, delta |-> FALSE, enabled |-> FALSE, touched |-> FALSE]

AccountsInit ==
    /\ account \in [Users -> {Never, Fresh, [Fresh EXCEPT !.admin = TRUE]}]
    /\ \E u \in Users : Administers(u)
    /\ row \in [Users -> {"absent", "active"}]
    /\ \A u \in Users : row[u] = "active" <=> Live(u)
    /\ trail = [u \in Users |-> account[u].admin]
    /\ holders = {u \in Users : Administers(u)}
    /\ command = [c \in Desks |-> Idle]
    /\ flows = 0 /\ faults = 0
    /\ torn = {} /\ raced = {} /\ usurped = FALSE
-----------------------------------------------------------------------------
(* Who may call                                                            *)

\* Sign-ins and refreshes happen at any time, and a token lives on when the role is gone.
TokensOut(accounts) == holders \cup {u \in Users : accounts[u].state = "live" /\ accounts[u].enabled /\ accounts[u].admin}

\* require_admin: the role is the token's, whether the user is active the table's.
RequireAdmin(u) == u \in holders /\ row[u] = "active"
-----------------------------------------------------------------------------
(* One request                                                             *)

InFlightOn(u) == {c \in Desks : command[c].target = u}

\* SelfMutationError.
NotOneself(actor, target, harm) == harm => actor # target

Begin(c, phase, actor, target, patch, harm) ==
    /\ command[c] = Idle /\ flows < MaxFlows
    /\ RequireAdmin(actor) /\ NotOneself(actor, target, harm)
    /\ flows' = flows + 1
    /\ command' = [command EXCEPT ![c] =
           [Idle EXCEPT !.phase = phase, !.actor = actor, !.target = target, !.patch = patch]]
    /\ raced' = IF InFlightOn(target) # {} THEN raced \cup {target} ELSE raced
    /\ UNCHANGED <<account, row, trail, holders, faults, torn, usurped>>

BeginCreate(c, actor, target, role) == Begin(c, "create", actor, target, [NoPatch EXCEPT !.role = role], FALSE)

BeginUpdate(c, actor, target, patch) ==
    Begin(c, "roles", actor, target, patch, patch.active = "off" \/ patch.role = "plain")

BeginDelete(c, actor, target) == Begin(c, "remove", actor, target, NoPatch, TRUE)

Go(c, phase) == command' = [command EXCEPT ![c].phase = phase]

\* The request ends in an error: the session rolls back, Keycloak keeps what it was told.
GiveUp(c) ==
    /\ command' = [command EXCEPT ![c] = Idle]
    /\ torn' = IF command[c].touched THEN torn \cup {command[c].target} ELSE torn

\* A call that changes the account, made for the actor of the request.
WriteAccount(c, written) ==
    /\ account' = [account EXCEPT ![command[c].target] = written]
    /\ holders' = TokensOut(account')
    /\ usurped' = (usurped \/ ~Administers(command[c].actor))

CreateAccount(c) ==
    LET u == command[c].target
    IN /\ command[c].phase = "create"
       /\ IF account[u].state # "never"
          THEN GiveUp(c) /\ UNCHANGED <<account, holders, usurped>>
          ELSE /\ WriteAccount(c, Fresh)
               /\ command' = [command EXCEPT ![c].touched = TRUE,
                      ![c].phase = IF command[c].patch.role = "admin" THEN "grant" ELSE "commit new"]
               /\ UNCHANGED torn
       /\ UNCHANGED <<row, trail, flows, faults, raced>>

\* admin_get_user_realm_roles
ReadRoles(c) ==
    /\ command[c].phase = "roles"
    /\ IF ~Live(command[c].target) THEN GiveUp(c)
       ELSE /\ command' = [command EXCEPT ![c].admin = account[command[c].target].admin, ![c].phase = "change"]
            /\ UNCHANGED torn
    /\ UNCHANGED <<account, row, trail, holders, flows, faults, raced, usurped>>

\* admin_add_realm_roles or admin_remove_realm_roles, when the role read is not the one asked for.
ChangeRole(c) ==
    LET u == command[c].target
        asked == command[c].patch.role = "admin"
        next == IF command[c].phase = "grant" THEN "commit new" ELSE "fields"
    IN /\ command[c].phase \in {"change", "grant"}
       /\ IF command[c].patch.role = "keep" \/ command[c].admin = asked
          THEN Go(c, next) /\ UNCHANGED <<account, holders, torn, usurped>>
          ELSE IF ~Live(u) THEN GiveUp(c) /\ UNCHANGED <<account, holders, usurped>>
          ELSE /\ WriteAccount(c, [account[u] EXCEPT !.admin = asked])
               /\ command' = [command EXCEPT ![c].admin = asked, ![c].delta = TRUE,
                                             ![c].touched = TRUE, ![c].phase = next]
               /\ UNCHANGED torn
       /\ UNCHANGED <<row, trail, flows, faults, raced>>

\* admin_update_user
UpdateFields(c) ==
    LET u == command[c].target
        active == command[c].patch.active
    IN /\ command[c].phase = "fields"
       /\ CASE active = "keep" -> Go(c, "password") /\ UNCHANGED <<account, holders, torn, usurped>>
            [] active # "keep" /\ ~Live(u) -> GiveUp(c) /\ UNCHANGED <<account, holders, usurped>>
            [] OTHER -> /\ WriteAccount(c, [account[u] EXCEPT !.enabled = (active = "on")])
                        /\ command' = [command EXCEPT ![c].touched = TRUE, ![c].phase = "password"]
                        /\ UNCHANGED torn
       /\ UNCHANGED <<row, trail, flows, faults, raced>>

\* admin_reset_password: the policy is Keycloak's, and it is asked last.
ResetPassword(c) ==
    /\ command[c].phase = "password"
    /\ IF command[c].patch.password = "weak" THEN GiveUp(c) ELSE Go(c, "reread") /\ UNCHANGED torn
    /\ UNCHANGED <<account, row, trail, holders, flows, faults, raced, usurped>>

\* admin_get_user
Reread(c) ==
    LET u == command[c].target
    IN /\ command[c].phase = "reread"
       /\ IF ~Live(u) THEN GiveUp(c)
          ELSE /\ command' = [command EXCEPT ![c].enabled = account[u].enabled, ![c].phase = "commit"]
               /\ UNCHANGED torn
       /\ UNCHANGED <<account, row, trail, holders, flows, faults, raced, usurped>>

Mirror(c) == IF command[c].enabled THEN "active" ELSE "disabled"

\* Mutant: a revocation is not recorded.
RecordGrants(c) == IF command[c].delta THEN command[c].admin \/ trail[command[c].target] ELSE trail[command[c].target]

\* record_permission_change
Record(c) == IF command[c].delta THEN command[c].admin ELSE trail[command[c].target]

CommitUpdate(c) ==
    /\ command[c].phase = "commit"
    /\ row' = [row EXCEPT ![command[c].target] = Mirror(c)]
    /\ trail' = [trail EXCEPT ![command[c].target] = Record(c)]
    /\ command' = [command EXCEPT ![c] = Idle]
    /\ UNCHANGED <<account, holders, flows, faults, torn, raced, usurped>>

\* upsert_from_claims: a new row is active, an old one keeps its flag.
Upserted(u) == IF row[u] = "absent" THEN "active" ELSE row[u]

CommitCreate(c) ==
    /\ command[c].phase = "commit new"
    /\ row' = [row EXCEPT ![command[c].target] = Upserted(command[c].target)]
    /\ trail' = [trail EXCEPT ![command[c].target] = Record(c)]
    /\ command' = [command EXCEPT ![c] = Idle]
    /\ UNCHANGED <<account, holders, flows, faults, torn, raced, usurped>>

DeleteAccount(c) ==
    /\ command[c].phase = "remove"
    /\ IF ~Live(command[c].target) THEN GiveUp(c) /\ UNCHANGED <<account, holders, usurped>>
       ELSE /\ WriteAccount(c, Gone)
            /\ command' = [command EXCEPT ![c].touched = TRUE, ![c].phase = "close"]
            /\ UNCHANGED torn
    /\ UNCHANGED <<row, trail, flows, faults, raced>>

\* The row is kept, its owner's data with it, and closed; there may be none.
CloseRow(c, unborn) ==
    LET u == command[c].target
    IN /\ command[c].phase = "close"
       /\ row' = [row EXCEPT ![u] = IF @ = "absent" THEN "absent" ELSE "disabled"]
       /\ raced' = IF unborn THEN raced \cup {u} ELSE raced
       /\ command' = [command EXCEPT ![c] = Idle]
       /\ UNCHANGED <<account, trail, holders, flows, faults, torn, usurped>>

\* Keycloak does not answer or refuses the service account; or the process dies.
CommandFails(c) ==
    /\ command[c] # Idle /\ faults < MaxFaults
    /\ faults' = faults + 1
    /\ GiveUp(c)
    /\ UNCHANGED <<account, row, trail, holders, flows, raced, usurped>>

\* signingIn: the users whose first sign-in is under way and will still create the row.
AccountsNext(signingIn) ==
    \/ \E c \in Desks, actor, target \in Users :
          \/ \E role \in {"admin", "plain"} : BeginCreate(c, actor, target, role)
          \/ \E patch \in Patches : BeginUpdate(c, actor, target, patch)
          \/ BeginDelete(c, actor, target)
    \/ \E c \in Desks :
          \/ CreateAccount(c) \/ ReadRoles(c) \/ ChangeRole(c) \/ UpdateFields(c) \/ ResetPassword(c)
          \/ Reread(c) \/ CommitUpdate(c) \/ CommitCreate(c) \/ DeleteAccount(c)
          \/ CloseRow(c, row[command[c].target] = "absent" /\ command[c].target \in signingIn)
          \/ CommandFails(c)
-----------------------------------------------------------------------------
(* Properties                                                              *)

Undisturbed(u) == u \notin torn \cup raced /\ InFlightOn(u) = {}

\* While every change is made by someone who still is an administrator, one is left: an
\* administrator can remove the others and never the last, himself.
AnAdministratorRemains == ~usurped => \E u \in Users : Administers(u)

\* Unless a request failed half way or two met, the last permission change on record is the
\* role the account has.
TrailTellsRoles == \A u \in Users : Live(u) /\ Undisturbed(u) => trail[u] = account[u].admin

\* Unless a request failed half way or two met, a user whose account is closed is refused by
\* the local table, whatever tokens are still out.
ClosedIsRefused ==
    \A u \in Users : account[u].state # "never" /\ ~MayAuthenticate(u) /\ Undisturbed(u) => row[u] # "active"
=============================================================================
