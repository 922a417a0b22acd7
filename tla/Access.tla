------------------------------- MODULE Access -------------------------------
(***************************************************************************)
(* Accounts, roles and permissions, and what they let a request do to the  *)
(* organisation (services/auth.py, api/deps.py, routes users and roles,    *)
(* cli.py).  The migration seeds the permissions and roles of its release  *)
(* and creates the first superuser; create-admin seeds again, by then      *)
(* perhaps those of a later release, and creates one more.  Passwords and  *)
(* tokens are left out.                                                    *)
(***************************************************************************)
EXTENDS Organization

CONSTANTS
    Accounts, NoPerson,
    Superusers,       \* accounts created by the migration and by create-admin
    FirstSuperuser,   \* the one of the migration
    Roles, AdminRole, \* AdminRole is "system_admin"
    Permissions, BasePermissions,  \* the codes of the later and the first release
    BuiltinRoles, BaseRoles,       \* and their common roles
    Template,         \* what a built-in role other than AdminRole is created with
    AccountPermission, UnitPermission, PersonPermission, ShiftPermission,
    Managed,          \* bound: the accounts that requests are about
    RoleSets,         \* bound: the sets of roles that are assigned
    Grants            \* bound: the sets of permissions that are assigned

ASSUME AccessAssumption ==
    /\ FirstSuperuser \in Superusers /\ Superusers \subseteq Accounts /\ Managed \subseteq Accounts
    /\ NoPerson \notin Persons
    /\ AdminRole \in BaseRoles /\ BaseRoles \subseteq BuiltinRoles /\ BuiltinRoles \subseteq Roles
    /\ RoleSets \subseteq SUBSET Roles
    /\ BasePermissions \subseteq Permissions
    /\ Template \in [BuiltinRoles \ {AdminRole} -> SUBSET Permissions]
    /\ \A g \in BaseRoles \ {AdminRole} : Template[g] \subseteq BasePermissions

VARIABLES
    accStatus,   \* accStatus[u]: absent, enabled or disabled
    person,      \* person[u]: the person bound to account u, or NoPerson
    roles,       \* roles[u]: the roles assigned to u
    direct,      \* direct[u]: the permissions granted to u itself
    roleStatus,  \* roleStatus[g]: absent, enabled or disabled
    rolePerms,   \* rolePerms[g]: the permissions of role g
    registered,  \* the permissions the database knows
    upgraded     \* the later release is running

userVars == <<accStatus, person, roles, direct>>
roleVars == <<roleStatus, rolePerms>>
releaseVars == <<registered, upgraded>>
accessVars == <<orgVars, userVars, roleVars, releaseVars>>

HasAccount(u) == accStatus[u] # "absent"

\* The tables that the running release seeds the database from.
PERMISSIONS == IF upgraded THEN Permissions ELSE BasePermissions
BUILTIN_ROLES == IF upgraded THEN BuiltinRoles ELSE BaseRoles
RoleTemplate(g) == IF g = AdminRole THEN PERMISSIONS ELSE Template[g]

-----------------------------------------------------------------------------
(***************************************************************************)
(* What the server admits, and what it tells the client.                   *)
(***************************************************************************)
EnabledRoles(u) == { g \in roles[u] : roleStatus[g] = "enabled" }

\* check_user_permission, behind get_current_user
Admitted(u, code) ==
    /\ accStatus[u] = "enabled"
    /\ \/ u \in Superusers
       \/ code \in direct[u]
       \/ \E g \in Roles : g \in roles[u] /\ roleStatus[g] = "enabled" /\ code \in rolePerms[g]

IsRoomSwitching(u) == u \in Superusers \/ AdminRole \in EnabledRoles(u)

\* resolve_current_room_id
ActsInRoom(u, r) ==
    /\ RoomOpen(r)
    /\ IsRoomSwitching(u)
         \/ \E p \in Persons : person[u] = p /\ room[p] = r /\ personStatus[p] = "enabled"

\* Variant: the permissions of disabled roles are listed.
EffectiveOfAllRoles(u) ==
    IF u \in Superusers THEN registered
    ELSE (UNION { rolePerms[g] : g \in roles[u] }) \cup direct[u]

\* effective_permission_sources, shown by /me and to the administrator
EffectivePermissions(u) ==
    IF u \in Superusers THEN registered
    ELSE (UNION { rolePerms[g] : g \in EnabledRoles(u) }) \cup direct[u]

\* room_id of /me: whatever the status of the person and of the room.
ShownRoom(u) ==
    IF IsRoomSwitching(u) \/ person[u] = NoPerson THEN NoUnit ELSE room[person[u]]

-----------------------------------------------------------------------------
\* Variant: seeding brings every built-in role up to the release.
SeededPermsOverwritten ==
    [g \in Roles |-> IF g \in BUILTIN_ROLES THEN RoleTemplate(g) ELSE rolePerms[g]]

SeededPerms ==
    [g \in Roles |-> IF g \in BUILTIN_ROLES /\ roleStatus[g] = "absent"
                     THEN RoleTemplate(g) ELSE rolePerms[g]]

SeededStatus ==
    [g \in Roles |-> IF g \in BUILTIN_ROLES /\ roleStatus[g] = "absent"
                     THEN "enabled" ELSE roleStatus[g]]

\* create-admin: seed_permission_system and create_user in one transaction
CreateAdmin(u) ==
    /\ u \in Superusers /\ ~HasAccount(u)
    /\ registered' = registered \cup PERMISSIONS
    /\ rolePerms' = SeededPerms
    /\ roleStatus' = SeededStatus
    /\ accStatus' = [accStatus EXCEPT ![u] = "enabled"]
    /\ UNCHANGED <<orgVars, person, roles, direct, upgraded>>

Upgrade ==
    /\ ~upgraded
    /\ upgraded' = TRUE
    /\ UNCHANGED <<orgVars, userVars, roleVars, registered>>

\* Variant: ordinary administrators are held off only while the superuser is enabled.
MayManageDisabled(a, u) ==
    /\ Admitted(a, AccountPermission)
    /\ u \in Superusers /\ accStatus[u] = "enabled" => a \in Superusers

\* Account a may change account u.
MayManage(a, u) ==
    /\ Admitted(a, AccountPermission)
    /\ u \in Superusers => a \in Superusers

Bindable(u, p) ==
    p # NoPerson => Created(p) /\ \A v \in Accounts \ {u} : person[v] # p

Assignable(rs) == \A g \in rs : roleStatus[g] = "enabled"

\* POST /users: the account, its roles and its permissions in one transaction
CreateUser(a, u, p, rs, codes) ==
    /\ Admitted(a, AccountPermission)
    /\ u \notin Superusers /\ ~HasAccount(u)
    /\ Bindable(u, p) /\ Assignable(rs)
    /\ accStatus' = [accStatus EXCEPT ![u] = "enabled"]
    /\ person' = [person EXCEPT ![u] = p]
    /\ roles' = [roles EXCEPT ![u] = rs]
    /\ direct' = [direct EXCEPT ![u] = codes]
    /\ UNCHANGED <<orgVars, roleVars, releaseVars>>

UpdateUser(a, u, status, p) ==
    /\ MayManage(a, u) /\ HasAccount(u)
    /\ p # person[u] => Bindable(u, p)
    /\ accStatus' = [accStatus EXCEPT ![u] = status]
    /\ person' = [person EXCEPT ![u] = p]
    /\ UNCHANGED <<orgVars, roles, direct, roleVars, releaseVars>>

AssignUserRoles(a, u, rs) ==
    /\ MayManage(a, u) /\ HasAccount(u)
    /\ Assignable(rs)
    /\ roles' = [roles EXCEPT ![u] = rs]
    /\ UNCHANGED <<orgVars, accStatus, person, direct, roleVars, releaseVars>>

AssignUserPermissions(a, u, codes) ==
    /\ MayManage(a, u) /\ HasAccount(u)
    /\ direct' = [direct EXCEPT ![u] = codes]
    /\ UNCHANGED <<orgVars, accStatus, person, roles, roleVars, releaseVars>>

CreateRole(a, g) ==
    /\ Admitted(a, AccountPermission)
    /\ roleStatus[g] = "absent"
    /\ roleStatus' = [roleStatus EXCEPT ![g] = "enabled"]
    /\ UNCHANGED <<orgVars, userVars, rolePerms, releaseVars>>

UpdateRole(a, g, status) ==
    /\ Admitted(a, AccountPermission)
    /\ roleStatus[g] # "absent"
    /\ roleStatus' = [roleStatus EXCEPT ![g] = status]
    /\ UNCHANGED <<orgVars, userVars, rolePerms, releaseVars>>

AssignRolePermissions(a, g, codes) ==
    /\ Admitted(a, AccountPermission)
    /\ roleStatus[g] # "absent"
    /\ rolePerms' = [rolePerms EXCEPT ![g] = codes]
    /\ UNCHANGED <<orgVars, userVars, roleStatus, releaseVars>>

\* The requests of Organization, by account a.
ManageOrganization(a) ==
    /\ \/ Admitted(a, UnitPermission) /\ UnitStep
       \/ \E r \in Rooms : /\ ActsInRoom(a, r)
                           /\ \/ Admitted(a, PersonPermission) /\ PersonStep(r)
                              \/ Admitted(a, ShiftPermission) /\ ChangeShiftDefs(r)
    /\ UNCHANGED <<userVars, roleVars, releaseVars>>

AccessInit ==
    /\ OrgInit
    /\ accStatus = [u \in Accounts |-> IF u = FirstSuperuser THEN "enabled" ELSE "absent"]
    /\ person = [u \in Accounts |-> NoPerson]
    /\ roles = [u \in Accounts |-> {}]
    /\ direct = [u \in Accounts |-> {}]
    /\ roleStatus = [g \in Roles |-> IF g \in BaseRoles THEN "enabled" ELSE "absent"]
    /\ rolePerms = [g \in Roles |-> IF g = AdminRole THEN BasePermissions
                                    ELSE IF g \in BaseRoles THEN Template[g] ELSE {}]
    /\ registered = BasePermissions
    /\ upgraded = FALSE

Assigned == { codes \in Grants : codes \subseteq registered }

ManageAccount(a, u) ==
    \/ \E p \in Persons \cup {NoPerson} :
          \/ \E rs \in RoleSets, codes \in Assigned : CreateUser(a, u, p, rs, codes)
          \/ \E status \in Statuses : UpdateUser(a, u, status, p)
    \/ \E rs \in RoleSets : AssignUserRoles(a, u, rs)
    \/ \E codes \in Assigned : AssignUserPermissions(a, u, codes)

ManageRole(a, g) ==
    \/ CreateRole(a, g)
    \/ \E status \in Statuses : UpdateRole(a, g, status)
    \/ \E codes \in Assigned : AssignRolePermissions(a, g, codes)

AccessNext ==
    \/ \E a \in Accounts :
          \/ \E u \in Managed : ManageAccount(a, u)
          \/ \E g \in Roles : ManageRole(a, g)
          \/ ManageOrganization(a)
    \/ \E u \in Accounts : CreateAdmin(u)
    \/ Upgrade

AccessSpec == AccessInit /\ [][AccessNext]_accessVars

-----------------------------------------------------------------------------
\* Accounts, roles and their links have their columns' values; a permission that
\* is granted is registered, a role that is assigned exists.
AccessTypeOK ==
    /\ accStatus \in [Accounts -> Statuses \cup {"absent"}]
    /\ person \in [Accounts -> Persons \cup {NoPerson}]
    /\ roles \in [Accounts -> SUBSET Roles]
    /\ direct \in [Accounts -> SUBSET registered]
    /\ roleStatus \in [Roles -> Statuses \cup {"absent"}]
    /\ rolePerms \in [Roles -> SUBSET registered]
    /\ registered \subseteq PERMISSIONS
    /\ upgraded \in BOOLEAN
    /\ \A u \in Accounts : \A g \in roles[u] : roleStatus[g] # "absent"
    /\ \A u \in Accounts : person[u] # NoPerson => Created(person[u])

\* A person acts through one account only: the workflows take the sender's
\* person for the sender (create_user, update_user).
OneAccountPerPerson ==
    \A u, v \in Accounts : u # v /\ person[u] = person[v] => person[u] = NoPerson

\* What /me tells the browser is what the server does: the same registered
\* permissions by either computation, and where a request is admitted to a room,
\* that room is shown, or the room switch (docs/design/04-开发实施计划.md:345, menu and API
\* use one permission).
ProfileMatchesServer ==
    \A u \in Accounts : accStatus[u] = "enabled" =>
        /\ \A code \in registered : Admitted(u, code) <=> code \in EffectivePermissions(u)
        /\ \A r \in Rooms : ActsInRoom(u, r) => IsRoomSwitching(u) \/ ShownRoom(u) = r

\* Seeding a later release grants nothing to an account that is there: neither
\* the new codes to system administrators, nor what an administrator took away
\* or what a new role of the same code would have (auth.py:268-273,
\* docs/design/08-权限体系设计修订.md:122).
SeedingGrantsNothing ==
    [][ \A v \in Superusers : ~HasAccount(v) /\ HasAccount(v)' =>
           \A u \in Accounts \ Superusers :
               HasAccount(u) => EffectivePermissions(u)' = EffectivePermissions(u) ]_accessVars

\* The account of a superuser, enabled or not, changes only while there is an
\* enabled superuser to do it, and never goes away: no ordinary administrator
\* disables, binds or re-enables it (docs/design/08-权限体系设计修订.md:117).
SuperusersNeedPeers ==
    [][ \A u \in Superusers :
           HasAccount(u)
           /\ <<accStatus[u], person[u], roles[u], direct[u]>>'
                # <<accStatus[u], person[u], roles[u], direct[u]>>
           => /\ HasAccount(u)'
              /\ \E a \in Superusers : accStatus[a] = "enabled" ]_accessVars
=============================================================================
