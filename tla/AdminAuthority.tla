--------------------------- MODULE AdminAuthority ---------------------------
(***************************************************************************)
(* The platform administrators of the LML admin: the role and permission   *)
(* value objects and the PlatformAdministrator aggregate that holds them.  *)
(***************************************************************************)
EXTENDS Naturals, FiniteSets

CONSTANTS
    Administrators,
    SuperOnly,      \* permissions only the SuperAdmin's default set grants
    Shared          \* permissions both default sets grant

ASSUME AdminAssumption == SuperOnly \cap Shared = {}

VARIABLE admin      \* each administrator, or none yet

Permissions == SuperOnly \cup Shared

-----------------------------------------------------------------------------
(* AdminPermissions: entries that are true, entries that are false; the rest *)
(* has no entry.  The three categories are alike and are not told apart.     *)

PermissionSet == {p \in [yes : SUBSET Permissions, no : SUBSET Permissions] : p.yes \cap p.no = {}}

NoPermissions == [yes |-> {}, no |-> {}]
SuperAdminPermissions == [yes |-> Permissions, no |-> {}]
PlatformAdminPermissions == [yes |-> Shared, no |-> SuperOnly]

Has(p, x) == x \in p.yes

GrantPermission(p, x) == [yes |-> p.yes \cup {x}, no |-> p.no \ {x}]
RevokePermission(p, x) == [yes |-> p.yes \ {x}, no |-> p.no \cup {x}]

\* Object spread: every entry of q, also a false one, replaces that of p.
Merge(p, q) ==
    [yes |-> (p.yes \ q.no) \cup q.yes, no |-> (p.no \ q.yes) \cup q.no]

Intersect(p, q) == [yes |-> p.yes \cap q.yes, no |-> {}]

-----------------------------------------------------------------------------
(* AdminRole: shared says that the object is AdminRole.SUPER_ADMIN or        *)
(* PLATFORM_ADMIN itself; create and fromString build objects of their own.  *)

Role == [name : {"SuperAdmin", "PlatformAdmin"}, shared : BOOLEAN]

IsSuperAdmin(r) == r.name = "SuperAdmin"

DefaultPermissions(r) ==
    IF IsSuperAdmin(r) THEN SuperAdminPermissions ELSE PlatformAdminPermissions

-----------------------------------------------------------------------------
(* PlatformAdministrator *)

NoAdmin == [active |-> FALSE]
Present == {a \in Administrators : admin[a] # NoAdmin}

AdminTypeOK ==
    \A a \in Present : admin[a] \in [role : Role, permissions : PermissionSet, active : BOOLEAN]

AdminInit == admin = [a \in Administrators |-> NoAdmin]

Set(a, rec) == admin' = [admin EXCEPT ![a] = rec]

CreateAdmin(a, r, p) ==
    /\ admin[a] = NoAdmin
    /\ Set(a, [role |-> r, permissions |-> p, active |-> TRUE])

\* canManageAdministrators and canAccessEmergencyMode, x being user_management or
\* emergency_access: the role is compared with the object AdminRole.SUPER_ADMIN.
MayUseSuperPower(a, x) ==
    /\ admin[a].active
    /\ admin[a].role = [name |-> "SuperAdmin", shared |-> TRUE]
    /\ Has(admin[a].permissions, x)

MayUpdate(a) == a \in Present /\ admin[a].active

\* A slip: the new role's permissions are added to what the administrator has.
UpdateRoleAndGrant(a, r) ==
    LET gained == DefaultPermissions(r).yes IN
    MayUpdate(a) /\ Set(a, [admin[a] EXCEPT !.role = r,
                            !.permissions.yes = @ \cup gained,
                            !.permissions.no = @ \ gained])

\* The permissions stay what they were.
UpdateRole(a, r) == MayUpdate(a) /\ Set(a, [admin[a] EXCEPT !.role = r])

UpdatePermissions(a, p) == MayUpdate(a) /\ Set(a, [admin[a] EXCEPT !.permissions = p])

ActivateAdmin(a) == ~admin[a].active /\ Set(a, [admin[a] EXCEPT !.active = TRUE])

DeactivateAdmin(a) == admin[a].active /\ Set(a, [admin[a] EXCEPT !.active = FALSE])

\* Where the permissions of an update come from.
NewPermissions(p) ==
    {NoPermissions, SuperAdminPermissions, PlatformAdminPermissions}
        \cup {GrantPermission(p, x) : x \in Permissions}
        \cup {RevokePermission(p, x) : x \in Permissions}
        \cup {Merge(p, admin[b].permissions) : b \in Present}
        \cup {Intersect(p, admin[b].permissions) : b \in Present}

AdminNext ==
    \E a \in Administrators :
        \/ \E r \in Role :
             \/ \E p \in {NoPermissions, DefaultPermissions(r)} : CreateAdmin(a, r, p)
             \/ UpdateRole(a, r)
        \/ a \in Present /\ \E p \in NewPermissions(admin[a].permissions) : UpdatePermissions(a, p)
        \/ a \in Present /\ (ActivateAdmin(a) \/ DeactivateAdmin(a))

AdminSpec == AdminInit /\ [][AdminNext]_admin

-----------------------------------------------------------------------------
\* A permission that no administrator has, because it was never given or was
\* revoked from all who had it, comes back only where it is granted or where a
\* preset is handed out: not by a change of role, a deactivation and return, a
\* merge or an intersection (PlatformAdministrator.ts, AdminPermissions.ts).
PermissionsAreGranted ==
    [][\A x \in Permissions :
         (\A b \in Present : ~Has(admin[b].permissions, x)) =>
           \A a \in Administrators :
             admin'[a] # NoAdmin /\ Has(admin'[a].permissions, x) =>
               \/ admin'[a].permissions \in {SuperAdminPermissions, PlatformAdminPermissions}
               \/ a \in Present /\ admin'[a].permissions = GrantPermission(admin[a].permissions, x)]_admin
=============================================================================
