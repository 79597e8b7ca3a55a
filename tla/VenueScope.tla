------------------------------ MODULE VenueScope ------------------------------
(***************************************************************************)
(* The venue isolation package: the middleware stack that gives a request  *)
(* its venue context, and VenueScopedRepository, which keeps the context   *)
(* of "all subsequent operations" in a field of the repository and reads   *)
(* it again after every await.  One repository serves all requests, so its *)
(* context is whatever the last request put there.                         *)
(***************************************************************************)
EXTENDS FiniteSets

CONSTANTS
    ScopeRequests,      \* requests, each made once
    ScopeVenues,        \* venue ids
    Signed, Anonymous   \* a request with a user id, and one without

VARIABLES
    defaultRole,    \* the role whose permissions config.defaultPermissions are
    context,        \* venueContext of the repository
    scoped,         \* where each request stands
    overtaken       \* per request: venues others set since it set its own

scopeVars == <<defaultRole, context, scoped, overtaken>>

NoContext == "no context"

-----------------------------------------------------------------------------
(* Permissions are sets of resource and action; a flag that is false or     *)
(* missing is a pair that is not in the set.                                *)

Resources == {"customers", "shows", "tickets", "analytics", "staff", "venue"}

DefaultVenuePermissions == {"customers", "shows", "tickets"} \X {"read"}

VenueAdminPermissions ==
    (Resources \X {"read", "create", "update", "delete"})
      \cup ({"customers", "analytics"} \X {"export"})
      \cup ({"tickets"} \X {"validate", "refund"})
      \cup ({"staff", "venue"} \X {"manage"})

VenueStaffPermissions ==
    DefaultVenuePermissions \cup {<<"tickets", "validate">>, <<"analytics", "read">>}

\* The override's flags win over the base's.
MergeVenuePermissions(base, on, off) == (base \ off) \cup on

Roles == {"venueadmin", "venuestaff", "venuevalidator", "boxoffice", "security", "other"}

RolePermissions(role) ==
    CASE role = "venueadmin" -> VenueAdminPermissions
      [] role \in {"venuestaff", "venuevalidator"} -> VenueStaffPermissions
      [] role = "boxoffice" ->
           MergeVenuePermissions(VenueStaffPermissions,
             ({"customers"} \X {"read", "create", "update", "export"})
               \cup ({"tickets"} \X {"validate", "refund"}), {})
      [] role = "security" ->
           MergeVenuePermissions(DefaultVenuePermissions, {<<"tickets", "validate">>}, {})
      [] OTHER -> DefaultVenuePermissions

-----------------------------------------------------------------------------
Arriving ==
    [at |-> "arriving", user |-> Anonymous, venue |-> NoContext, permissions |-> {},
     ran |-> NoContext, answer |-> "none"]

ScopeTypeOK ==
    /\ defaultRole \in Roles
    /\ context \in ScopeVenues \cup {NoContext}
    /\ overtaken \in [ScopeRequests -> SUBSET ScopeVenues]
    /\ \A r \in ScopeRequests :
         /\ scoped[r].at \in {"arriving", "context", "boundary", "permission", "set",
                              "begin", "await", "settle", "leave", "answered"}
         /\ scoped[r].user \in {Signed, Anonymous}
         /\ {scoped[r].venue, scoped[r].ran} \subseteq ScopeVenues \cup {NoContext}
         /\ scoped[r].permissions \subseteq VenueAdminPermissions
         /\ scoped[r].answer \in {"none", "400", "401", "403", "success", "failure", "thrown"}

ScopeInit ==
    /\ defaultRole \in Roles
    /\ context = NoContext
    /\ scoped = [r \in ScopeRequests |-> Arriving]
    /\ overtaken = [r \in ScopeRequests |-> {}]

Move(r, request) == scoped' = [scoped EXCEPT ![r] = request]
MoveTo(r, at) == scoped' = [scoped EXCEPT ![r].at = at]
Answer(r, at, answer) == scoped' = [scoped EXCEPT ![r].at = at, ![r].answer = answer]
Refuse(r, status) == Answer(r, "answered", status)

ContextKept == UNCHANGED <<defaultRole, context, overtaken>>

\* extractVenueId; a route without the stack goes on to the permission check.
Arrive(r, user, v, stacked) ==
    /\ scoped[r].at = "arriving"
    /\ CASE ~stacked -> MoveTo(r, "permission")
         [] stacked /\ v = NoContext -> Refuse(r, "400")
         [] OTHER -> Move(r, [scoped[r] EXCEPT !.at = "context", !.user = user, !.venue = v])
    /\ ContextKept

\* VenueIsolationService takes every venue for an active one and gives every
\* user, or none, the default permissions; nobody is an LML administrator.
ContextPermissions == RolePermissions(defaultRole)

\* VenueIsolationService.createVenueContext, which refuses nobody.
WithContext(request) == [request EXCEPT !.permissions = ContextPermissions]

CreateVenueContext(r) ==
    /\ scoped[r].at = "context"
    /\ Move(r, [WithContext(scoped[r]) EXCEPT !.at = "boundary"])
    /\ ContextKept

\* getUserAssignedVenue knows no assignment, and a user without one may pass.
AssignedVenue(user) == NoContext

WithinBoundary(user, venue) == AssignedVenue(user) \in {NoContext, venue}

EnforceVenueBoundary(r) ==
    /\ scoped[r].at = "boundary"
    /\ IF scoped[r].user = Anonymous \/ WithinBoundary(scoped[r].user, scoped[r].venue)
       THEN MoveTo(r, "permission") ELSE Refuse(r, "403")
    /\ ContextKept

HasPermission(request, resource, action) == <<resource, action>> \in request.permissions

RequireVenuePermission(r, resource, action) ==
    /\ scoped[r].at = "permission"
    /\ IF scoped[r].venue = NoContext THEN Refuse(r, "401")
       ELSE IF HasPermission(scoped[r], resource, action) THEN MoveTo(r, "set")
       ELSE Refuse(r, "403")
    /\ ContextKept

-----------------------------------------------------------------------------
(* The repository *)

\* A slip: a context that is there is left alone.
FirstContext(r) == IF context = NoContext THEN scoped[r].venue ELSE context

NewContext(r) == scoped[r].venue

SetVenueContext(r) ==
    /\ scoped[r].at = "set"
    /\ context' = NewContext(r)
    /\ MoveTo(r, "begin")
    /\ overtaken' = [q \in ScopeRequests |->
         IF q # r /\ scoped[q].at \in {"begin", "await"}
         THEN overtaken[q] \cup {scoped[r].venue} ELSE overtaken[q]]
    /\ UNCHANGED defaultRole

\* executeInVenueContext up to the await of setDatabaseContext, which sets
\* nothing in the database.
BeginOperation(r) ==
    /\ scoped[r].at = "begin"
    /\ IF context = NoContext THEN Answer(r, "leave", "failure") ELSE MoveTo(r, "await")
    /\ ContextKept

\* The callback gets the venue the field holds now; if the field was cleared,
\* reading it throws, and throws again in the catch.
RunOperation(r) ==
    /\ scoped[r].at = "await"
    /\ IF context = NoContext THEN Answer(r, "leave", "thrown")
       ELSE Move(r, [scoped[r] EXCEPT !.at = "settle", !.ran = context])
    /\ ContextKept

\* The field is read once more for the log, after success and after failure.
SettleOperation(r, ok) ==
    /\ scoped[r].at = "settle"
    /\ Answer(r, "leave", IF context = NoContext THEN "thrown" ELSE IF ok THEN "success" ELSE "failure")
    /\ ContextKept

\* The other way to run an operation, VenueIsolationService.executeInVenueContext:
\* it makes a context of its own, which no other request can reach, and its
\* database context sets nothing and clears nothing.
OperateInService(r, ok) ==
    /\ scoped[r].at = "set"
    /\ Move(r, [WithContext(scoped[r]) EXCEPT
                 !.at = "answered", !.ran = scoped[r].venue, !.answer = IF ok THEN "success" ELSE "failure"])
    /\ ContextKept

\* The caller may clear the context, or leave it to the next request.
ClearVenueContext(r) ==
    /\ scoped[r].at = "leave"
    /\ context' = NoContext
    /\ MoveTo(r, "answered")
    /\ UNCHANGED <<defaultRole, overtaken>>

Leave(r) ==
    /\ scoped[r].at = "leave"
    /\ MoveTo(r, "answered")
    /\ ContextKept

ScopeNext ==
    \E r \in ScopeRequests :
      \/ \E user \in {Signed, Anonymous}, v \in ScopeVenues \cup {NoContext}, stacked \in BOOLEAN :
           Arrive(r, user, v, stacked)
      \/ CreateVenueContext(r)
      \/ EnforceVenueBoundary(r)
      \/ \E p \in {<<"tickets", "read">>, <<"tickets", "validate">>} :
           RequireVenuePermission(r, p[1], p[2])
      \/ SetVenueContext(r)
      \/ BeginOperation(r)
      \/ RunOperation(r)
      \/ \E ok \in BOOLEAN : SettleOperation(r, ok)
      \/ \E ok \in BOOLEAN : OperateInService(r, ok)
      \/ ClearVenueContext(r)
      \/ Leave(r)

ScopeSpec == ScopeInit /\ [][ScopeNext]_scopeVars

-----------------------------------------------------------------------------
\* An operation runs in its request's venue, or in one that another request
\* set after it had set its own: a context left behind by an earlier request
\* is never used.
StrayVenueWasSetMeanwhile ==
    \A r \in ScopeRequests :
        scoped[r].ran \in {NoContext, scoped[r].venue} \cup overtaken[r]
=============================================================================
