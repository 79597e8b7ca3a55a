------------------------------ MODULE VenueDesk ------------------------------
(***************************************************************************)
(* What runs a venue day by day: ProvisionVenueAdmin, ManageVenueShows and *)
(* ValidateVenueTickets over the repositories behind their ports.  Each    *)
(* call is a chain of awaited reads and one or two writes, and what a read *)
(* found may be stale when the write is made; every await is a step here.  *)
(* A lookup that fails is taken for one that found nothing.                *)
(***************************************************************************)
EXTENDS Integers, FiniteSets

CONSTANTS
    DeskVenues, DeskUsers,
    DeskCalls,          \* calls of the three use cases, each made once
    Slots,              \* times performances can be scheduled for
    Window,             \* slots that make up four hours
    Tickets, TicketVenue(_),
    MaxDeskFaults       \* bound: failed lookups and writes

ASSUME DeskAssumption == MaxDeskFaults \in Nat

VARIABLES
    operational,    \* venues whose account is active
    deskUser,       \* identity users: unknown, without a venue, or of a venue
    staff,          \* venue_staff, unique per user and venue
    performances,   \* calls whose performance was created
    entries,        \* calls whose validation was recorded as valid
    marked,         \* tickets marked validated in the booking system
    deskCall,
    deskFaults

deskVars ==
    <<operational, deskUser, staff, performances, entries, marked, deskCall, deskFaults>>

Unknown == "unknown"
NoVenue == "no venue"

Rights == {"create", "validate"}
NoStaff == [status |-> "none", rights |-> {}]
StaffRecord ==
    [status : {"pending", "active", "suspended", "terminated"}, rights : SUBSET Rights]

IdleDesk == [at |-> "idle"]

DeskTypeOK ==
    /\ operational \subseteq DeskVenues
    /\ deskUser \in [DeskUsers -> DeskVenues \cup {Unknown, NoVenue}]
    /\ staff \in [DeskUsers \X DeskVenues -> StaffRecord \cup {NoStaff}]
    /\ performances \cup entries \subseteq DeskCalls
    /\ marked \subseteq Tickets
    /\ \A c \in DeskCalls : deskCall[c].at \in
         {"idle", "venue", "user", "associate", "enroll", "staff", "hire", "access",
          "show", "conflict", "schedule", "code", "duplicate", "record", "mark",
          "refused", "done"}
    /\ deskFaults \in 0..MaxDeskFaults

DeskInit ==
    /\ operational \in SUBSET DeskVenues
    /\ deskUser \in [DeskUsers -> DeskVenues \cup {Unknown, NoVenue}]
    /\ staff \in [DeskUsers \X DeskVenues -> {NoStaff, [status |-> "active", rights |-> Rights]}]
    /\ performances = {} /\ entries = {} /\ marked = {}
    /\ deskCall = [c \in DeskCalls |-> IdleDesk]
    /\ deskFaults = 0

-----------------------------------------------------------------------------
(* Steps of a call *)

At(c, at) == deskCall[c].at = at
Done(c) == At(c, "done")

Proceed(c, at) == deskCall' = [deskCall EXCEPT ![c].at = at]
ProceedIf(ok, c, at) == Proceed(c, IF ok THEN at ELSE "refused")

Unwritten ==
    UNCHANGED <<operational, deskUser, staff, performances, entries, marked>>

\* A lookup either answers or fails, and a failure is one of MaxDeskFaults.
Answered == UNCHANGED deskFaults
Failed == deskFaults < MaxDeskFaults /\ deskFaults' = deskFaults + 1

\* A call begins; before remembers the calls that had succeeded by then, and
\* blind whether the one lookup that matters failed.
Begin(c, call) ==
    /\ At(c, "idle")
    /\ deskCall' = [deskCall EXCEPT ![c] = call]
    /\ Unwritten /\ Answered

Successes == {d \in DeskCalls : Done(d)}

Blindly(c, at) == deskCall' = [deskCall EXCEPT ![c].at = at, ![c].blind = TRUE]

StaffOf(c) == staff[<<deskCall[c].user, deskCall[c].venue>>]

-----------------------------------------------------------------------------
(* ProvisionVenueAdmin *)

AskProvision(c, u, v, rights) ==
    Begin(c, [at |-> "venue", before |-> Successes, blind |-> FALSE,
              user |-> u, venue |-> v, rights |-> rights])

\* findById of the venue, whose account must be active at this moment.
ReadVenue(c) ==
    /\ At(c, "venue")
    /\ ProceedIf(deskCall[c].venue \in operational, c, "user")
    /\ Unwritten /\ Answered

\* findByEmail; a failed lookup leads to creating the user.
FindUser(c) ==
    /\ At(c, "user")
    /\ \/ Answered /\ Proceed(c, CASE deskUser[deskCall[c].user] = Unknown -> "enroll"
                                   [] deskUser[deskCall[c].user] = NoVenue -> "associate"
                                   [] OTHER -> "staff")
       \/ Failed /\ Proceed(c, "enroll")
    /\ Unwritten

\* updateVenueAssociation, or create, which an existing user's email prevents.
WriteUser(c) ==
    /\ At(c, "associate") \/ At(c, "enroll")
    /\ LET u == deskCall[c].user
           ok == At(c, "associate") \/ deskUser[u] = Unknown
       IN  /\ deskUser' = IF ok THEN [deskUser EXCEPT ![u] = deskCall[c].venue] ELSE deskUser
           /\ ProceedIf(ok, c, "staff")
    /\ UNCHANGED <<operational, staff, performances, entries, marked>> /\ Answered

CheckStaff(c) ==
    /\ At(c, "staff")
    /\ \/ Answered /\ ProceedIf(StaffOf(c) = NoStaff, c, "hire")
       \/ Failed /\ Proceed(c, "hire")
    /\ Unwritten

\* create: full rights but for those the request turns off.  The table's
\* UNIQUE(user_id, venue_id) refuses a second record.
Hire(c) ==
    /\ At(c, "hire")
    /\ ProceedIf(StaffOf(c) = NoStaff, c, "done")
    /\ staff' = IF StaffOf(c) # NoStaff THEN staff
                ELSE [staff EXCEPT ![<<deskCall[c].user, deskCall[c].venue>>] =
                        [status |-> "active", rights |-> deskCall[c].rights]]
    /\ UNCHANGED <<operational, deskUser, performances, entries, marked>> /\ Answered

-----------------------------------------------------------------------------
(* ManageVenueShows.addShowPerformance and ValidateVenueTickets *)

\* A performance must lie ahead; slot 0 is now.
MayBeAdded(slot) == slot > 0

AskPerformance(c, u, v, slot, owner) ==
    /\ MayBeAdded(slot)
    /\ Begin(c, [at |-> "access", before |-> Successes, blind |-> FALSE,
                 user |-> u, venue |-> v, right |-> "create", slot |-> slot, owner |-> owner])

AskValidation(c, u, v, t) ==
    Begin(c, [at |-> "access", before |-> Successes, blind |-> FALSE,
              user |-> u, venue |-> v, right |-> "validate", ticket |-> t])

\* verifyVenueAccess and verifyValidatorPermissions; getVenueShows is this
\* check and a read.
CheckAccess(c) ==
    /\ At(c, "access")
    /\ ProceedIf(/\ StaffOf(c).status = "active"
                 /\ deskCall[c].right \in StaffOf(c).rights,
                 c, IF deskCall[c].right = "create" THEN "show" ELSE "code")
    /\ Unwritten /\ Answered

CheckShow(c) ==
    /\ At(c, "show")
    /\ ProceedIf(deskCall[c].owner = deskCall[c].venue, c, "conflict")
    /\ Unwritten /\ Answered

\* A slip: the window looks ahead only.
ConflictsAhead(c, d) ==
    deskCall[d].venue = deskCall[c].venue /\ deskCall[d].slot - deskCall[c].slot \in 0..Window

Conflicts(c, d) ==
    /\ deskCall[d].venue = deskCall[c].venue
    /\ deskCall[d].slot - deskCall[c].slot \in (-Window)..Window

CheckConflicts(c) ==
    /\ At(c, "conflict")
    /\ \/ Answered /\ ProceedIf(\A d \in performances : ~Conflicts(c, d), c, "schedule")
       \/ Failed /\ Blindly(c, "schedule")
    /\ Unwritten

Schedule(c) ==
    /\ At(c, "schedule")
    /\ performances' = performances \cup {c}
    /\ Proceed(c, "done")
    /\ UNCHANGED <<operational, deskUser, staff, entries, marked>> /\ Answered

\* validateQRCode: the venue must match; signatures always pass and expiresAt
\* is not looked at.  The refused attempt is recorded too, as invalid.
ReadCode(c) ==
    /\ At(c, "code")
    /\ ProceedIf(TicketVenue(deskCall[c].ticket) = deskCall[c].venue, c, "duplicate")
    /\ Unwritten /\ Answered

\* A slip: only the booking system's mark is asked, which may never be set.
EnteredByMark(t, v) == t \in marked

EnteredBefore(t, v) == \E d \in entries : deskCall[d].ticket = t /\ deskCall[d].venue = v

\* isTicketAlreadyValidated
CheckDuplicate(c) ==
    /\ At(c, "duplicate")
    /\ \/ /\ Answered
          /\ ProceedIf(~EnteredBefore(deskCall[c].ticket, deskCall[c].venue), c, "record")
       \/ Failed /\ Blindly(c, "record")
    /\ Unwritten

\* recordValidation
Record(c) ==
    /\ At(c, "record")
    /\ entries' = entries \cup {c}
    /\ Proceed(c, "mark")
    /\ UNCHANGED <<operational, deskUser, staff, performances, marked>> /\ Answered

\* markTicketValidated, whose result nobody looks at.
Mark(c) ==
    /\ At(c, "mark")
    /\ \/ marked' = marked \cup {deskCall[c].ticket} /\ Answered
       \/ UNCHANGED marked /\ Failed
    /\ Proceed(c, "done")
    /\ UNCHANGED <<operational, deskUser, staff, performances, entries>>

\* An awaited read or write throws, or answers with a failure that is not
\* swallowed: the use case reports one and stops.
BreakOff(c) ==
    /\ deskCall[c].at \notin {"idle", "mark", "refused", "done"}
    /\ Proceed(c, "refused")
    /\ Unwritten /\ Failed

\* Meanwhile accounts are activated and suspended, staff too.
SwitchVenue(v) ==
    /\ operational' = IF v \in operational THEN operational \ {v} ELSE operational \cup {v}
    /\ UNCHANGED <<deskUser, staff, performances, entries, marked, deskCall, deskFaults>>

UpdateStaff(u, v, status) ==
    /\ staff[<<u, v>>] # NoStaff
    /\ staff' = [staff EXCEPT ![<<u, v>>].status = status]
    /\ UNCHANGED <<operational, deskUser, performances, entries, marked, deskCall, deskFaults>>

DeskNext ==
    \/ \E c \in DeskCalls :
         \/ \E u \in DeskUsers, v \in DeskVenues :
              \/ \E rights \in SUBSET Rights : AskProvision(c, u, v, rights)
              \/ \E slot \in Slots, owner \in DeskVenues : AskPerformance(c, u, v, slot, owner)
              \/ \E t \in Tickets : AskValidation(c, u, v, t)
         \/ ReadVenue(c) \/ FindUser(c) \/ WriteUser(c) \/ CheckStaff(c) \/ Hire(c)
         \/ CheckAccess(c)
         \/ CheckShow(c) \/ CheckConflicts(c) \/ Schedule(c)
         \/ ReadCode(c) \/ CheckDuplicate(c) \/ Record(c) \/ Mark(c)
         \/ BreakOff(c)
    \/ \E v \in DeskVenues : SwitchVenue(v)
    \/ \E u \in DeskUsers, v \in DeskVenues, st \in {"active", "suspended"} : UpdateStaff(u, v, st)

DeskSpec == DeskInit /\ [][DeskNext]_deskVars

-----------------------------------------------------------------------------
\* Two performances of a venue lie within four hours of each other only if
\* they were being added at the same time or the conflict lookup failed: a
\* later request that looks does not get past an earlier success.
NoLaterConflict ==
    \A c, d \in performances :
        /\ c # d /\ c \in deskCall[d].before
        /\ deskCall[c].venue = deskCall[d].venue
        /\ deskCall[c].slot - deskCall[d].slot \in (-Window)..Window
        => deskCall[d].blind

\* A ticket that was let in at a venue is not let in again by a scan that
\* begins later, unless the lookup for the first entry failed.
NoLaterEntry ==
    \A c, d \in entries :
        /\ c # d /\ c \in deskCall[d].before
        /\ deskCall[c].ticket = deskCall[d].ticket
        /\ deskCall[c].venue = deskCall[d].venue
        => deskCall[d].blind
=============================================================================
