SPECIFICATION BackOfficeSpec
CONSTANTS
    AccountIds = {v1, v2}
    Slugs = {hamilton}
    Creations = {n1, n2}
    StaffLimits = {0, 2}
    Fees <- MCFees
    Discounts <- MCDiscounts
    ContactIds = {k1, k2}
    Usage = 2
    DeskVenues = {"v1", "v2"}
    DeskUsers = {ann}
    DeskCalls = {d1, d2}
    Slots = {0, 1, 2, 3}
    Window = 1
    Tickets = {"t1", "t2"}
    TicketVenue <- MCTicketVenue
    MaxDeskFaults = 1
    Administrators = {root, eve}
    SuperOnly = {manage}
    Shared = {read, export}
SYMMETRY DeskSymmetry
INVARIANTS
    BackOfficeTypeOK
    ClashesAreRaces
    UsageIsPricedInBounds
    NoLaterConflict
    NoLaterEntry
PROPERTIES
    StatusFollowsTheTable
    
CHECK_DEADLOCK FALSE
