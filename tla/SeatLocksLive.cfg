SPECIFICATION FairSpec
CONSTANTS
    s1 = s1
    s2 = s2
    alice = alice
    bob = bob
    Free = Free
    Seats <- MCSeats
    Owners <- MCOwners
    Versions <- MCVersions
    MaxTTL = 2
    Calls = {c1, c2}
    Requests <- MCFewRequests
    MaxLate = 5
    Restarts = TRUE
    OwnerPattern <- MCOwnerPattern
INVARIANT AttemptsBoundCopies
PROPERTIES
    CallsReturn
    SeatsComeBack
CHECK_DEADLOCK FALSE
