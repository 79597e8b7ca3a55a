SPECIFICATION Spec
CONSTANTS
    s1 = s1
    s2 = s2
    alice = alice
    bob = bob
    Free = Free
    Seats <- MCSeats
    Owners <- MCOwners
    Versions <- MCVersions
    MaxTTL = 2
    Calls = {c1, c2}
    Requests <- MCFewRequests
    MaxLate = 1
    Restarts = FALSE
    OwnerPattern <- MCOwnerPattern
PROPERTY HeldSeatsAreRefused
CHECK_DEADLOCK FALSE
