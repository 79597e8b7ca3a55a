SPECIFICATION Spec
CONSTANTS
    s1 = s1
    s2 = s2
    alice = alice
    bob = bob
    r1 = r1
    r2 = r2
    r3 = r3
    h1 = h1
    h2 = h2
    h3 = h3
    Free = Free
    NoToken = NoToken
    NoRequest = NoRequest
    Seats = {s1}
    Owners = {r1, r2, r3}
    RequestIds = {r1, r2, r3}
    Versions = {1}
    Clients = {alice, bob}
    Handlers = {h1, h2, h3}
    OwnerPattern <- RequestPattern
    Ask <- SameBody
    Keys <- AskedBodies
    Responses <- StoredReplies
    MaxFaults = 0
INVARIANT HoldIsTheClients
CHECK_DEADLOCK FALSE
