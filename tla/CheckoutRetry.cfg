SPECIFICATION Spec
CONSTANTS
    s1 = s1
    s2 = s2
    alice = alice
    bob = bob
    k1 = k1
    k2 = k2
    h1 = h1
    h2 = h2
    h3 = h3
    r1 = r1
    r2 = r2
    Free = Free
    NoOrder = NoOrder
    NoToken = NoToken
    Seats = {s1}
    Owners = {alice, bob}
    Versions = {1}
    Keys = {k1, k2}
    RequestIds = {r1, r2}
    Handlers = {h1, h2, h3}
    Responses = {h1, h2, h3}
    Ask <- Retry
    Workers = {w1}
    PlainTables = {"public"}
    OwnerPattern <- BuyerPattern
    MaxFaults = 2
    MaxDeclines = 0
INVARIANTS
    OneLiveOrderPerKey
    AnswersAreCommitted
CHECK_DEADLOCK FALSE
