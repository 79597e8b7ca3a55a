SPECIFICATION PlatformSpec
CONSTANTS
    a1 = a1
    a2 = a2
    b1 = b1
    b2 = b2
    k1 = k1
    k2 = k2
    k3 = k3
    LockUsers = {a1, a2}
    LockSeats = {b1, b2}
    LockCalls = {k1, k2, k3}
    MaxExtensions = 1
    MaxToken = 3
    ScopeRequests = {a1, a2}
    ScopeVenues = {"v1", "v2"}
    Signed = Signed
    Anonymous = Anonymous
    Scans = {a1, a2}
    GateTickets = {t1}
    GateProcesses = {p1, p2}
    MaxKeys = 1
    BusEvents = {e1}
    Handlers = {a1, a2}
    RetrySweeps = {b1, b2}
    Publishers = {p1}
    MaxRetries = 1
    MaxItems = 3
    Runners = {a1, a2}
    Versions = {1, 2, 3}
    Repeatable = {1, 2}
    SelfCommitting = {2}
    Reversible = {1, 2, 3}
    MaxStamp = 5
    MapVersions = {a1, a2}
    MapEvents = {e1}
    MapCalls = {k1, k2, k3}
    MaxFailures = 1
SYMMETRY PlatformSymmetry
INVARIANTS
    PlatformTypeOK
    ExtensionsWithinLimit
    StrayVenueWasSetMeanwhile
    NoLaterRedemption
    SignatureSurvivesRotation
    FailedEventsAreRetried
    RecordedMeansApplied
    PublishedUnlessInterrupted
    StaleMapsComeFromRaces
PROPERTIES
    ReplacedOnlyByOldHolder
CHECK_DEADLOCK FALSE
