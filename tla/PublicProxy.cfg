SPECIFICATION Spec
CONSTANTS
    Requests = {r1, r2}
    Sessions = {s1, s2}
    Subdomains = {d1}
    QueueCapacity = 1
    WireCapacity = 1
    MaxStreams = 2
    MaxBodyChunks = 0
    None = None
SYMMETRY Symmetry
INVARIANTS TypeOK NoOrphanedWaiter SendersNeverBlock PendingHasHandler RoutesHaveOwners SessionsCounted
PROPERTY ImplementsContract
