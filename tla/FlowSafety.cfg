SPECIFICATION Spec
CONSTANTS
    Requests = {r1, r2, r3}
    QueueCapacity = 1
    DownCapacity = 1
    UpCapacity = 2
    MaxConcurrent = 2
    MaxStreams = 3
    MaxResponses = 2
    BodyLimit = 1
    MaxChunks = 1
    MaxPings = 1
    None = None
SYMMETRY Symmetry
INVARIANTS TypeOK NoProtocolError OwnAnswer NotLost OnlyWedged
