SPECIFICATION FairSpec
CONSTANTS
    Requests = {r1, r2}
    QueueCapacity = 1
    DownCapacity = 3
    UpCapacity = 1
    MaxConcurrent = 1
    MaxStreams = 2
    MaxResponses = 1
    BodyLimit = 1
    MaxChunks = 0
    MaxPings = 1
    None = None
PROPERTY EveryRequestAnswered
