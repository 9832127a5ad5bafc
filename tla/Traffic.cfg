SPECIFICATION FairSpec
CONSTANTS
    Users = {u1, u2}
    MaxRequests = 3
    MaxStarts = 1
    Faults = {"db", "stop", "crash"}
INVARIANTS TypeOK NoDoubleCount StopPersists
PROPERTIES LostOnlyAtExit RecordedIsPersisted
