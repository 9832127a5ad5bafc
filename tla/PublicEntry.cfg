SPECIFICATION EntrySpec
CONSTANTS
    Calls = {c1, c2, c3, c4, c5}
    Tunnels = {t1, t2}
    Clients = {x1}
    Proxy = None
    Other = other
    Keys <- MCKeys
    Limit = 2
    Window = 3
    MaxDelay = 1
    MaxTime = 5
    None = None
    XForwarded = {"X-Forwarded-For", "X-Forwarded-Host", "X-Forwarded-Proto"}
    Values = {v}
    Origins = {o1, o2}
    AllowedOrigins = {o1}
SYMMETRY Symmetry
INVARIANTS EntryTypeOK ClientAtMostTwice OthersUnaffected
