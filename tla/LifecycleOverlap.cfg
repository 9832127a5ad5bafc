\* One process whose sessions overlap: the gateway is slow to find a connection closed.
SPECIFICATION FairAgents
CONSTANTS
    Processes = {p1}
    Sessions = {s1, s2, s3}
    Agents = {a1}
    Tokens = {k1}
    Addresses = {x1}
    Tunnels = {t1, t2, t3}
    Revocable = {}
    Faults = {}
    None = None
INVARIANT OfflineWhenDisconnected
PROPERTIES SubdomainIsKept StopTakesOffline ReconnectReopens
