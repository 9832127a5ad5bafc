SPECIFICATION Spec
CONSTANTS
    Sessions = {s1, s2, s3}
    Agents = {a1, a2}
    Tokens = {k1}
    Addresses = {x1}
    Tunnels = {t1, t2, t3}
    Revocable = {k1}
    Faults = {"crash", "stop", "db"}
    None = None
SYMMETRY Symmetry
INVARIANTS TypeOK RouteOwner OnlineWhileConnected RouteRowIsOpen ServingIsRouted
