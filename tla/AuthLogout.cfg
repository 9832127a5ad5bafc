SPECIFICATION Spec
CONSTANTS
    Pages = {p1}
    Calls = {c1, c2}
    Tokens = {t1}
    Secure = TRUE
    Faults = {}
    None = None
SYMMETRY Symmetry
INVARIANT LogoutRevokes
