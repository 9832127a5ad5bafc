SPECIFICATION Spec
CONSTANTS
    Pages = {p1, p2}
    Calls = {c1, c2, c3}
    Tokens = {t1, t2, t3}
    Secure = FALSE
    Faults = {"db", "lost"}
    None = None
SYMMETRY Symmetry
INVARIANTS TypeOK ExchangedIsRevoked CookieIsUsable
