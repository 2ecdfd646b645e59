SPECIFICATION Spec
CONSTANTS
    Clients = {k1, k2}
    Codes = {c1, c2}
    RefreshTokens = {r1, r2}
    AccessTokens = {a1, a2}
    Slots = {s1, s2}
    CodeTTL = 0
    AccessTTL = 1
    MaxTime = 2
    SavesFail = FALSE
    NoEntry = NoEntry
    Damaged = Damaged
SYMMETRY Symmetry
INVARIANT
    AnsweredSessionsAreDurable
