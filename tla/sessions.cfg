SPECIFICATION Spec
CONSTANTS
    Token = {t1, t2}
    Req = {r1, r2}
    RefreshLife = 5
    MaxGeneration = 2
    NoToken = NoToken
SYMMETRY Symmetry
INVARIANTS TypeOK LoyalClientStaysIn
PROPERTIES ReplayRefused ReuseDropsSessions
