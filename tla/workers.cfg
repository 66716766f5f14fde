SPECIFICATION Spec
CONSTANTS
    u1 = u1
    u2 = u2
    live = live
    p1 = p1
    p2 = p2
    Nobody = Nobody
    User = {u1, u2}
    Account = {live, p1, p2}
    Owner <- MCOwner
    Paper = {p1, p2}
    Balance <- MCBalance
    Row = {row}
    Retention = 1
    MaxQueued = 1
INVARIANTS TypeOK EngineOfThisLoop FailuresAreIsolated
PROPERTY OldRowsGo
