SPECIFICATION Spec
CONSTANTS
    Origin = {o1, o2}
    Px = p1
    Proxy = {p1}
    Garbage = Garbage
    NoAddress = NoAddress
    Unknown = Unknown
    MaxHops = 2
    TrustedProxies <- Trusted
    Limit = 2
    Window = 1
    MaxAttempts = 2
    Lockout = 2
    MaxFailures = 4
    Attempt = {a1, a2}
INVARIANTS TypeOK OwnQuota GuessesBounded
PROPERTY LockoutEnds
