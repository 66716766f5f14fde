SPECIFICATION FairSpec
CONSTANTS
    Call = {c1, c2, c3}
    FailureThreshold = 2
    RecoveryTimeout = 2
INVARIANTS ClosedIffHealthy HalfOpenHasAProbe
PROPERTY Recovers
