SPECIFICATION Spec
CONSTANTS
    Req = {r1, r2}
    PolicyChanges = TRUE
INVARIANT CanceledIsNotOpen
