SPECIFICATION Spec
CONSTANTS
    Req = {r1, r2}
    Secret = {s1, s2}
    ValidWindow = 1
    MaxStep = 1
    None = None
SYMMETRY Symmetry
INVARIANT EnabledIsProven
PROPERTIES SingleUse SecondFactorKept
