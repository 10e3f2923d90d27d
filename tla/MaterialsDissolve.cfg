\* A Tr line behind the d line of another material.
SPECIFICATION Spec
CONSTANTS
    Names = {m1, m2}
    NoName = none
    Attributes = {Kd}
    Values = {red}
    Unset = unset
    One = 3
    Opacities = {1}
    LineLimit = 5
INVARIANT TrIgnoredOnlyAfterD
