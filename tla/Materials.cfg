\* Every mixture of seven lines of an OBJ file and its libraries.
SPECIFICATION Spec
CONSTANTS
    Names = {m1, m2}
    NoName = none
    Attributes = {Kd, map_Kd}
    Values = {red}
    Unset = unset
    One = 3
    Opacities = {1}
    LineLimit = 7
INVARIANTS
    TypeOK
    FallbackOnlyIfMissing
    MaterialInForce
    MaterialsAsDescribed
