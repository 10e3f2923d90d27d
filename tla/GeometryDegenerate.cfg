\* A face with a single corner, as an OBJ line "f 1" gives it.
SPECIFICATION Spec
CONSTANTS
    Uint16Modulus = 16
    Uint32Modulus = 64
    CornerCounts = {1, 3}
    FaceLimit = 2
    Builds = {"Debug"}
INVARIANTS
    IndexAssert
