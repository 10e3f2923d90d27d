\* Meshes of up to four faces with no corner, as a line "f" gives it, to five
\* corners: up to 36 indices, where a uint16_t of the run counts to 15.
SPECIFICATION Spec
CONSTANTS
    Uint16Modulus = 16
    Uint32Modulus = 64
    CornerCounts = {0, 1, 2, 3, 4, 5}
    FaceLimit = 4
    Builds = {"Debug", "Release"}
INVARIANTS
    TypeOK
    DrawsTheFan
    WritesInBounds
    CountsAgree
    IInv
