\* Every mixture of six lines of any kind, cut into buffers anywhere.
SPECIFICATION Spec
CONSTANTS
    Colours = {red, blue}
    White = white
    Objects = {o1}
    Groups = {g1}
    Materials = {m1, m2}
    NoName = none
    FaceLines <- MCFaceLines
    LineLimit = 6
    BadCorners = FALSE
SYMMETRY Symmetry
INVARIANTS
    TypeOK
    FacesTiled
    IndexOffsetsAgree
    ColorsAligned
PROPERTIES
    ObjMeshSpec
