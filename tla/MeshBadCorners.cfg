\* A face line with something behind its corners that is no vertex number.
SPECIFICATION Spec
CONSTANTS
    Colours = {red, blue}
    White = white
    Objects = {o1}
    Groups = {g1}
    Materials = {m1, m2}
    NoName = none
    FaceLines <- MCFaceLines
    LineLimit = 4
    BadCorners = TRUE
INVARIANTS
    IndexPerFaceVertex
