------------------------------ MODULE ObjLines ------------------------------
(***************************************************************************)
(* The lines of OBJ files that a run considers.                             *)
(***************************************************************************)
EXTENDS Integers, Sequences

CONSTANTS
    Colours,     \* colours that v lines give
    White,       \* the colour of a vertex that gives none
    Objects,     \* names of o lines
    Groups,      \* names of g lines
    Materials,   \* names of usemtl lines and of the materials of libraries
    NoName,      \* the name in force before the first of these lines
    FaceLines    \* the corners of f lines

\* The integers of a corner v/t/n as parse_int leaves them; t and n are 0 where
\* they are left out.
Corner == [p : Int \ {0}, t : Int, n : Int]

ASSUME ColourAssumption == White \notin Colours
ASSUME NameAssumption == NoName \notin Objects \cup Groups \cup Materials
ASSUME FaceAssumption == \A corners \in FaceLines : corners \in Seq(Corner)
=============================================================================
