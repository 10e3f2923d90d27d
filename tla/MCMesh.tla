------------------------------- MODULE MCMesh -------------------------------
(***************************************************************************)
(* MeshBuilder for TLC: a few faces of each kind. Numbers count from either *)
(* end, attributes are given or left out, faces have no, one or two corners. *)
(***************************************************************************)
EXTENDS MeshBuilder

C(v, vt, vn) == [p |-> v, t |-> vt, n |-> vn]

MCFaceLines == {
    <<>>,                                  \* f
    <<C(1, 0, 0)>>,                        \* f 1
    <<C(2, 0, 0), C(1, 2, 1)>>,            \* f 2 1/2/1
    <<C(-1, 0, 0)>>,                       \* f -1
    <<C(-2, 0, 0), C(1, 0, -1)>>,          \* f -2 1//-1
    <<C(-1, -1, 0), C(-1, 0, 0)>>,         \* f -1/-1 -1
    <<C(1, -2, -1)>>                       \* f 1/-2/-1
}

Symmetry == Permutations(Colours) \cup Permutations(Materials)
=============================================================================
