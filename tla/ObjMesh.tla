------------------------------ MODULE ObjMesh ------------------------------
(***************************************************************************)
(* What the lines of an OBJ file say: a list of vertices and a list of      *)
(* faces, each with its own corners and with the object, the group and the  *)
(* material in force at its line.                                           *)
(***************************************************************************)
EXTENDS ObjLines

VARIABLES
    vertices,            \* the colour of each vertex
    texcoords, normals,  \* how many there are
    faces,               \* in the order of the file
    object, group, material,
    ended

vars == <<vertices, texcoords, normals, faces, object, group, material, ended>>

Init ==
    /\ vertices = <<>> /\ texcoords = 0 /\ normals = 0
    /\ faces = <<>>
    /\ object = NoName /\ group = NoName /\ material = NoName
    /\ ended = FALSE

Vertex ==
    /\ \E colour \in Colours \cup {White} : vertices' = Append(vertices, colour)
    /\ UNCHANGED <<texcoords, normals, faces, object, group, material>>

TexcoordOrNormal ==
    /\ \/ texcoords' = texcoords + 1 /\ UNCHANGED normals
       \/ normals' = normals + 1 /\ UNCHANGED texcoords
    /\ UNCHANGED <<vertices, faces, object, group, material>>

\* -k is the last but k - 1 of those there are so far.
Meaning(reference, have) == IF reference < 0 THEN have + 1 + reference ELSE reference

Meant(corner) == [p |-> Meaning(corner.p, Len(vertices)),
                  t |-> Meaning(corner.t, texcoords),
                  n |-> Meaning(corner.n, normals)]

Face ==
    /\ \E line \in FaceLines :
         faces' = Append(faces, [corners |-> [c \in DOMAIN line |-> Meant(line[c])],
                                 object |-> object, group |-> group,
                                 material |-> material])
    /\ UNCHANGED <<vertices, texcoords, normals, object, group, material>>

SetName ==
    /\ \/ object' \in Objects /\ UNCHANGED <<group, material>>
       \/ group' \in Groups /\ UNCHANGED <<object, material>>
       \/ material' \in Materials /\ UNCHANGED <<object, group>>
    /\ UNCHANGED <<vertices, texcoords, normals, faces>>

Line == ~ended /\ (Vertex \/ TexcoordOrNormal \/ Face \/ SetName) /\ UNCHANGED ended

End ==
    /\ ended' = TRUE
    /\ object' = NoName /\ group' = NoName
    /\ UNCHANGED <<vertices, texcoords, normals, faces, material>>

Next == Line \/ End

Spec == Init /\ [][Next]_vars
=============================================================================
