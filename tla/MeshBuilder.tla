---------------------------- MODULE MeshBuilder ----------------------------
(***************************************************************************)
(* What parse_buffer does with the lines of an OBJ file: flat arrays of      *)
(* vertex data and of face indices, and groups and objects as ranges of      *)
(* them. One action per kind of line, one for the end of a buffer and one    *)
(* for the end of the file.                                                 *)
(***************************************************************************)
EXTENDS ObjLines, FlatArrays, SequencesExt

CONSTANTS
    LineLimit,     \* bound of a run: the lines of a file
    BadCorners     \* may a face line have a corner without a vertex number?

ASSUME LineAssumption == LineLimit \in Nat /\ BadCorners \in BOOLEAN

VARIABLES
    pc,              \* "read", "parse" (inside parse_buffer) or "done"
    positions,       \* each with the colour its line gives; the first is the dummy
    texcoords,       \* how many, with the dummy
    normals,         \* how many, with the dummy
    colors,
    face_vertices, face_materials,
    indices,
    materials,       \* names, and whether parse_usemtl made them up
    objects, groups,
    object, group,   \* fastObjData: those of the next face
    material,
    line,
    used,            \* history: the name of the last usemtl line
    firstUse         \* history: the faces before the first usemtl line

vertexData == <<positions, texcoords, normals, colors>>
history == <<used, firstUse>>
faceData == <<face_vertices, face_materials, indices>>
vars == <<pc, vertexData, faceData, materials, objects, groups, object, group,
          material, line, history>>

\* A fastObjGroup; object_default and group_default give it no name.
Group == [name : Objects \cup Groups \cup {NoName}, face_count : Nat,
          face_offset : Nat, index_offset : Nat]
Default == [name |-> NoName, face_count |-> 0, face_offset |-> 0, index_offset |-> 0]

NotYet == -1

Init ==
    /\ pc = "read"
    /\ positions = <<White>> /\ texcoords = 1 /\ normals = 1
    /\ colors = <<>>
    /\ face_vertices = <<>> /\ face_materials = <<>> /\ indices = <<>>
    /\ materials = <<>> /\ objects = <<>> /\ groups = <<>>
    /\ object = Default /\ group = Default
    /\ material = 0
    /\ line = 1
    /\ used = NoName /\ firstUse = NotYet

\* A line of the buffer at hand, or the first of the next one.
NextLine ==
    /\ pc \in {"read", "parse"} /\ line <= LineLimit
    /\ pc' = "parse"
    /\ line' = line + 1

-----------------------------------------------------------------------------

Whites(n) == [k \in 1 .. n |-> White]

\* Variant: the loop runs to the size of positions.
FillAllColors == colors \o Whites(Len(positions) + 1 - Len(colors))

\* "Fill the colors array until it matches the size of the positions array",
\* before the colour of the last position is pushed.
FillColors == colors \o Whites(Len(positions) - Len(colors))

ParseVertex ==
    /\ NextLine
    /\ \E colour \in Colours \cup {White} :
         /\ positions' = Append(positions, colour)
         /\ colors' = IF colour = White THEN colors ELSE Append(FillColors, colour)
    /\ UNCHANGED <<texcoords, normals, faceData, materials, objects, groups,
                   object, group, material, history>>

ParseTexcoord ==
    /\ NextLine
    /\ texcoords' = texcoords + 1
    /\ UNCHANGED <<positions, normals, colors, faceData, materials, objects,
                   groups, object, group, material, history>>

ParseNormal ==
    /\ NextLine
    /\ normals' = normals + 1
    /\ UNCHANGED <<positions, texcoords, colors, faceData, materials, objects,
                   groups, object, group, material, history>>

\* Variants: relative numbers are not resolved; the dummy is not counted.
TakeAsIndex(reference, size) == reference
ResolveWithoutDummy(reference, size) ==
    IF reference < 0 THEN size - 1 + reference ELSE reference

\* An absolute number is an index because of the dummies, a relative one
\* counts back from the size of the array; 0 stays the dummy.
Resolve(reference, size) == IF reference < 0 THEN size + reference ELSE reference

\* The fastObjIndex of a corner.
Index(corner) == [p |-> Resolve(corner.p, Len(positions)),
                  t |-> Resolve(corner.t, texcoords),
                  n |-> Resolve(corner.n, normals)]

\* No relative number reaches behind the first vertex, or the first texture
\* coordinate or normal: the file is well-formed.
WellFormed(corner) ==
    corner.p + Len(positions) > 0 /\ corner.t + texcoords > 0 /\ corner.n + normals > 0

\* The loop over the corners pushes their indices at once. At a corner without
\* a vertex number, a comment behind the face for one, it returns.
ParseFace ==
    /\ NextLine
    /\ \E corners \in FaceLines, bad \in {FALSE, BadCorners} :
         /\ \A c \in DOMAIN corners : WellFormed(corners[c])
         /\ indices' = indices \o [c \in DOMAIN corners |-> Index(corners[c])]
         /\ IF bad
            THEN UNCHANGED <<face_vertices, face_materials, group, object>>
            ELSE /\ face_vertices' = Append(face_vertices, Len(corners))
                 /\ face_materials' = Append(face_materials, material)
                 /\ group' = [group EXCEPT !.face_count = @ + 1]
                 /\ object' = [object EXCEPT !.face_count = @ + 1]
    /\ UNCHANGED <<vertexData, materials, objects, groups, material, history>>

-----------------------------------------------------------------------------

\* Variant: a group without faces is kept.
FlushAlways(list, current) == Append(list, current)

\* "Add object if not empty"
Flush(list, current) == IF current.face_count > 0 THEN Append(list, current) ELSE list

\* Variants: the index offset counts faces; the face offset is not set.
FreshAtFaces(name) == [name |-> name, face_count |-> 0,
                       face_offset |-> Len(face_vertices),
                       index_offset |-> Len(face_vertices)]
FreshAtStart(name) == [Default EXCEPT !.name = name, !.index_offset = Len(indices)]

\* "Reset for more data", and the name of the line.
Fresh(name) == [name |-> name, face_count |-> 0,
                face_offset |-> Len(face_vertices), index_offset |-> Len(indices)]

ParseObject ==
    /\ NextLine
    /\ objects' = Flush(objects, object)
    /\ \E name \in Objects : object' = Fresh(name)
    /\ UNCHANGED <<vertexData, faceData, materials, groups, group, material, history>>

ParseGroup ==
    /\ NextLine
    /\ groups' = Flush(groups, group)
    /\ \E name \in Groups : group' = Fresh(name)
    /\ UNCHANGED <<vertexData, faceData, materials, objects, object, material, history>>

\* Variant: the search stops at any material.
IsNamedNot(k, name) == materials[k].name # name
IsNamed(k, name) == materials[k].name = name

\* The first material of that name, or a fallback behind the others.
ParseUsemtl ==
    /\ NextLine
    /\ \E name \in Materials :
         /\ \/ \E k \in DOMAIN materials :
                 /\ IsNamed(k, name) /\ \A j \in 1 .. k - 1 : ~IsNamed(j, name)
                 /\ material' = k - 1 /\ UNCHANGED materials
            \/ /\ \A k \in DOMAIN materials : ~IsNamed(k, name)
               /\ material' = Len(materials)
               /\ materials' = Append(materials, [name |-> name, fallback |-> TRUE])
         /\ used' = name
    /\ firstUse' = IF firstUse = NotYet THEN Len(face_vertices) ELSE firstUse
    /\ UNCHANGED <<vertexData, faceData, objects, groups, object, group>>

\* The materials of a library go behind those there are. A library that cannot
\* be opened is passed over.
ParseMtllib ==
    /\ NextLine
    /\ \E names \in {<<>>} \cup {<<name>> : name \in Materials} :
         materials' = materials \o
            [k \in DOMAIN names |-> [name |-> names[k], fallback |-> FALSE]]
    /\ UNCHANGED <<vertexData, faceData, objects, groups, object, group, material, history>>

\* Variant: the slots behind the last colour stay empty.
LeaveColors == colors

\* "Fill the remaining slots in the colors array", at the end of parse_buffer.
FillRemaining == IF colors = <<>> THEN colors ELSE FillColors

EndBuffer ==
    /\ pc = "parse"
    /\ colors' = FillRemaining
    /\ pc' = "read"
    /\ UNCHANGED <<positions, texcoords, normals, faceData, materials, objects,
                   groups, object, group, material, line, history>>

\* "Flush final object/group"; the counts of the mesh are the array sizes.
EndFile ==
    /\ pc = "read"
    /\ objects' = Flush(objects, object) /\ object' = Fresh(NoName)
    /\ groups' = Flush(groups, group) /\ group' = Fresh(NoName)
    /\ pc' = "done"
    /\ UNCHANGED <<vertexData, faceData, materials, material, line, history>>

Done == pc = "done" /\ UNCHANGED vars

Next ==
    \/ ParseVertex \/ ParseTexcoord \/ ParseNormal \/ ParseFace
    \/ ParseObject \/ ParseGroup \/ ParseUsemtl \/ ParseMtllib
    \/ EndBuffer \/ EndFile \/ Done

Spec == Init /\ [][Next]_vars

-----------------------------------------------------------------------------

TypeOK ==
    /\ pc \in {"read", "parse", "done"}
    /\ positions \in Seq(Colours \cup {White}) /\ colors \in Seq(Colours \cup {White})
    /\ texcoords \in Nat /\ normals \in Nat
    /\ face_vertices \in Seq(Nat) /\ face_materials \in Seq(Nat)
    /\ indices \in Seq([p : Nat, t : Nat, n : Nat])
    /\ materials \in Seq([name : Materials, fallback : BOOLEAN])
    /\ objects \in Seq(Group) /\ groups \in Seq(Group)
    /\ object \in Group /\ group \in Group
    /\ material \in Nat /\ line \in Nat
    /\ used \in Materials \cup {NoName}
    /\ firstUse \in Nat \cup {NotYet}

\* The finished groups and the current one follow one another without gap or
\* overlap and end with the last face; only the current one may be empty.
Tiles(list, current, faces) ==
    /\ \A k \in 1 .. Len(list) : list[k].face_count > 0
    /\ \A k \in 1 .. Len(list) - 1 :
         list[k + 1].face_offset = list[k].face_offset + list[k].face_count
    /\ list = <<>> => current.face_offset = 0
    /\ list # <<>> =>
         /\ list[1].face_offset = 0
         /\ current.face_offset = list[Len(list)].face_offset + list[Len(list)].face_count
    /\ current.face_offset + current.face_count = faces

\* Objects and groups cut the faces up independently of each other; at the end
\* every face belongs to exactly one of each.
FacesTiled ==
    /\ Tiles(objects, object, Len(face_vertices))
    /\ Tiles(groups, group, Len(face_vertices))
    /\ pc = "done" => object.face_count = 0 /\ group.face_count = 0

\* The colours pushed so far are those of the first positions, and whenever a
\* buffer has been parsed either no position has a colour or every one has.
ColorsAligned ==
    /\ Len(colors) <= Len(positions)
    /\ \A v \in DOMAIN colors : colors[v] = positions[v]
    /\ pc # "parse" /\ (\E v \in DOMAIN positions : positions[v] # White) =>
         Len(colors) = Len(positions)

\* Where LoadGeometry, or any reader of the mesh, finds the corners of a face:
\* behind those of the faces before it.
FirstIndex(f) == Sums(face_vertices)[f - 1]

\* "Index data: one element for each face vertex"
IndexPerFaceVertex == Len(indices) = FirstIndex(Len(face_vertices) + 1)

\* A reader that starts at a group finds the same corners: index_offset is the
\* place of the group's first face.
IndexOffsetsAgree ==
    \A o \in ToSet(objects) \cup ToSet(groups) \cup {object, group} :
        o.index_offset = FirstIndex(o.face_offset + 1)

\* The mesh read back: the corners, object, group and material of each face.
Missing == "missing"
CornersOf(f) == SubSeq(indices, FirstIndex(f) + 1, FirstIndex(f + 1))
NameOf(f, list, current) ==
    LET owners == {o \in ToSet(list) \cup {current} :
                     o.face_offset < f /\ f <= o.face_offset + o.face_count}
    IN  IF owners = {} THEN Missing ELSE (CHOOSE o \in owners : TRUE).name
MaterialName(index) ==
    IF index < Len(materials) THEN materials[index + 1].name ELSE Missing
MaterialOf(f) ==
    IF firstUse = NotYet \/ f <= firstUse THEN NoName ELSE MaterialName(face_materials[f])

Vertices ==
    [v \in 1 .. Len(positions) - 1 |->
        IF v + 1 <= Len(colors) THEN colors[v + 1] ELSE positions[v + 1]]
Faces ==
    [f \in 1 .. Len(face_vertices) |->
        [corners |-> CornersOf(f), object |-> NameOf(f, objects, object),
         group |-> NameOf(f, groups, group), material |-> MaterialOf(f)]]

Mesh == INSTANCE ObjMesh WITH
    vertices <- Vertices,
    texcoords <- texcoords - 1,
    normals <- normals - 1,
    faces <- Faces,
    object <- object.name,
    group <- group.name,
    material <- used,
    ended <- pc = "done"

\* Whoever reads the arrays of the mesh gets the faces that the lines of the
\* file describe: no array runs out of step with another over any sequence of
\* lines.
ObjMeshSpec == Mesh!Spec
=============================================================================
