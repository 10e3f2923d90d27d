------------------------- MODULE MeshBuilderProofs --------------------------
(* Whatever lines a file has, in whatever order: the groups and the objects  *)
(* of a mesh tile its faces, and every colour stays with its position.       *)
EXTENDS MeshBuilder, FlatArraysProofs

USE ColourAssumption, NameAssumption, FaceAssumption, LineAssumption

Colour == Colours \cup {White}
Triple == [p : Nat, t : Nat, n : Nat]
Material == [name : Materials, fallback : BOOLEAN]

\* What is known of the colours between two lines of a buffer as well: once one
\* position has a colour, the array has been started and holds the last of them.
ColorInv ==
    /\ Len(colors) <= Len(positions)
    /\ \A v \in 1 .. Len(colors) : colors[v] = positions[v]
    /\ \A v \in 1 .. Len(positions) : positions[v] # White => v <= Len(colors)
    /\ pc # "parse" => colors = <<>> \/ Len(colors) = Len(positions)

IInv == TypeOK /\ FacesTiled /\ ColorInv

\* ------------------------------------------------------------- sequences

LEMMA AppendFacts ==
    ASSUME NEW S, NEW q \in Seq(S), NEW x \in S
    PROVE  /\ Append(q, x) \in Seq(S) /\ Len(Append(q, x)) = Len(q) + 1
           /\ Len(q) \in Nat
           /\ Append(q, x)[Len(q) + 1] = x
           /\ \A k \in 1 .. Len(q) : Append(q, x)[k] = q[k]
  OBVIOUS

LEMMA ConcatFacts ==
    ASSUME NEW S, NEW q \in Seq(S), NEW r \in Seq(S)
    PROVE  /\ q \o r \in Seq(S) /\ Len(q \o r) = Len(q) + Len(r)
           /\ \A k \in 1 .. Len(q) : (q \o r)[k] = q[k]
           /\ \A k \in Len(q) + 1 .. Len(q) + Len(r) : (q \o r)[k] = r[k - Len(q)]
  OBVIOUS

\* ---------------------------------------------------------------- ranges

LEMMA FlushTiles ==
    ASSUME NEW list \in Seq(Group), NEW current \in Group, NEW n \in Nat,
           NEW fresh \in Group, Tiles(list, current, n),
           fresh.face_offset = n, fresh.face_count = 0
    PROVE  /\ Flush(list, current) \in Seq(Group)
           /\ Tiles(Flush(list, current), fresh, n)
<1>1. current.face_count \in Nat /\ current.face_offset \in Nat
  BY DEF Group
<1>2. CASE current.face_count > 0
  <2> DEFINE longer == Append(list, current)
  <2>1. Flush(list, current) = longer
    BY <1>2 DEF Flush
  <2>2. /\ longer \in Seq(Group) /\ Len(longer) = Len(list) + 1 /\ Len(list) \in Nat
        /\ longer[Len(list) + 1] = current
        /\ \A k \in 1 .. Len(list) : longer[k] = list[k]
    OBVIOUS
  <2>3. longer # <<>>
    <3>1. Len(longer) # 0
      BY <2>2
    <3> QED
      BY <3>1
  <2> HIDE DEF longer
  <2>4. \A k \in 1 .. Len(longer) : longer[k].face_count > 0
    <3>1. SUFFICES ASSUME NEW k \in 1 .. Len(list) + 1 PROVE longer[k].face_count > 0
      BY <2>2
    <3>2. CASE k = Len(list) + 1
      BY <1>2, <2>2, <3>2
    <3>3. CASE k \in 1 .. Len(list)
      BY <2>2, <3>3 DEF Tiles
    <3> QED
      BY <2>2, <3>2, <3>3
  <2>5. \A k \in 1 .. Len(longer) - 1 :
           longer[k + 1].face_offset = longer[k].face_offset + longer[k].face_count
    <3>1. SUFFICES ASSUME NEW k \in 1 .. Len(list)
                   PROVE  longer[k + 1].face_offset
                            = longer[k].face_offset + longer[k].face_count
      BY <2>2
    <3>2. CASE k = Len(list)
      <4>1. list # <<>> /\ longer[k] = list[k] /\ longer[k + 1] = current
        BY <2>2, <3>2
      <4> QED
        BY <3>2, <4>1 DEF Tiles
    <3>3. CASE k \in 1 .. Len(list) - 1
      <4>1. longer[k] = list[k] /\ longer[k + 1] = list[k + 1]
        BY <2>2, <3>3
      <4> QED
        BY <3>3, <4>1 DEF Tiles
    <3> QED
      BY <2>2, <3>2, <3>3
  <2>6. longer[1].face_offset = 0
    <3>1. CASE list = <<>>
      BY <2>2, <3>1 DEF Tiles
    <3>2. CASE list # <<>>
      <4>1. 1 \in 1 .. Len(list)
        BY <3>2
      <4> QED
        BY <2>2, <3>2, <4>1 DEF Tiles
    <3> QED
      BY <3>1, <3>2
  <2>7. fresh.face_offset = longer[Len(longer)].face_offset + longer[Len(longer)].face_count
    BY <2>2 DEF Tiles
  <2> QED
    BY <2>1, <2>2, <2>3, <2>4, <2>5, <2>6, <2>7 DEF Tiles
<1>3. CASE ~(current.face_count > 0)
  <2>1. current.face_count = 0 /\ current.face_offset = n
    BY <1>1, <1>3 DEF Tiles
  <2> QED
    BY <1>3, <2>1 DEF Flush, Tiles
<1> QED
  BY <1>2, <1>3

LEMMA GrowTiles ==
    ASSUME NEW list \in Seq(Group), NEW current \in Group, NEW n \in Nat,
           Tiles(list, current, n)
    PROVE  LET more == [current EXCEPT !.face_count = @ + 1]
           IN  more \in Group /\ Tiles(list, more, n + 1)
<1> DEFINE more == [current EXCEPT !.face_count = @ + 1]
<1>1. current.face_count \in Nat /\ current.face_offset \in Nat
  BY DEF Group
<1>2. more.face_offset = current.face_offset /\ more.face_count = current.face_count + 1
  BY DEF Group
<1>3. more \in Group
  <2>1. current.face_count + 1 \in Nat
    BY <1>1
  <2> QED
    BY <2>1 DEF Group
<1>4. more.face_offset + more.face_count = n + 1
  BY <1>1, <1>2 DEF Tiles
<1> HIDE DEF more
<1>5. Tiles(list, more, n + 1)
  BY <1>2, <1>4 DEF Tiles
<1> QED
  BY <1>3, <1>5 DEF more

LEMMA FreshGroup ==
    ASSUME TypeOK, NEW name \in Objects \cup Groups \cup {NoName}
    PROVE  /\ Fresh(name) \in Group
           /\ Fresh(name).face_offset = Len(face_vertices)
           /\ Fresh(name).face_count = 0
<1>1. Len(face_vertices) \in Nat /\ Len(indices) \in Nat
  BY DEF TypeOK
<1> QED
  BY <1>1 DEF Fresh, Group

\* --------------------------------------------------------------- colours

LEMMA FillFacts ==
    ASSUME TypeOK, ColorInv
    PROVE  /\ FillColors \in Seq(Colour) /\ Len(FillColors) = Len(positions)
           /\ \A v \in 1 .. Len(positions) : FillColors[v] = positions[v]
<1> DEFINE n == Len(positions) - Len(colors)
<1>1. /\ colors \in Seq(Colour) /\ positions \in Seq(Colour)
      /\ Len(colors) \in Nat /\ Len(positions) \in Nat /\ n \in Nat
  BY DEF TypeOK, Colour, ColorInv
<1> DEFINE fill == Whites(n)
<1>2. /\ fill \in Seq(Colour) /\ Len(fill) = n
      /\ \A k \in 1 .. n : fill[k] = White
  BY <1>1 DEF Whites, Colour
<1>3. FillColors = colors \o fill
  BY DEF FillColors
<1> HIDE DEF n, fill
<1>4. /\ FillColors \in Seq(Colour) /\ Len(FillColors) = Len(colors) + n
      /\ \A k \in 1 .. Len(colors) : FillColors[k] = colors[k]
      /\ \A k \in Len(colors) + 1 .. Len(colors) + n : FillColors[k] = fill[k - Len(colors)]
  <2> DEFINE both == colors \o fill
  <2>1. /\ both \in Seq(Colour) /\ Len(both) = Len(colors) + Len(fill)
        /\ \A k \in 1 .. Len(colors) : both[k] = colors[k]
        /\ \A k \in Len(colors) + 1 .. Len(colors) + Len(fill) : both[k] = fill[k - Len(colors)]
    BY <1>1, <1>2, ConcatFacts, ZenonT(30)
  <2> HIDE DEF both
  <2>2. FillColors = both
    BY <1>3 DEF both
  <2> QED
    BY <1>2, <2>1, <2>2
<1>5. Len(FillColors) = Len(positions)
  BY <1>1, <1>4 DEF n
<1>6. ASSUME NEW v \in 1 .. Len(positions)
      PROVE  FillColors[v] = positions[v]
  <2>1. CASE v \in 1 .. Len(colors)
    BY <1>4, <2>1 DEF ColorInv
  <2>2. CASE ~(v <= Len(colors))
    <3>1. v \in Len(colors) + 1 .. Len(colors) + n /\ v - Len(colors) \in 1 .. n
      BY <1>1, <2>2 DEF n
    <3>2. FillColors[v] = White
      BY <1>2, <1>4, <3>1
    <3>3. positions[v] = White
      BY <2>2 DEF ColorInv
    <3> QED
      BY <3>2, <3>3
  <2> QED
    BY <1>1, <2>1, <2>2
<1> QED
  BY <1>4, <1>5, <1>6

\* --------------------------------------------------------- initial states

LEMMA InvInit == Init => IInv
<1> SUFFICES ASSUME Init PROVE IInv
  OBVIOUS
<1>1. <<White>> \in Seq(Colour) /\ Len(<<White>>) = 1 /\ <<White>>[1] = White
  BY DEF Colour
<1>2. Default \in Group
  BY DEF Default, Group
<1>3. TypeOK
  BY <1>1, <1>2 DEF Init, TypeOK, Colour, NotYet
<1>4. FacesTiled
  BY DEF Init, FacesTiled, Tiles, Default
<1>5. ColorInv
  BY <1>1 DEF Init, ColorInv
<1> QED
  BY <1>3, <1>4, <1>5 DEF IInv

\* ----------------------------------------------------------------- steps

LEMMA LineType ==
    ASSUME TypeOK, NextLine
    PROVE  pc' \in {"read", "parse", "done"} /\ line' \in Nat
  BY DEF TypeOK, NextLine

\* An action that leaves the faces and their ranges alone keeps the tiling.
LEMMA SameTiles ==
    ASSUME FacesTiled, pc' # "done",
           UNCHANGED <<face_vertices, objects, groups, object, group>>
    PROVE  FacesTiled'
  BY DEF FacesTiled, Tiles

LEMMA SameColors ==
    ASSUME ColorInv, pc' = "parse" \/ pc' = pc, UNCHANGED <<positions, colors>>
    PROVE  ColorInv'
  BY DEF ColorInv

LEMMA InvParseVertex == IInv /\ ParseVertex => IInv'
<1> SUFFICES ASSUME IInv, ParseVertex PROVE IInv'
  OBVIOUS
<1> USE DEF IInv
<1>1. PICK colour \in Colour :
         /\ positions' = Append(positions, colour)
         /\ colors' = IF colour = White THEN colors ELSE Append(FillColors, colour)
  BY DEF ParseVertex, Colour
<1>2. /\ pc' = "parse" /\ line' \in Nat
      /\ UNCHANGED <<texcoords, normals, face_vertices, face_materials, indices, materials,
                     objects, groups, object, group, material, used, firstUse>>
  BY LineType DEF ParseVertex, NextLine, faceData, history
<1>3. positions \in Seq(Colour) /\ colors \in Seq(Colour)
  BY DEF TypeOK, Colour
<1>4. /\ positions' \in Seq(Colour) /\ Len(positions') = Len(positions) + 1
      /\ Len(positions) \in Nat /\ Len(colors) \in Nat
      /\ positions'[Len(positions) + 1] = colour
      /\ \A v \in 1 .. Len(positions) : positions'[v] = positions[v]
  BY <1>1, <1>3, AppendFacts
<1>5. CASE colour = White
  <2>1. colors' = colors
    BY <1>1, <1>5
  <2>2. ColorInv'
    <3>1. Len(colors') <= Len(positions')
      BY <1>4, <2>1 DEF ColorInv
    <3>2. \A v \in 1 .. Len(colors') : colors'[v] = positions'[v]
      BY <1>4, <2>1 DEF ColorInv
    <3>3. ASSUME NEW v \in 1 .. Len(positions'), positions'[v] # White
          PROVE  v <= Len(colors')
      <4>1. v \in 1 .. Len(positions) /\ positions[v] # White
        BY <1>4, <1>5, <3>3
      <4> QED
        BY <2>1, <4>1 DEF ColorInv
    <3> QED
      BY <1>2, <3>1, <3>2, <3>3 DEF ColorInv
  <2>3. TypeOK'
    BY <1>2, <1>3, <1>4, <2>1 DEF TypeOK, Colour
  <2> QED
    BY <1>2, <2>2, <2>3, SameTiles
<1>6. CASE colour # White
  <2>1. colors' = Append(FillColors, colour)
    BY <1>1, <1>6
  <2>2. /\ colors' \in Seq(Colour) /\ Len(colors') = Len(positions')
        /\ colors'[Len(positions) + 1] = colour
        /\ \A v \in 1 .. Len(positions) : colors'[v] = positions[v]
    BY <1>4, <2>1, FillFacts, AppendFacts
  <2>3. \A v \in 1 .. Len(positions') : colors'[v] = positions'[v]
    <3>1. SUFFICES ASSUME NEW v \in 1 .. Len(positions) + 1 PROVE colors'[v] = positions'[v]
      BY <1>4
    <3>2. v = Len(positions) + 1 \/ v \in 1 .. Len(positions)
      BY <1>4
    <3> QED
      BY <1>4, <2>2, <3>2
  <2>4. ColorInv'
    BY <1>2, <1>4, <2>2, <2>3 DEF ColorInv
  <2>5. TypeOK'
    BY <1>2, <1>3, <1>4, <2>2 DEF TypeOK, Colour
  <2> QED
    BY <1>2, <2>4, <2>5, SameTiles
<1> QED
  BY <1>5, <1>6

\* A line that adds to what no face and no colour depends on.
LEMMA InvParseTexcoord == IInv /\ ParseTexcoord => IInv'
<1> SUFFICES ASSUME IInv, ParseTexcoord PROVE IInv'
  OBVIOUS
<1> USE DEF IInv
<1>1. /\ pc' = "parse" /\ line' \in Nat /\ texcoords' = texcoords + 1
      /\ UNCHANGED <<positions, normals, colors, face_vertices, face_materials, indices,
                     materials, objects, groups, object, group, material, used, firstUse>>
  BY LineType DEF ParseTexcoord, NextLine, faceData, history
<1>2. TypeOK'
  BY <1>1 DEF TypeOK
<1> QED
  BY <1>1, <1>2, SameTiles, SameColors

LEMMA InvParseNormal == IInv /\ ParseNormal => IInv'
<1> SUFFICES ASSUME IInv, ParseNormal PROVE IInv'
  OBVIOUS
<1> USE DEF IInv
<1>1. /\ pc' = "parse" /\ line' \in Nat /\ normals' = normals + 1
      /\ UNCHANGED <<positions, texcoords, colors, face_vertices, face_materials, indices,
                     materials, objects, groups, object, group, material, used, firstUse>>
  BY LineType DEF ParseNormal, NextLine, faceData, history
<1>2. TypeOK'
  BY <1>1 DEF TypeOK
<1> QED
  BY <1>1, <1>2, SameTiles, SameColors

LEMMA ResolveType ==
    ASSUME NEW reference \in Int, NEW size \in Nat, reference + size > 0
    PROVE  Resolve(reference, size) \in Nat
  BY DEF Resolve

LEMMA IndexType ==
    ASSUME TypeOK, NEW corner \in Corner, WellFormed(corner)
    PROVE  Index(corner) \in Triple
<1>1. corner.p \in Int /\ corner.t \in Int /\ corner.n \in Int
  BY DEF Corner
<1>2. Len(positions) \in Nat /\ texcoords \in Nat /\ normals \in Nat
  BY DEF TypeOK
<1> QED
  BY <1>1, <1>2, ResolveType DEF WellFormed, Index, Triple

LEMMA InvParseFace == IInv /\ ParseFace => IInv'
<1> SUFFICES ASSUME IInv, ParseFace PROVE IInv'
  OBVIOUS
<1> USE DEF IInv
<1>1. PICK corners \in FaceLines, bad \in {FALSE, BadCorners} :
         /\ \A c \in DOMAIN corners : WellFormed(corners[c])
         /\ indices' = indices \o [c \in DOMAIN corners |-> Index(corners[c])]
         /\ IF bad
            THEN UNCHANGED <<face_vertices, face_materials, group, object>>
            ELSE /\ face_vertices' = Append(face_vertices, Len(corners))
                 /\ face_materials' = Append(face_materials, material)
                 /\ group' = [group EXCEPT !.face_count = @ + 1]
                 /\ object' = [object EXCEPT !.face_count = @ + 1]
  BY DEF ParseFace
<1>2. /\ pc' = "parse" /\ line' \in Nat
      /\ UNCHANGED <<positions, texcoords, normals, colors, materials, objects, groups,
                     material, used, firstUse>>
  BY LineType DEF ParseFace, NextLine, vertexData, history
<1>3. corners \in Seq(Corner)
  BY FaceAssumption
<1>4. PICK n \in Nat : Len(corners) = n /\ DOMAIN corners = 1 .. n
                       /\ \A c \in 1 .. n : corners[c] \in Corner
  BY <1>3
<1>5. indices' \in Seq(Triple)
  <2> DEFINE new == [c \in 1 .. n |-> Index(corners[c])]
  <2>1. \A c \in 1 .. n : Index(corners[c]) \in Triple
    BY <1>1, <1>3, <1>4, IndexType
  <2>2. new \in Seq(Triple)
    BY <1>4, <2>1
  <2>3. indices' = indices \o new /\ indices \in Seq(Triple)
    BY <1>1, <1>4 DEF TypeOK, Triple
  <2> HIDE DEF new
  <2> QED
    BY <2>2, <2>3, ConcatFacts
<1>6. CASE bad
  <2>1. UNCHANGED <<face_vertices, face_materials, group, object>>
    BY <1>1, <1>6
  <2>2. TypeOK'
    BY <1>2, <1>5, <2>1 DEF TypeOK, Triple
  <2> QED
    BY <1>2, <2>1, <2>2, SameTiles, SameColors
<1>7. CASE ~bad
  <2>1. /\ face_vertices' = Append(face_vertices, Len(corners))
        /\ face_materials' = Append(face_materials, material)
        /\ group' = [group EXCEPT !.face_count = @ + 1]
        /\ object' = [object EXCEPT !.face_count = @ + 1]
    BY <1>1, <1>7
  <2>2. /\ face_vertices' \in Seq(Nat) /\ Len(face_vertices') = Len(face_vertices) + 1
        /\ Len(face_vertices) \in Nat /\ face_materials' \in Seq(Nat)
    BY <1>4, <2>1, AppendFacts DEF TypeOK
  <2>3. group' \in Group /\ Tiles(groups, group', Len(face_vertices) + 1)
    BY <2>1, <2>2, GrowTiles DEF TypeOK, FacesTiled
  <2>4. object' \in Group /\ Tiles(objects, object', Len(face_vertices) + 1)
    BY <2>1, <2>2, GrowTiles DEF TypeOK, FacesTiled
  <2>5. TypeOK'
    BY <1>2, <1>5, <2>2, <2>3, <2>4 DEF TypeOK, Triple
  <2>6. FacesTiled'
    BY <1>2, <2>2, <2>3, <2>4 DEF FacesTiled
  <2> QED
    BY <1>2, <2>5, <2>6, SameColors
<1> QED
  BY <1>6, <1>7

LEMMA InvParseObject == IInv /\ ParseObject => IInv'
<1> SUFFICES ASSUME IInv, ParseObject PROVE IInv'
  OBVIOUS
<1> USE DEF IInv
<1>1. PICK name \in Objects : object' = Fresh(name)
  BY DEF ParseObject
<1>2. /\ pc' = "parse" /\ line' \in Nat /\ objects' = Flush(objects, object)
      /\ UNCHANGED <<positions, texcoords, normals, colors, face_vertices, face_materials,
                     indices, materials, groups, group, material, used, firstUse>>
  BY LineType DEF ParseObject, NextLine, vertexData, faceData, history
<1>3. Len(face_vertices) \in Nat
  BY DEF TypeOK
<1>4. /\ object' \in Group /\ objects' \in Seq(Group)
      /\ Tiles(objects', object', Len(face_vertices))
  BY <1>1, <1>2, <1>3, FreshGroup, FlushTiles DEF TypeOK, FacesTiled
<1>5. TypeOK'
  BY <1>2, <1>4 DEF TypeOK
<1>6. FacesTiled'
  BY <1>2, <1>4 DEF FacesTiled
<1> QED
  BY <1>2, <1>5, <1>6, SameColors

LEMMA InvParseGroup == IInv /\ ParseGroup => IInv'
<1> SUFFICES ASSUME IInv, ParseGroup PROVE IInv'
  OBVIOUS
<1> USE DEF IInv
<1>1. PICK name \in Groups : group' = Fresh(name)
  BY DEF ParseGroup
<1>2. /\ pc' = "parse" /\ line' \in Nat /\ groups' = Flush(groups, group)
      /\ UNCHANGED <<positions, texcoords, normals, colors, face_vertices, face_materials,
                     indices, materials, objects, object, material, used, firstUse>>
  BY LineType DEF ParseGroup, NextLine, vertexData, faceData, history
<1>3. Len(face_vertices) \in Nat
  BY DEF TypeOK
<1>4. /\ group' \in Group /\ groups' \in Seq(Group)
      /\ Tiles(groups', group', Len(face_vertices))
  BY <1>1, <1>2, <1>3, FreshGroup, FlushTiles DEF TypeOK, FacesTiled
<1>5. TypeOK'
  BY <1>2, <1>4 DEF TypeOK
<1>6. FacesTiled'
  BY <1>2, <1>4 DEF FacesTiled
<1> QED
  BY <1>2, <1>5, <1>6, SameColors

LEMMA InvParseUsemtl == IInv /\ ParseUsemtl => IInv'
<1> SUFFICES ASSUME IInv, ParseUsemtl PROVE IInv'
  OBVIOUS
<1> USE DEF IInv
<1>1. PICK name \in Materials :
         /\ \/ \E k \in DOMAIN materials : material' = k - 1 /\ UNCHANGED materials
            \/ /\ material' = Len(materials)
               /\ materials' = Append(materials, [name |-> name, fallback |-> TRUE])
         /\ used' = name
  BY DEF ParseUsemtl
<1>2. /\ pc' = "parse" /\ line' \in Nat
      /\ firstUse' = IF firstUse = NotYet THEN Len(face_vertices) ELSE firstUse
      /\ UNCHANGED <<positions, texcoords, normals, colors, face_vertices, face_materials,
                     indices, objects, groups, object, group>>
  BY LineType DEF ParseUsemtl, NextLine, vertexData, faceData
<1>3. material' \in Nat /\ materials' \in Seq(Material)
  <2>1. materials \in Seq(Material) /\ DOMAIN materials = 1 .. Len(materials)
    BY DEF TypeOK, Material
  <2>2. [name |-> name, fallback |-> TRUE] \in Material
    BY DEF Material
  <2> QED
    BY <1>1, <2>1, <2>2, AppendFacts
<1>4. used' \in Materials /\ firstUse' \in Nat \cup {NotYet}
  BY <1>1, <1>2 DEF TypeOK
<1>5. TypeOK'
  BY <1>2, <1>3, <1>4 DEF TypeOK, Material
<1> QED
  BY <1>2, <1>5, SameTiles, SameColors

LEMMA InvParseMtllib == IInv /\ ParseMtllib => IInv'
<1> SUFFICES ASSUME IInv, ParseMtllib PROVE IInv'
  OBVIOUS
<1> USE DEF IInv
<1>1. PICK names \in {<<>>} \cup {<<name>> : name \in Materials} :
         materials' = materials \o
            [k \in DOMAIN names |-> [name |-> names[k], fallback |-> FALSE]]
  BY DEF ParseMtllib
<1>2. /\ pc' = "parse" /\ line' \in Nat
      /\ UNCHANGED <<positions, texcoords, normals, colors, face_vertices, face_materials,
                     indices, objects, groups, object, group, material, used, firstUse>>
  BY LineType DEF ParseMtllib, NextLine, vertexData, faceData, history
<1>3. materials' \in Seq(Material)
  <2> DEFINE new == [k \in DOMAIN names |-> [name |-> names[k], fallback |-> FALSE]]
  <2>1. names = <<>> \/ \E name \in Materials : names = <<name>>
    OBVIOUS
  <2>2. new \in Seq(Material)
    <3>1. CASE names = <<>>
      <4>1. new = <<>>
        BY <3>1
      <4> QED
        BY <4>1
    <3>2. CASE \E name \in Materials : names = <<name>>
      <4>1. PICK name \in Materials : names = <<name>>
        BY <3>2
      <4>2. [name |-> name, fallback |-> FALSE] \in Material
        BY DEF Material
      <4>3. DOMAIN names = 1 .. 1 /\ names[1] = name
        BY <4>1
      <4>4. ASSUME NEW k \in 1 .. 1 PROVE new[k] \in Material
        <5>1. k = 1 /\ k \in DOMAIN names /\ names[k] = name
          BY <4>3
        <5>2. new[k] = [name |-> names[k], fallback |-> FALSE]
          BY <5>1
        <5> QED
          BY <4>2, <5>1, <5>2
      <4> QED
        BY <4>3, <4>4
    <3> QED
      BY <2>1, <3>1, <3>2
  <2>3. materials \in Seq(Material) /\ materials' = materials \o new
    BY <1>1 DEF TypeOK, Material
  <2> HIDE DEF new
  <2> QED
    BY <2>2, <2>3, ConcatFacts
<1>4. TypeOK'
  BY <1>2, <1>3 DEF TypeOK, Material
<1> QED
  BY <1>2, <1>4, SameTiles, SameColors

LEMMA InvEndBuffer == IInv /\ EndBuffer => IInv'
<1> SUFFICES ASSUME IInv, EndBuffer PROVE IInv'
  OBVIOUS
<1> USE DEF IInv
<1>1. /\ pc' = "read" /\ colors' = FillRemaining
      /\ UNCHANGED <<positions, texcoords, normals, face_vertices, face_materials, indices,
                     materials, objects, groups, object, group, material, line, used, firstUse>>
  BY DEF EndBuffer, faceData, history
<1>2. CASE colors = <<>>
  <2>1. UNCHANGED colors /\ colors' = <<>>
    BY <1>1, <1>2 DEF FillRemaining
  <2>2. ColorInv'
    BY <1>1, <2>1 DEF ColorInv
  <2>3. TypeOK'
    BY <1>1, <2>1 DEF TypeOK
  <2> QED
    BY <1>1, <2>2, <2>3, SameTiles
<1>3. CASE colors # <<>>
  <2>1. /\ colors' \in Seq(Colour) /\ Len(colors') = Len(positions')
        /\ \A v \in 1 .. Len(positions') : colors'[v] = positions'[v]
        /\ Len(positions') \in Nat
    BY <1>1, <1>3, FillFacts DEF FillRemaining, TypeOK
  <2>2. ColorInv'
    BY <2>1 DEF ColorInv
  <2>3. TypeOK'
    BY <1>1, <2>1 DEF TypeOK, Colour
  <2> QED
    BY <1>1, <2>2, <2>3, SameTiles
<1> QED
  BY <1>2, <1>3

LEMMA InvEndFile == IInv /\ EndFile => IInv'
<1> SUFFICES ASSUME IInv, EndFile PROVE IInv'
  OBVIOUS
<1> USE DEF IInv
<1>1. /\ pc = "read" /\ pc' = "done"
      /\ objects' = Flush(objects, object) /\ object' = Fresh(NoName)
      /\ groups' = Flush(groups, group) /\ group' = Fresh(NoName)
      /\ UNCHANGED <<positions, texcoords, normals, colors, face_vertices, face_materials,
                     indices, materials, material, line, used, firstUse>>
  BY DEF EndFile, vertexData, faceData, history
<1>2. Len(face_vertices) \in Nat
  BY DEF TypeOK
<1>3. /\ Fresh(NoName) \in Group /\ Fresh(NoName).face_count = 0
      /\ Fresh(NoName).face_offset = Len(face_vertices)
  BY FreshGroup
<1>4. objects' \in Seq(Group) /\ Tiles(objects', object', Len(face_vertices))
  BY <1>1, <1>2, <1>3, FlushTiles DEF TypeOK, FacesTiled
<1>5. groups' \in Seq(Group) /\ Tiles(groups', group', Len(face_vertices))
  BY <1>1, <1>2, <1>3, FlushTiles DEF TypeOK, FacesTiled
<1>6. TypeOK'
  BY <1>1, <1>3, <1>4, <1>5 DEF TypeOK
<1>7. FacesTiled'
  BY <1>1, <1>3, <1>4, <1>5 DEF FacesTiled
<1>8. ColorInv'
  BY <1>1 DEF ColorInv
<1> QED
  BY <1>6, <1>7, <1>8

LEMMA InvStutter == IInv /\ UNCHANGED vars => IInv'
<1> SUFFICES ASSUME IInv, UNCHANGED vars PROVE IInv'
  OBVIOUS
<1> USE DEF IInv
<1>1. UNCHANGED <<pc, positions, texcoords, normals, colors, face_vertices, face_materials,
                  indices, materials, objects, groups, object, group, material, line,
                  used, firstUse>>
  BY DEF vars, vertexData, faceData, history
<1>2. TypeOK'
  BY <1>1 DEF TypeOK
<1>3. FacesTiled'
  BY <1>1 DEF FacesTiled, Tiles
<1>4. ColorInv'
  BY <1>1 DEF ColorInv
<1> QED
  BY <1>2, <1>3, <1>4

\* -------------------------------------------------------------- theorems

\* No sequence of lines and no cut of the file into buffers leaves the
\* invariant: what parse_buffer keeps in fastObjData between two lines is
\* enough to continue with any line.
THEOREM Inductive == Spec => []IInv
<1>1. IInv /\ [Next]_vars => IInv'
  <2> SUFFICES ASSUME IInv, [Next]_vars PROVE IInv'
    OBVIOUS
  <2>1. CASE UNCHANGED vars
    BY <2>1, InvStutter
  <2>2. CASE ParseVertex \/ ParseTexcoord \/ ParseNormal \/ ParseFace
    BY <2>2, InvParseVertex, InvParseTexcoord, InvParseNormal, InvParseFace
  <2>3. CASE ParseObject \/ ParseGroup \/ ParseUsemtl \/ ParseMtllib
    BY <2>3, InvParseObject, InvParseGroup, InvParseUsemtl, InvParseMtllib
  <2>4. CASE EndBuffer \/ EndFile
    BY <2>4, InvEndBuffer, InvEndFile
  <2>5. CASE Done
    BY <2>5, InvStutter DEF Done
  <2> QED
    BY <2>1, <2>2, <2>3, <2>4, <2>5 DEF Next
<1> QED
  BY InvInit, <1>1, PTL DEF Spec

\* The arrays of a mesh under construction keep their types, for any colours,
\* names and references in the lines: no index of a well-formed file is negative.
THEOREM TypeCorrect == Spec => []TypeOK
  BY Inductive, PTL DEF IInv

\* Finished and current groups, and finished and current objects, tile the
\* faces: parse_group, parse_object and the flush at the end of the file lose
\* no face and give none to two groups, for files of any length.
THEOREM FacesTiledTheorem == Spec => []FacesTiled
  BY Inductive, PTL DEF IInv

\* Vertices with and without colours may be mixed in any order and over any
\* number of buffers: the colours that parse_vertex and the end of parse_buffer
\* fill in are those of their positions.
THEOREM ColorsAlignedTheorem == Spec => []ColorsAligned
<1>1. IInv => ColorsAligned
  <2> SUFFICES ASSUME IInv PROVE ColorsAligned
    OBVIOUS
  <2>1. /\ Len(colors) \in Nat /\ Len(positions) \in Nat
        /\ DOMAIN colors = 1 .. Len(colors) /\ DOMAIN positions = 1 .. Len(positions)
    BY DEF IInv, TypeOK
  <2>2. ASSUME pc # "parse", NEW v \in 1 .. Len(positions), positions[v] # White
        PROVE  Len(colors) = Len(positions)
    <3>1. v <= Len(colors)
      BY <2>2 DEF IInv, ColorInv
    <3>2. colors # <<>>
      BY <2>1, <3>1
    <3> QED
      BY <2>2, <3>2 DEF IInv, ColorInv
  <2> QED
    BY <2>1, <2>2 DEF IInv, ColorInv, ColorsAligned
<1> QED
  BY Inductive, <1>1, PTL
-----------------------------------------------------------------------------
(* Where the corners of a face are: for readers that count from the first    *)
(* face and for those that start at a group. A face line with a corner that   *)
(* cannot be read breaks both (MeshBadCorners.cfg), so files without.         *)

\* A range of faces that are there, with the place of the first one's corners.
InPlace(o) ==
    /\ o.face_offset + o.face_count <= Len(face_vertices)
    /\ o.index_offset = Sums(face_vertices)[o.face_offset]

IndexInv ==
    /\ IndexPerFaceVertex
    /\ \A o \in ToSet(objects) \cup {object} : InPlace(o)
    /\ \A o \in ToSet(groups) \cup {group} : InPlace(o)

\* The groups of a list, and what a flush adds to them.
LEMMA FlushSet ==
    ASSUME NEW list \in Seq(Group), NEW current \in Group
    PROVE  /\ ToSet(list) \subseteq Group
           /\ ToSet(Flush(list, current)) =
                 ToSet(list) \cup (IF current.face_count > 0 THEN {current} ELSE {})
<1>1. \A k \in DOMAIN list : list[k] \in Group
  OBVIOUS
<1>2. ASSUME current.face_count > 0
      PROVE  ToSet(Append(list, current)) = ToSet(list) \cup {current}
  <2> DEFINE longer == Append(list, current)
  <2>1. /\ DOMAIN longer = 1 .. Len(list) + 1 /\ DOMAIN list = 1 .. Len(list)
        /\ Len(list) \in Nat /\ longer[Len(list) + 1] = current
        /\ \A k \in 1 .. Len(list) : longer[k] = list[k]
    OBVIOUS
  <2> HIDE DEF longer
  <2>2. \A k \in 1 .. Len(list) + 1 : k = Len(list) + 1 \/ k \in 1 .. Len(list)
    BY <2>1
  <2>3. ToSet(longer) = ToSet(list) \cup {current}
    BY <2>1, <2>2 DEF ToSet
  <2> QED
    BY <2>3 DEF longer
<1> QED
  BY <1>1, <1>2 DEF Flush, ToSet

LEMMA NatsOfGroup ==
    ASSUME NEW o \in Group
    PROVE  o.face_offset \in Nat /\ o.face_count \in Nat
  BY DEF Group

\* A group that begins behind the last face is in place, and a flush keeps the
\* others there.
LEMMA FlushInPlace ==
    ASSUME TypeOK, IndexPerFaceVertex,
           NEW list \in Seq(Group), NEW current \in Group,
           \A o \in ToSet(list) \cup {current} : InPlace(o),
           NEW name \in Objects \cup Groups \cup {NoName}
    PROVE  \A o \in ToSet(Flush(list, current)) \cup {Fresh(name)} : InPlace(o)
<1>1. Len(face_vertices) \in Nat /\ Len(indices) = Sums(face_vertices)[Len(face_vertices)]
  <2>1. Len(face_vertices) \in Nat
    BY DEF TypeOK
  <2> QED
    BY <2>1, (Len(face_vertices) + 1) - 1 = Len(face_vertices) DEF IndexPerFaceVertex, FirstIndex
<1>2. InPlace(Fresh(name))
  BY <1>1 DEF InPlace, Fresh
<1> QED
  BY <1>2, FlushSet

LEMMA IndexInit == Init => IndexInv
<1> SUFFICES ASSUME Init PROVE IndexInv
  OBVIOUS
<1>1. face_vertices = <<>> /\ face_vertices \in Seq(Nat) /\ Len(face_vertices) = 0
  BY DEF Init
<1>2. Sums(face_vertices)[0] = 0
  BY <1>1, SumsFacts
<1>3. IndexPerFaceVertex
  BY <1>1, <1>2 DEF Init, IndexPerFaceVertex, FirstIndex
<1>4. InPlace(Default)
  BY <1>1, <1>2 DEF InPlace, Default
<1>5. ToSet(<<>>) = {}
  BY DEF ToSet
<1> QED
  BY <1>3, <1>4, <1>5 DEF Init, IndexInv

LEMMA IndexSame ==
    ASSUME IndexInv, UNCHANGED <<face_vertices, indices, objects, groups, object, group>>
    PROVE  IndexInv'
  BY DEF IndexInv, IndexPerFaceVertex, FirstIndex, InPlace

LEMMA IndexParseFace == IInv /\ IndexInv /\ BadCorners = FALSE /\ ParseFace => IndexInv'
<1> SUFFICES ASSUME IInv, IndexInv, BadCorners = FALSE, ParseFace PROVE IndexInv'
  OBVIOUS
<1>1. PICK corners \in FaceLines :
         /\ indices' = indices \o [c \in DOMAIN corners |-> Index(corners[c])]
         /\ face_vertices' = Append(face_vertices, Len(corners))
         /\ group' = [group EXCEPT !.face_count = @ + 1]
         /\ object' = [object EXCEPT !.face_count = @ + 1]
  BY DEF ParseFace
<1>2. UNCHANGED <<objects, groups>>
  BY DEF ParseFace
<1>3. PICK m \in Nat : Len(corners) = m /\ DOMAIN corners = 1 .. m
  <2>1. corners \in Seq(Corner)
    BY FaceAssumption
  <2> QED
    BY <2>1
<1> DEFINE n == Len(face_vertices)
<1>4. /\ face_vertices \in Seq(Nat) /\ n \in Nat /\ indices \in Seq(Triple)
      /\ object \in Group /\ group \in Group
      /\ \A o \in ToSet(objects) \cup ToSet(groups) : o \in Group
  BY FlushSet DEF IInv, TypeOK, Triple
<1>5. /\ face_vertices' \in Seq(Nat) /\ Len(face_vertices') = n + 1
      /\ \A k \in 0 .. n : Sums(face_vertices')[k] = Sums(face_vertices)[k]
      /\ Sums(face_vertices')[n + 1] = Sums(face_vertices)[n] + m
  BY <1>1, <1>3, <1>4, SumsAppend
<1>6. Len(indices') = Len(indices) + m
  <2> DEFINE new == [c \in 1 .. m |-> Index(corners[c])]
  <2>1. new \in Seq({Index(corners[c]) : c \in 1 .. m}) /\ Len(new) = m
    OBVIOUS
  <2>2. indices' = indices \o new
    BY <1>1, <1>3
  <2> HIDE DEF new
  <2> QED
    BY <1>4, <2>1, <2>2
<1>7. IndexPerFaceVertex'
  <2>1. Len(indices) = Sums(face_vertices)[n]
    BY <1>4, (n + 1) - 1 = n DEF IndexInv, IndexPerFaceVertex, FirstIndex
  <2>2. Len(indices') = Sums(face_vertices')[n + 1]
    BY <1>5, <1>6, <2>1
  <2> QED
    BY <1>4, <1>5, <2>2, ((n + 1) + 1) - 1 = n + 1 DEF IndexPerFaceVertex, FirstIndex
<1> HIDE DEF n
<1>8. ASSUME NEW o \in Group, InPlace(o) PROVE InPlace(o)'
  <2>1. o.face_offset \in 0 .. n /\ o.face_offset + o.face_count <= n + 1
    BY <1>4, <1>8, NatsOfGroup DEF InPlace, n
  <2> QED
    BY <1>5, <1>8, <2>1 DEF InPlace
<1>9. ASSUME NEW o \in Group, InPlace(o)
      PROVE  InPlace([o EXCEPT !.face_count = @ + 1])'
  <2>1. /\ o.face_offset \in 0 .. n /\ o.face_offset + (o.face_count + 1) <= n + 1
    BY <1>4, <1>9, NatsOfGroup DEF InPlace, n
  <2> DEFINE more == [o EXCEPT !.face_count = @ + 1]
  <2>2. /\ more.face_offset = o.face_offset /\ more.index_offset = o.index_offset
        /\ more.face_count = o.face_count + 1
    BY DEF Group
  <2> HIDE DEF more
  <2>3. InPlace(more)'
    BY <1>5, <1>9, <2>1, <2>2 DEF InPlace
  <2> QED
    BY <2>3 DEF more
<1>10. \A o \in ToSet(objects') \cup {object'} : InPlace(o)'
  BY <1>1, <1>2, <1>4, <1>8, <1>9 DEF IndexInv
<1>11. \A o \in ToSet(groups') \cup {group'} : InPlace(o)'
  BY <1>1, <1>2, <1>4, <1>8, <1>9 DEF IndexInv
<1> QED
  BY <1>7, <1>10, <1>11 DEF IndexInv

\* The lines that start a range, and the end of the file.
LEMMA IndexNewRange ==
    IInv /\ IndexInv /\ (ParseObject \/ ParseGroup \/ EndFile) => IndexInv'
<1> SUFFICES ASSUME IInv, IndexInv, ParseObject \/ ParseGroup \/ EndFile PROVE IndexInv'
  OBVIOUS
<1>1. UNCHANGED <<face_vertices, indices>> /\ IndexPerFaceVertex'
  BY DEF ParseObject, ParseGroup, EndFile, faceData, IndexInv, IndexPerFaceVertex, FirstIndex
<1>2. \A name \in Objects \cup Groups \cup {NoName} :
         /\ \A o \in ToSet(Flush(objects, object)) \cup {Fresh(name)} : InPlace(o)
         /\ \A o \in ToSet(Flush(groups, group)) \cup {Fresh(name)} : InPlace(o)
  BY FlushInPlace DEF IInv, TypeOK, IndexInv
<1>3. /\ \/ UNCHANGED <<objects, object>>
         \/ objects' = Flush(objects, object)
              /\ \E name \in Objects \cup {NoName} : object' = Fresh(name)
      /\ \/ UNCHANGED <<groups, group>>
         \/ groups' = Flush(groups, group)
              /\ \E name \in Groups \cup {NoName} : group' = Fresh(name)
  BY DEF ParseObject, ParseGroup, EndFile
<1>4. \A o \in ToSet(objects') \cup {object'} : InPlace(o)
  BY <1>2, <1>3 DEF IndexInv
<1>5. \A o \in ToSet(groups') \cup {group'} : InPlace(o)
  BY <1>2, <1>3 DEF IndexInv
<1>6. ASSUME NEW o, InPlace(o) PROVE InPlace(o)'
  BY <1>1, <1>6 DEF InPlace
<1> QED
  BY <1>1, <1>4, <1>5, <1>6 DEF IndexInv

LEMMA IndexStep == IInv /\ IndexInv /\ BadCorners = FALSE /\ [Next]_vars => IndexInv'
<1> SUFFICES ASSUME IInv, IndexInv, BadCorners = FALSE, [Next]_vars PROVE IndexInv'
  OBVIOUS
<1>1. CASE \/ ParseVertex \/ ParseTexcoord \/ ParseNormal \/ ParseUsemtl \/ ParseMtllib
           \/ EndBuffer \/ Done \/ UNCHANGED vars
  <2>1. UNCHANGED <<face_vertices, indices, objects, groups, object, group>>
    BY <1>1 DEF ParseVertex, ParseTexcoord, ParseNormal, ParseUsemtl, ParseMtllib, EndBuffer,
                Done, vars, faceData
  <2> QED
    BY <2>1, IndexSame
<1>2. CASE ParseFace
  BY <1>2, IndexParseFace
<1>3. CASE ParseObject \/ ParseGroup \/ EndFile
  BY <1>3, IndexNewRange
<1> QED
  BY <1>1, <1>2, <1>3 DEF Next

\* "Index data: one element for each face vertex", for files of any length in
\* which parse_face can read every corner. MeshBadCorners.cfg shows what another
\* corner does.
THEOREM IndexPerFaceVertexTheorem == BadCorners = FALSE => (Spec => []IndexPerFaceVertex)
<1> SUFFICES ASSUME BadCorners = FALSE PROVE Spec => []IndexPerFaceVertex
  OBVIOUS
<1>1. IndexInv => IndexPerFaceVertex
  BY DEF IndexInv
<1> QED
  BY <1>1, InvInit, IndexInit, IndexStep, Inductive, PTL DEF Spec

\* The index_offset of every group and object is where the corners of its first
\* face are, although it is noted when the group begins and the arrays grow on.
THEOREM IndexOffsetsTheorem == BadCorners = FALSE => (Spec => []IndexOffsetsAgree)
<1> SUFFICES ASSUME BadCorners = FALSE PROVE Spec => []IndexOffsetsAgree
  OBVIOUS
<1>1. IInv /\ IndexInv => IndexOffsetsAgree
  <2> SUFFICES ASSUME IInv, IndexInv PROVE IndexOffsetsAgree
    OBVIOUS
  <2>1. ASSUME NEW o \in ToSet(objects) \cup ToSet(groups) \cup {object, group}
        PROVE  o.index_offset = FirstIndex(o.face_offset + 1)
    <3>1. o \in Group /\ InPlace(o)
      BY FlushSet DEF IInv, TypeOK, IndexInv
    <3>2. (o.face_offset + 1) - 1 = o.face_offset
      BY <3>1, NatsOfGroup
    <3> QED
      BY <3>1, <3>2 DEF InPlace, FirstIndex
  <2> QED
    BY <2>1 DEF IndexOffsetsAgree
<1> QED
  BY <1>1, InvInit, IndexInit, IndexStep, Inductive, PTL DEF Spec
-----------------------------------------------------------------------------
(* The mesh read back is what the lines of the file say.                     *)

Triples == Seq(Triple)

\* The ranges of a list are over where the current one begins.
Behind(list, current) ==
    \A o \in ToSet(list) : o.face_offset + o.face_count <= current.face_offset

\* The material in force, and those that faces have stored since the first usemtl
\* line, are in the array.
UseInv ==
    /\ Len(face_materials) = Len(face_vertices)
    /\ firstUse = NotYet => used = NoName
    /\ firstUse # NotYet =>
         /\ firstUse <= Len(face_vertices)
         /\ material < Len(materials) /\ materials[material + 1].name = used
         /\ \A f \in 1 .. Len(face_vertices) :
               f > firstUse => face_materials[f] < Len(materials)

ReadBackInv ==
    /\ Behind(objects, object) /\ Behind(groups, group)
    /\ UseInv
    /\ Len(positions) > 0

\* ---------------------------------------------------- the owner of a face

LEMMA FlushBehind ==
    ASSUME NEW list \in Seq(Group), NEW current \in Group, NEW n \in Nat,
           NEW fresh \in Group, fresh.face_offset = n,
           current.face_offset + current.face_count = n, Behind(list, current)
    PROVE  Behind(Flush(list, current), fresh)
<1>1. \A o \in ToSet(list) : o.face_offset \in Nat /\ o.face_count \in Nat
  BY FlushSet, NatsOfGroup
<1>2. current.face_offset <= n
  BY NatsOfGroup
<1> QED
  BY <1>1, <1>2, FlushSet, NatsOfGroup DEF Behind

\* A flush gives no face another owner.
LEMMA FlushNames ==
    ASSUME NEW list \in Seq(Group), NEW current \in Group, NEW n \in Nat,
           NEW fresh \in Group, fresh.face_offset = n,
           current.face_offset + current.face_count = n,
           NEW f \in 1 .. n
    PROVE  NameOf(f, Flush(list, current), fresh) = NameOf(f, list, current)
<1> DEFINE Owns(o) == o.face_offset < f /\ f <= o.face_offset + o.face_count
           before == {o \in ToSet(list) \cup {current} : Owns(o)}
           after == {o \in ToSet(Flush(list, current)) \cup {fresh} : Owns(o)}
<1>1. ~Owns(fresh)
  OBVIOUS
<1>2. ~(current.face_count > 0) => ~Owns(current)
  BY NatsOfGroup
<1>3. after = before
  BY <1>1, <1>2, FlushSet
<1>4. /\ NameOf(f, list, current) = IF before = {} THEN Missing ELSE (CHOOSE o \in before : TRUE).name
      /\ NameOf(f, Flush(list, current), fresh)
           = IF after = {} THEN Missing ELSE (CHOOSE o \in after : TRUE).name
  BY DEF NameOf
<1> HIDE DEF before, after
<1> QED
  BY <1>3, <1>4

\* A face added to the current range is its own, and no other face changes its
\* owner's name.
LEMMA GrowNames ==
    ASSUME NEW list \in Seq(Group), NEW current \in Group, NEW n \in Nat,
           current.face_offset + current.face_count = n, Behind(list, current),
           NEW more, more = [current EXCEPT !.face_count = @ + 1]
    PROVE  /\ \A f \in 1 .. n : NameOf(f, list, more) = NameOf(f, list, current)
           /\ NameOf(n + 1, list, more) = current.name
           /\ Behind(list, more)
<1>1. /\ more.face_offset = current.face_offset /\ more.name = current.name
      /\ more.face_count = current.face_count + 1
      /\ more.face_offset \in Nat /\ current.face_count \in Nat
      /\ more.face_offset + more.face_count = n + 1
  <2>1. current.face_offset \in Nat /\ current.face_count \in Nat
    BY NatsOfGroup
  <2> QED
    BY <2>1 DEF Group
<1>2. \A o \in ToSet(list) :
         /\ o.face_offset \in Nat /\ o.face_count \in Nat
         /\ o.face_offset + o.face_count <= current.face_offset
  BY FlushSet, NatsOfGroup DEF Behind
<1>3. ASSUME NEW f \in 1 .. n PROVE NameOf(f, list, more) = NameOf(f, list, current)
  <2> DEFINE Owns(o) == o.face_offset < f /\ f <= o.face_offset + o.face_count
             before == {o \in ToSet(list) \cup {current} : Owns(o)}
             after == {o \in ToSet(list) \cup {more} : Owns(o)}
  <2>1. /\ NameOf(f, list, current) = IF before = {} THEN Missing ELSE (CHOOSE o \in before : TRUE).name
        /\ NameOf(f, list, more) = IF after = {} THEN Missing ELSE (CHOOSE o \in after : TRUE).name
    BY DEF NameOf
  <2>2. CASE current.face_offset < f
    <3>1. before = {current} /\ after = {more}
      <4>1. \A o \in ToSet(list) : ~Owns(o)
        BY <1>1, <1>2, <2>2
      <4>2. Owns(current) /\ Owns(more)
        BY <1>1, <2>2
      <4> HIDE DEF Owns
      <4> QED
        BY <4>1, <4>2
    <3> HIDE DEF before, after
    <3>2. (CHOOSE o \in before : TRUE) = current /\ (CHOOSE o \in after : TRUE) = more
      BY <3>1
    <3> QED
      BY <1>1, <2>1, <3>1, <3>2
  <2>3. CASE ~(current.face_offset < f)
    <3>1. before = after
      BY <1>1, <2>3
    <3> HIDE DEF before, after
    <3> QED
      BY <2>1, <3>1
  <2> QED
    BY <2>2, <2>3
<1>4. NameOf(n + 1, list, more) = current.name
  <2> DEFINE f == n + 1
             Owns(o) == o.face_offset < f /\ f <= o.face_offset + o.face_count
             owners == {o \in ToSet(list) \cup {more} : Owns(o)}
  <2>1. owners = {more}
    <3>1. \A o \in ToSet(list) : ~Owns(o)
      BY <1>1, <1>2
    <3>2. Owns(more)
      BY <1>1
    <3> HIDE DEF Owns
    <3> QED
      BY <3>1, <3>2
  <2>2. NameOf(f, list, more) = IF owners = {} THEN Missing ELSE (CHOOSE o \in owners : TRUE).name
    BY DEF NameOf
  <2> HIDE DEF owners
  <2>3. (CHOOSE o \in owners : TRUE) = more
    BY <2>1
  <2> QED
    BY <1>1, <2>1, <2>2, <2>3
<1>5. Behind(list, more)
  BY <1>1 DEF Behind
<1> QED
  BY <1>3, <1>4, <1>5

\* ------------------------------------------------------ the invariant kept

LEMMA ReadBackInit == Init => ReadBackInv
<1>1. ToSet(<<>>) = {}
  BY DEF ToSet
<1> QED
  BY <1>1 DEF Init, ReadBackInv, Behind, UseInv

\* What a usemtl line does to the materials.
LEMMA UseStep == IInv /\ UseInv /\ ParseUsemtl => UseInv' /\ used' \in Materials
<1> SUFFICES ASSUME IInv, UseInv, ParseUsemtl PROVE UseInv' /\ used' \in Materials
  OBVIOUS
<1>1. PICK name \in Materials :
         /\ \/ \E k \in DOMAIN materials :
                 materials[k].name = name /\ material' = k - 1 /\ UNCHANGED materials
            \/ /\ material' = Len(materials)
               /\ materials' = Append(materials, [name |-> name, fallback |-> TRUE])
         /\ used' = name
  BY DEF ParseUsemtl, IsNamed
<1>2. /\ firstUse' = IF firstUse = NotYet THEN Len(face_vertices) ELSE firstUse
      /\ UNCHANGED <<face_vertices, face_materials>>
      /\ Len(face_vertices) \in Nat /\ firstUse \in Nat \cup {NotYet}
      /\ face_materials \in Seq(Nat)
  BY DEF ParseUsemtl, faceData, IInv, TypeOK
<1>3. /\ Len(materials') >= Len(materials) /\ material' \in Nat
      /\ material' < Len(materials') /\ materials'[material' + 1].name = used'
      /\ Len(materials) \in Nat /\ Len(materials') \in Nat
  <2>1. /\ materials \in Seq(Material) /\ DOMAIN materials = 1 .. Len(materials)
        /\ Len(materials) \in Nat
    BY DEF IInv, TypeOK, Material
  <2>2. CASE \E k \in DOMAIN materials :
                materials[k].name = name /\ material' = k - 1 /\ UNCHANGED materials
    <3>1. PICK k \in 1 .. Len(materials) :
                materials[k].name = name /\ material' = k - 1 /\ UNCHANGED materials
      BY <2>1, <2>2
    <3>2. material' + 1 = k /\ material' \in Nat
      BY <3>1
    <3>3. used' = name /\ materials' = materials /\ materials[k].name = name
      BY <1>1, <3>1
    <3>4. materials'[material' + 1].name = used'
      BY <3>2, <3>3
    <3>5. Len(materials') = Len(materials)
      BY <3>3
    <3>6. material' < Len(materials)
      <4>1. k <= Len(materials) /\ k \in Int /\ Len(materials) \in Int
        BY <2>1
      <4>2. material' = k - 1
        BY <3>1
      <4> QED
        BY <4>1, <4>2
    <3> QED
      BY <2>1, <3>2, <3>4, <3>5, <3>6
  <2>3. CASE /\ material' = Len(materials)
             /\ materials' = Append(materials, [name |-> name, fallback |-> TRUE])
    <3>1. [name |-> name, fallback |-> TRUE] \in Material
      BY DEF Material
    <3>2. /\ Len(materials') = Len(materials) + 1
          /\ materials'[Len(materials) + 1] = [name |-> name, fallback |-> TRUE]
      BY <2>1, <2>3, <3>1, AppendFacts
    <3>3. materials'[material' + 1].name = name
      BY <2>3, <3>2
    <3>4. used' = name
      BY <1>1
    <3> QED
      BY <2>1, <2>3, <3>2, <3>3, <3>4
  <2> QED
    BY <1>1, <2>2, <2>3
<1>4. firstUse' # NotYet /\ firstUse' <= Len(face_vertices)
  BY <1>2 DEF UseInv, NotYet
<1>5. ASSUME NEW f \in 1 .. Len(face_vertices), f > firstUse'
      PROVE  face_materials[f] < Len(materials')
  <2>1. firstUse # NotYet /\ firstUse' = firstUse
    BY <1>2, <1>5
  <2>2. face_materials[f] < Len(materials)
    BY <1>5, <2>1 DEF UseInv
  <2>3. face_materials[f] \in Nat
    BY <1>2, <1>5 DEF UseInv
  <2> QED
    BY <1>3, <2>2, <2>3
<1> QED
  BY <1>1, <1>2, <1>3, <1>4, <1>5 DEF UseInv

\* Materials behind the others move none of them.
LEMMA MtllibStep ==
    IInv /\ ParseMtllib =>
        /\ Len(materials') >= Len(materials) /\ Len(materials) \in Nat /\ Len(materials') \in Nat
        /\ \A k \in 1 .. Len(materials) : materials'[k] = materials[k]
<1> SUFFICES ASSUME IInv, ParseMtllib
             PROVE  /\ Len(materials') >= Len(materials) /\ Len(materials) \in Nat
                    /\ Len(materials') \in Nat
                    /\ \A k \in 1 .. Len(materials) : materials'[k] = materials[k]
  OBVIOUS
<1>1. PICK names \in {<<>>} \cup {<<name>> : name \in Materials} :
         materials' = materials \o
            [k \in DOMAIN names |-> [name |-> names[k], fallback |-> FALSE]]
  BY DEF ParseMtllib
<1> DEFINE new == [k \in DOMAIN names |-> [name |-> names[k], fallback |-> FALSE]]
           M == [name : {names[k] : k \in DOMAIN names}, fallback : BOOLEAN] \cup Material
<1>2. \E m \in Nat : DOMAIN names = 1 .. m
  OBVIOUS
<1>3. new \in Seq(M)
  BY <1>2
<1>4. materials \in Seq(M)
  <2>1. materials \in Seq(Material)
    BY DEF IInv, TypeOK, Material
  <2> QED
    BY <2>1
<1>5. materials' = materials \o new
  BY <1>1
<1> HIDE DEF new, M
<1> QED
  BY <1>3, <1>4, <1>5

LEMMA UseOther ==
    IInv /\ UseInv /\ (ParseMtllib \/ ParseFace) /\ BadCorners = FALSE => UseInv'
<1> SUFFICES ASSUME IInv, UseInv, ParseMtllib \/ ParseFace, BadCorners = FALSE PROVE UseInv'
  OBVIOUS
<1>1. /\ firstUse \in Nat \cup {NotYet} /\ Len(face_vertices) \in Nat
      /\ face_materials \in Seq(Nat) /\ face_vertices \in Seq(Nat) /\ material \in Nat
      /\ materials \in Seq(Material)
  BY DEF IInv, TypeOK, Material
<1>2. CASE ParseMtllib
  <2>1. UNCHANGED <<face_vertices, face_materials, firstUse, used, material>>
    BY <1>2 DEF ParseMtllib, faceData, history
  <2>2. \A f \in 1 .. Len(face_vertices) : face_materials[f] \in Nat
    BY <1>1 DEF UseInv
  <2> QED
    BY <1>1, <1>2, <2>1, <2>2, MtllibStep DEF UseInv
<1>3. CASE ParseFace
  <2>1. PICK m \in Nat : face_vertices' = Append(face_vertices, m)
    <3>1. PICK corners \in FaceLines : face_vertices' = Append(face_vertices, Len(corners))
      BY <1>3 DEF ParseFace
    <3>2. corners \in Seq(Corner)
      BY FaceAssumption
    <3>3. Len(corners) \in Nat
      BY <3>2
    <3> QED
      BY <3>1, <3>3
  <2>2. /\ face_materials' = Append(face_materials, material)
        /\ UNCHANGED <<materials, material, firstUse, used>>
    BY <1>3 DEF ParseFace, history
  <2>3. /\ Len(face_vertices') = Len(face_vertices) + 1
        /\ Len(face_materials') = Len(face_materials) + 1
        /\ face_materials'[Len(face_materials) + 1] = material
        /\ \A f \in 1 .. Len(face_materials) : face_materials'[f] = face_materials[f]
    BY <1>1, <2>1, <2>2, AppendFacts
  <2> QED
    BY <1>1, <2>2, <2>3 DEF UseInv
<1> QED
  BY <1>2, <1>3

LEMMA ReadBackStep == IInv /\ ReadBackInv /\ BadCorners = FALSE /\ [Next]_vars => ReadBackInv'
<1> SUFFICES ASSUME IInv, ReadBackInv, BadCorners = FALSE, [Next]_vars PROVE ReadBackInv'
  OBVIOUS
<1>1. UseInv'
  <2>1. CASE ParseUsemtl
    BY <2>1, UseStep DEF ReadBackInv
  <2>2. CASE ParseMtllib \/ ParseFace
    BY <2>2, UseOther DEF ReadBackInv
  <2>3. CASE ~(ParseUsemtl \/ ParseMtllib \/ ParseFace)
    <3>1. UNCHANGED <<face_vertices, face_materials, firstUse, used, material, materials>>
      BY <2>3 DEF Next, ParseVertex, ParseTexcoord, ParseNormal, ParseObject, ParseGroup,
                  EndBuffer, EndFile, Done, vars, faceData, history
    <3> QED
      BY <3>1 DEF UseInv, ReadBackInv
  <2> QED
    BY <2>1, <2>2, <2>3
<1>2. /\ Len(face_vertices) \in Nat
      /\ object \in Group /\ object.face_offset + object.face_count = Len(face_vertices)
      /\ group \in Group /\ group.face_offset + group.face_count = Len(face_vertices)
      /\ objects \in Seq(Group) /\ groups \in Seq(Group)
  BY DEF IInv, TypeOK, FacesTiled, Tiles
<1>3. /\ \/ UNCHANGED <<objects, object>>
         \/ UNCHANGED objects /\ object' = [object EXCEPT !.face_count = @ + 1]
         \/ objects' = Flush(objects, object)
              /\ \E name \in Objects \cup {NoName} : object' = Fresh(name)
      /\ \/ UNCHANGED <<groups, group>>
         \/ UNCHANGED groups /\ group' = [group EXCEPT !.face_count = @ + 1]
         \/ groups' = Flush(groups, group)
              /\ \E name \in Groups \cup {NoName} : group' = Fresh(name)
  BY DEF Next, ParseVertex, ParseTexcoord, ParseNormal, ParseFace, ParseObject, ParseGroup,
         ParseUsemtl, ParseMtllib, EndBuffer, EndFile, Done, vars
<1>4. Behind(objects', object')
  <2>1. CASE UNCHANGED <<objects, object>>
    BY <2>1 DEF ReadBackInv
  <2>2. CASE UNCHANGED objects /\ object' = [object EXCEPT !.face_count = @ + 1]
    BY <1>2, <2>2, GrowNames DEF ReadBackInv
  <2>3. CASE objects' = Flush(objects, object)
              /\ \E name \in Objects \cup {NoName} : object' = Fresh(name)
    BY <1>2, <2>3, FreshGroup, FlushBehind DEF ReadBackInv, IInv
  <2> QED
    BY <1>3, <2>1, <2>2, <2>3
<1>5. Behind(groups', group')
  <2>1. CASE UNCHANGED <<groups, group>>
    BY <2>1 DEF ReadBackInv
  <2>2. CASE UNCHANGED groups /\ group' = [group EXCEPT !.face_count = @ + 1]
    BY <1>2, <2>2, GrowNames DEF ReadBackInv
  <2>3. CASE groups' = Flush(groups, group)
              /\ \E name \in Groups \cup {NoName} : group' = Fresh(name)
    BY <1>2, <2>3, FreshGroup, FlushBehind DEF ReadBackInv, IInv
  <2> QED
    BY <1>3, <2>1, <2>2, <2>3
<1>6. Len(positions') > 0
  <2>1. positions \in Seq(Colour) /\ Len(positions) \in Nat
    BY DEF IInv, TypeOK, Colour
  <2>2. CASE UNCHANGED positions
    BY <2>2 DEF ReadBackInv
  <2>3. CASE \E colour \in Colour : positions' = Append(positions, colour)
    BY <2>1, <2>3
  <2> QED
    BY <2>2, <2>3 DEF Next, ParseVertex, ParseTexcoord, ParseNormal, ParseFace, ParseObject,
       ParseGroup, ParseUsemtl, ParseMtllib, EndBuffer, EndFile, Done, vars, vertexData, Colour
<1> QED
  BY <1>1, <1>4, <1>5, <1>6 DEF ReadBackInv

\* ------------------------------------------- the vertices and faces read back

IsTuple(q, n) == q = [k \in 1 .. n |-> q[k]]

\* A sequence that is longer by one element.
LEMMA AppendIs ==
    ASSUME NEW n \in Nat, NEW q, NEW r, NEW x, IsTuple(q, n), IsTuple(r, n + 1),
           \A k \in 1 .. n : r[k] = q[k], r[n + 1] = x
    PROVE  r = Append(q, x)
<1> DEFINE S == {q[k] : k \in 1 .. n} \cup {x}
<1>0. x \in S /\ \A k \in 1 .. n : q[k] \in S
  OBVIOUS
<1> HIDE DEF S
<1>1. q \in Seq(S) /\ Len(q) = n
  <2> DEFINE p == [k \in 1 .. n |-> q[k]]
  <2>1. p \in Seq(S) /\ Len(p) = n
    BY <1>0
  <2>2. q = p
    BY DEF IsTuple
  <2> HIDE DEF p
  <2> QED
    BY <2>1, <2>2
<1> DEFINE a == Append(q, x)
<1>2. /\ a \in Seq(S) /\ Len(a) = n + 1 /\ a[n + 1] = x
      /\ \A k \in 1 .. n : a[k] = q[k]
  BY <1>0, <1>1, AppendFacts
<1> HIDE DEF a
<1>3. a = [k \in 1 .. n + 1 |-> a[k]]
  BY <1>2
<1>4. ASSUME NEW k \in 1 .. n + 1 PROVE a[k] = r[k]
  <2>1. k = n + 1 \/ k \in 1 .. n
    OBVIOUS
  <2> QED
    BY <1>2, <2>1
<1>5. a = r
  BY <1>3, <1>4 DEF IsTuple
<1> QED
  BY <1>5 DEF a

\* Since the colours are those of the positions, a vertex has the colour of its
\* line.
LEMMA VerticesAre ==
    ASSUME NEW q \in Seq(Colour), NEW c \in Seq(Colour),
           Len(c) <= Len(q), \A v \in 1 .. Len(c) : c[v] = q[v]
    PROVE  [v \in 1 .. Len(q) - 1 |-> IF v + 1 <= Len(c) THEN c[v + 1] ELSE q[v + 1]]
             = [v \in 1 .. Len(q) - 1 |-> q[v + 1]]
<1>1. ASSUME NEW v \in 1 .. Len(q) - 1
      PROVE  (IF v + 1 <= Len(c) THEN c[v + 1] ELSE q[v + 1]) = q[v + 1]
  <2>1. CASE v + 1 <= Len(c)
    <3>1. v + 1 \in 1 .. Len(c)
      BY <2>1
    <3> QED
      BY <2>1, <3>1
  <2> QED
    BY <2>1
<1> QED
  BY <1>1

\* The corners of a face are as many as its line has, behind those of the
\* faces before it.
LEMMA CornersAre ==
    ASSUME NEW q \in Triples, NEW s \in Seq(Nat), Sums(s)[Len(s)] <= Len(q),
           NEW f \in 1 .. Len(s)
    PROVE  /\ SubSeq(q, Sums(s)[f - 1] + 1, Sums(s)[f])
                = [c \in 1 .. s[f] |-> q[Sums(s)[f - 1] + c]]
           /\ Sums(s)[f] = Sums(s)[f - 1] + s[f]
           /\ Sums(s)[f - 1] \in Nat /\ Sums(s)[f] \in Nat
           /\ Sums(s)[f] <= Sums(s)[Len(s)] /\ s[f] \in Nat
<1> DEFINE a == Sums(s)[f - 1]
           b == Sums(s)[f]
<1>1. f - 1 \in 0 .. Len(s) /\ f \in 0 .. Len(s) /\ Len(s) \in 0 .. Len(s) /\ f <= Len(s)
  OBVIOUS
<1>2. a \in Nat /\ b \in Nat /\ Sums(s)[Len(s)] \in Nat
  BY <1>1, SumsFacts
<1>3. b = a + s[f] /\ s[f] \in Nat
  BY SumsFacts
<1>4. b <= Sums(s)[Len(s)]
  BY <1>1, SumsMonotone
<1>5. Len(q) \in Nat /\ b <= Len(q)
  <2>1. Len(q) \in Nat
    BY DEF Triples
  <2> QED
    BY <1>2, <1>4, <2>1
<1>6. \A k \in a + 1 .. b : q[k] \in Triple
  <2> TAKE k \in a + 1 .. b
  <2>1. k \in 1 .. Len(q)
    BY <1>2, <1>5
  <2> QED
    BY <2>1 DEF Triples
<1> HIDE DEF a, b
<1> DEFINE t == SubSeq(q, a + 1, b)
<1>7. /\ t \in Seq(Triple) /\ Len(t) = s[f]
      /\ \A c \in 1 .. s[f] : t[c] = q[a + c]
  <2>1. /\ t \in Seq(Triple)
        /\ Len(t) = IF a + 1 <= b THEN b - (a + 1) + 1 ELSE 0
        /\ \A c \in 1 .. b - (a + 1) + 1 : t[c] = q[(a + 1) + c - 1]
    BY <1>2, <1>6, SubSeqProperties
  <2>2. b - (a + 1) + 1 = s[f]
    BY <1>2, <1>3, SMTT(30)
  <2>3. \A c \in 1 .. s[f] : (a + 1) + c - 1 = a + c
    BY <1>2, <1>3
  <2>4. Len(t) = s[f]
    BY <1>2, <1>3, <2>1, <2>2
  <2>5. ASSUME NEW c \in 1 .. s[f] PROVE t[c] = q[a + c]
    BY <2>1, <2>2, <2>3
  <2> HIDE DEF t
  <2> QED
    BY <2>1, <2>4, <2>5
<1> HIDE DEF t
<1>8. t = [c \in 1 .. s[f] |-> q[a + c]]
  BY <1>7
<1> QED
  BY <1>2, <1>3, <1>4, <1>8 DEF t, a, b

LEMMA NoFaceFewer ==
    ASSUME NEW f \in Nat PROVE (f + 1) - 1 = f /\ f + 1 \in Nat
  OBVIOUS

\* The material of a face that is there stays: the array of materials only grows,
\* and a face before the first usemtl line stays before it.
LEMMA MaterialKept ==
    ASSUME IInv, UseInv, NEW f \in 1 .. Len(face_vertices),
           face_materials'[f] = face_materials[f],
           firstUse' = firstUse \/ (firstUse = NotYet /\ f <= firstUse'),
           Len(materials') \in Nat, Len(materials') >= Len(materials),
           \A k \in 1 .. Len(materials) : materials'[k] = materials[k]
    PROVE  MaterialOf(f)' = MaterialOf(f)
<1>1. CASE firstUse' # firstUse
  <2>1. firstUse = NotYet /\ f <= firstUse'
    BY <1>1
  <2> QED
    BY <2>1 DEF MaterialOf
<1>2. CASE firstUse' = firstUse
  <2>1. CASE firstUse = NotYet \/ f <= firstUse
    BY <1>2, <2>1 DEF MaterialOf
  <2>2. CASE ~(firstUse = NotYet \/ f <= firstUse)
    <3>1. firstUse \in Nat /\ face_materials \in Seq(Nat) /\ Len(face_vertices) \in Nat
          /\ Len(materials) \in Nat
      BY <2>2, SMTT(30) DEF IInv, TypeOK
    <3>2. face_materials[f] < Len(materials) /\ face_materials[f] \in Nat
      BY <2>2, <3>1 DEF UseInv
    <3>3. face_materials[f] < Len(materials') /\ face_materials[f] + 1 \in 1 .. Len(materials)
      BY <3>1, <3>2
    <3>4. MaterialName(face_materials[f])' = MaterialName(face_materials[f])
      BY <3>2, <3>3 DEF MaterialName
    <3>5. /\ MaterialOf(f) = MaterialName(face_materials[f])
          /\ MaterialOf(f)' = MaterialName(face_materials[f])'
      BY <1>2, <2>2 DEF MaterialOf
    <3> QED
      BY <3>4, <3>5
  <2> QED
    BY <2>1, <2>2
<1> QED
  BY <1>1, <1>2

\* A face line has added the corners new to q and their number m to s.
AddedFace(s, r, q, t, new, m) ==
    /\ s \in Seq(Nat) /\ q \in Triples /\ new \in Triples /\ m \in Nat
    /\ Len(new) = m /\ Len(q) = Sums(s)[Len(s)]
    /\ r = Append(s, m) /\ t = q \o new

Grown(s, r, q, t, new, m) ==
    /\ s \in Seq(Nat) /\ r \in Seq(Nat) /\ q \in Triples /\ t \in Triples /\ m \in Nat
    /\ Len(r) = Len(s) + 1 /\ r[Len(s) + 1] = m /\ \A f \in 1 .. Len(s) : r[f] = s[f]
    /\ \A k \in 0 .. Len(s) : Sums(r)[k] = Sums(s)[k]
    /\ Sums(r)[Len(s) + 1] = Sums(s)[Len(s)] + m
    /\ Len(q) = Sums(s)[Len(s)] /\ Len(t) = Len(q) + m
    /\ \A k \in 1 .. Len(q) : t[k] = q[k]
    /\ IsTuple(new, m) /\ \A c \in 1 .. m : t[Len(q) + c] = new[c]

LEMMA GrownBy ==
    ASSUME NEW s, NEW r, NEW q, NEW t, NEW new, NEW m, AddedFace(s, r, q, t, new, m)
    PROVE  Grown(s, r, q, t, new, m)
<1>1. /\ t \in Seq(Triple) /\ Len(t) = Len(q) + Len(new)
      /\ \A k \in 1 .. Len(q) : t[k] = q[k]
      /\ \A c \in 1 .. Len(new) : t[Len(q) + c] = new[c]
  <2>1. q \in Seq(Triple) /\ new \in Seq(Triple) /\ t = q \o new
    BY DEF AddedFace, Triples
  <2> QED
    BY <2>1, ConcatElements
<1>2. /\ s \in Seq(Nat) /\ m \in Nat /\ r \in Seq(Nat)
      /\ Len(r) = Len(s) + 1 /\ r[Len(s) + 1] = m
      /\ \A f \in 1 .. Len(s) : r[f] = s[f]
  BY DEF AddedFace
<1>3. /\ \A k \in 0 .. Len(s) : Sums(r)[k] = Sums(s)[k]
      /\ Sums(r)[Len(s) + 1] = Sums(s)[Len(s)] + m
  <2>1. s \in Seq(Nat) /\ m \in Nat /\ r = Append(s, m)
    BY DEF AddedFace
  <2> QED
    BY <2>1, SumsAppend
<1>4. IsTuple(new, m) /\ Len(new) = m /\ Len(q) = Sums(s)[Len(s)] /\ q \in Triples
  BY DEF AddedFace, Triples, IsTuple
<1>5. t \in Triples
  BY <1>1 DEF Triples
<1> QED
  BY <1>1, <1>2, <1>3, <1>4, <1>5 DEF Grown

\* The corners of face f.
Part(q, s, f) == SubSeq(q, Sums(s)[f - 1] + 1, Sums(s)[f])

\* It leaves the corners of the other faces, and its own are what it has added.
LEMMA CornersGrow ==
    ASSUME NEW s, NEW r, NEW q, NEW t, NEW new, NEW m, Grown(s, r, q, t, new, m)
    PROVE  /\ \A f \in 1 .. Len(s) : Part(t, r, f) = Part(q, s, f)
           /\ Part(t, r, Len(s) + 1) = new
<1> USE DEF Grown
<1>1. Len(s) \in Nat /\ Len(q) \in Nat /\ Len(t) \in Nat
  BY DEF Triples
<1>2. Sums(s)[Len(s)] <= Len(q) /\ Sums(r)[Len(r)] <= Len(t)
  BY <1>1
<1>3. ASSUME NEW f \in 1 .. Len(s)
      PROVE  SubSeq(t, Sums(r)[f - 1] + 1, Sums(r)[f]) = SubSeq(q, Sums(s)[f - 1] + 1, Sums(s)[f])
  <2> DEFINE a == Sums(s)[f - 1]
  <2>1. SubSeq(q, a + 1, Sums(s)[f]) = [c \in 1 .. s[f] |-> q[a + c]]
    BY <1>2, CornersAre
  <2>2. /\ Sums(s)[f] = a + s[f] /\ a \in Nat /\ Sums(s)[f] \in Nat
        /\ Sums(s)[f] <= Len(q) /\ s[f] \in Nat
    BY <1>2, CornersAre, SMTT(30)
  <2>3. f \in 1 .. Len(r) /\ f - 1 \in 0 .. Len(s) /\ f \in 0 .. Len(s)
    BY <1>1
  <2>4. r[f] = s[f] /\ Sums(r)[f - 1] = a /\ Sums(r)[f] = Sums(s)[f]
    BY <2>3
  <2>5. SubSeq(t, Sums(r)[f - 1] + 1, Sums(r)[f]) = [c \in 1 .. r[f] |-> t[Sums(r)[f - 1] + c]]
    BY <1>2, <2>3, CornersAre
  <2> HIDE DEF a
  <2>6. ASSUME NEW c \in 1 .. s[f] PROVE t[a + c] = q[a + c]
    <3>1. c \in Nat /\ 1 <= c /\ c <= s[f]
      BY <2>2
    <3>2. a + c <= a + s[f] /\ a + c \in Nat /\ 1 <= a + c
      BY <2>2, <3>1
    <3>3. a + s[f] <= Len(q) /\ a + s[f] \in Nat
      BY <2>2
    <3>4. a + c <= Len(q)
      BY <1>1, <3>2, <3>3, SMTT(30)
    <3>5. a + c \in 1 .. Len(q)
      BY <1>1, <3>2, <3>4
    <3> QED
      BY <3>5
  <2>7. [c \in 1 .. s[f] |-> t[a + c]] = [c \in 1 .. s[f] |-> q[a + c]]
    BY <2>6
  <2> QED
    BY <2>1, <2>4, <2>5, <2>7 DEF a
<1>4. SubSeq(t, Sums(r)[Len(s)] + 1, Sums(r)[Len(s) + 1]) = [c \in 1 .. m |-> t[Len(q) + c]]
  <2> DEFINE f == Len(s) + 1
  <2>1. f \in 1 .. Len(r) /\ f - 1 = Len(s)
    BY <1>1
  <2>2. SubSeq(t, Sums(r)[f - 1] + 1, Sums(r)[f]) = [c \in 1 .. r[f] |-> t[Sums(r)[f - 1] + c]]
    <3> HIDE DEF f
    <3> QED
      BY <1>2, <2>1, CornersAre
  <2>3. r[f] = m /\ Sums(r)[f - 1] = Len(q)
    BY <1>1, <2>1
  <2>4. Sums(r)[Len(s)] = Len(q)
    BY <2>1, <2>3
  <2> QED
    BY <2>1, <2>2, <2>3, <2>4
<1>5. [c \in 1 .. m |-> t[Len(q) + c]] = new
  BY DEF IsTuple
<1>6. \A f \in 1 .. Len(s) : Part(t, r, f) = Part(q, s, f)
  BY <1>3 DEF Part
<1>7. (Len(s) + 1) - 1 = Len(s)
  BY <1>1
<1>8. Part(t, r, Len(s) + 1) = new
  BY <1>4, <1>5, <1>7 DEF Part
<1> QED
  BY <1>6, <1>8

\* The state as the abstract specification sees it.
LEMMA VerticesRead ==
    ASSUME IInv
    PROVE  /\ Vertices = [v \in 1 .. Len(positions) - 1 |-> positions[v + 1]]
           /\ positions \in Seq(Colour) /\ Len(positions) \in Nat
<1>1. positions \in Seq(Colour) /\ colors \in Seq(Colour)
  BY DEF IInv, TypeOK, Colour
<1>2. Len(colors) <= Len(positions) /\ \A v \in 1 .. Len(colors) : colors[v] = positions[v]
  BY DEF IInv, ColorInv
<1> QED
  BY <1>1, <1>2, VerticesAre DEF Vertices

LEMMA VerticesReadNext ==
    ASSUME IInv'
    PROVE  Vertices' = [v \in 1 .. Len(positions') - 1 |-> positions'[v + 1]]
<1> DEFINE p == positions'
           c == colors'
<1>1. p \in Seq(Colour) /\ c \in Seq(Colour)
  BY DEF IInv, TypeOK, Colour
<1>2. Len(c) <= Len(p) /\ \A v \in 1 .. Len(c) : c[v] = p[v]
  BY DEF IInv, ColorInv
<1>3. Vertices' = [v \in 1 .. Len(p) - 1 |-> IF v + 1 <= Len(c) THEN c[v + 1] ELSE p[v + 1]]
  BY DEF Vertices
<1> HIDE DEF p, c
<1>4. Vertices' = [v \in 1 .. Len(p) - 1 |-> p[v + 1]]
  BY <1>1, <1>2, <1>3, VerticesAre
<1> QED
  BY <1>4 DEF p

\* A number of a face line means what parse_face makes of it.
LEMMA MeantIsIndex ==
    ASSUME IInv, NEW corner \in Corner, IndexInv, Len(positions) > 0
    PROVE  Mesh!Meant(corner) = Index(corner)
<1>1. /\ Len(positions) \in Nat /\ texcoords \in Nat /\ normals \in Nat
      /\ corner.p \in Int /\ corner.t \in Int /\ corner.n \in Int
  BY DEF IInv, TypeOK, Corner
<1>2. Len(Vertices) = Len(positions) - 1
  <2>1. Vertices = [v \in 1 .. Len(positions) - 1 |-> positions[v + 1]]
    BY VerticesRead
  <2>2. Len(positions) - 1 \in Nat
    BY <1>1
  <2> QED
    BY <2>1, <2>2
<1>3. /\ Mesh!Meaning(corner.p, Len(Vertices)) = Resolve(corner.p, Len(positions))
      /\ Mesh!Meaning(corner.t, texcoords - 1) = Resolve(corner.t, texcoords)
      /\ Mesh!Meaning(corner.n, normals - 1) = Resolve(corner.n, normals)
  BY <1>1, <1>2 DEF Mesh!Meaning, Resolve
<1> QED
  BY <1>3 DEF Mesh!Meant, Index

\* The mesh with one more face, if what is read back of it is that face and
\* nothing of the others has changed.
LEMMA FacesGrow ==
    ASSUME NEW n \in Nat, Len(face_vertices) = n, Len(face_vertices') = n + 1, NEW face,
           \A f \in 1 .. n : /\ CornersOf(f)' = CornersOf(f)
                             /\ NameOf(f, objects', object') = NameOf(f, objects, object)
                             /\ NameOf(f, groups', group') = NameOf(f, groups, group)
                             /\ MaterialOf(f)' = MaterialOf(f),
           face = [corners |-> CornersOf(n + 1)', object |-> NameOf(n + 1, objects', object'),
                   group |-> NameOf(n + 1, groups', group'), material |-> MaterialOf(n + 1)']
    PROVE  Faces' = Append(Faces, face)
<1> DEFINE q == Faces
           r == Faces'
<1>1. IsTuple(q, n)
  BY DEF Faces, IsTuple
<1>2. IsTuple(r, n + 1)
  BY DEF Faces, IsTuple
<1>3. r[n + 1] = face
  <2>1. n + 1 \in 1 .. n + 1
    OBVIOUS
  <2> QED
    BY <2>1 DEF Faces
<1>4. ASSUME NEW k \in 1 .. n PROVE r[k] = q[k]
  <2>1. k \in 1 .. n + 1
    OBVIOUS
  <2> QED
    BY <2>1 DEF Faces
<1> HIDE DEF q, r
<1>5. r = Append(q, face)
  BY <1>1, <1>2, <1>3, <1>4, AppendIs
<1> QED
  BY <1>5 DEF q, r

Longer(current, more, n) ==
    /\ current.face_offset + current.face_count = n
    /\ more = [current EXCEPT !.face_count = @ + 1]

LEMMA NamesGrow ==
    ASSUME NEW list \in Seq(Group), NEW current \in Group, NEW more, NEW n \in Nat,
           Longer(current, more, n), Behind(list, current)
    PROVE  /\ \A f \in 1 .. n : NameOf(f, list, more) = NameOf(f, list, current)
           /\ NameOf(n + 1, list, more) = current.name
  BY GrowNames DEF Longer

\* A face line is a face of the abstract specification.
LEMMA FaceRead ==
    IInv /\ IndexInv /\ ReadBackInv /\ BadCorners = FALSE /\ ParseFace => Mesh!Face /\ pc # "done"
<1> SUFFICES ASSUME IInv, IndexInv, ReadBackInv, BadCorners = FALSE, ParseFace
             PROVE  Mesh!Face /\ pc # "done"
  OBVIOUS
<1>1. PICK corners \in FaceLines :
         /\ \A c \in DOMAIN corners : WellFormed(corners[c])
         /\ indices' = indices \o [c \in DOMAIN corners |-> Index(corners[c])]
         /\ face_vertices' = Append(face_vertices, Len(corners))
         /\ face_materials' = Append(face_materials, material)
         /\ group' = [group EXCEPT !.face_count = @ + 1]
         /\ object' = [object EXCEPT !.face_count = @ + 1]
  BY DEF ParseFace
<1>2. /\ UNCHANGED <<positions, texcoords, normals, colors, materials, objects, groups,
                     material, used, firstUse>>
      /\ pc # "done"
  BY DEF ParseFace, NextLine, vertexData, history
<1>3. PICK m \in Nat : /\ Len(corners) = m /\ DOMAIN corners = 1 .. m
                       /\ \A c \in 1 .. m : corners[c] \in Corner
  <2>1. corners \in Seq(Corner)
    BY FaceAssumption
  <2> QED
    BY <2>1
<1> DEFINE new == [c \in 1 .. m |-> Index(corners[c])]
<1>4. new \in Triples /\ Len(new) = m
  <2>1. \A c \in 1 .. m : Index(corners[c]) \in Triple
    BY <1>1, <1>3, IndexType DEF IInv
  <2> QED
    BY <2>1 DEF Triples
<1>5. PICK n \in Nat : n = Len(face_vertices)
  BY DEF IInv, TypeOK
<1>6. /\ face_vertices \in Seq(Nat) /\ indices \in Triples
      /\ face_materials \in Seq(Nat) /\ material \in Nat /\ firstUse \in Nat \cup {NotYet}
      /\ objects \in Seq(Group) /\ groups \in Seq(Group) /\ object \in Group /\ group \in Group
      /\ Len(materials) \in Nat
  BY DEF IInv, TypeOK, Triples, Triple
<1>7. Grown(face_vertices, face_vertices', indices, indices', new, m)
  <2>1. Len(indices) = Sums(face_vertices)[n]
    BY <1>5, (n + 1) - 1 = n DEF IndexInv, IndexPerFaceVertex, FirstIndex
  <2>2. indices' = indices \o new /\ face_vertices' = Append(face_vertices, m)
    BY <1>1, <1>3
  <2> HIDE DEF new
  <2>3. AddedFace(face_vertices, face_vertices', indices, indices', new, m)
    BY <1>4, <1>5, <1>6, <2>1, <2>2 DEF AddedFace
  <2> QED
    BY <2>3, GrownBy
<1> HIDE DEF new
<1>8. Len(face_vertices') = n + 1
  BY <1>5, <1>7 DEF Grown
<1>9. /\ \A f \in 1 .. n : CornersOf(f)' = CornersOf(f)
      /\ CornersOf(n + 1)' = new
  <2>1. /\ \A f \in 1 .. Len(face_vertices) :
             Part(indices', face_vertices', f) = Part(indices, face_vertices, f)
        /\ Part(indices', face_vertices', Len(face_vertices) + 1) = new
    BY <1>7, CornersGrow
  <2>2. ASSUME NEW f \in Nat
        PROVE  /\ CornersOf(f) = Part(indices, face_vertices, f)
               /\ CornersOf(f)' = Part(indices', face_vertices', f)
    BY NoFaceFewer DEF CornersOf, FirstIndex, Part
  <2>3. \A f \in 1 .. n : f \in Nat
    OBVIOUS
  <2>4. n + 1 \in Nat
    OBVIOUS
  <2>5. CornersOf(n + 1)' = new
    BY <1>5, <2>1, <2>2, <2>4
  <2>6. ASSUME NEW f \in 1 .. n PROVE CornersOf(f)' = CornersOf(f)
    <3>1. Part(indices', face_vertices', f) = Part(indices, face_vertices, f)
      BY <1>5, <2>1
    <3>2. f \in Nat
      BY <2>3
    <3> QED
      BY <2>2, <3>1, <3>2
  <2> QED
    BY <2>5, <2>6
<1>10. /\ object.face_offset + object.face_count = n
       /\ group.face_offset + group.face_count = n
       /\ Behind(objects, object) /\ Behind(groups, group)
  BY <1>5 DEF IInv, FacesTiled, Tiles, ReadBackInv
<1>11. /\ \A f \in 1 .. n : NameOf(f, objects', object') = NameOf(f, objects, object)
       /\ NameOf(n + 1, objects', object') = object.name
  <2>1. objects' = objects /\ object' = [object EXCEPT !.face_count = @ + 1]
    BY <1>1, <1>2
  <2> DEFINE more == object'
  <2>2. Longer(object, more, n)
    BY <1>10, <2>1 DEF Longer
  <2>3. objects \in Seq(Group) /\ object \in Group /\ Behind(objects, object)
    BY <1>6, <1>10
  <2> HIDE DEF more
  <2>4. /\ \A f \in 1 .. n : NameOf(f, objects, more) = NameOf(f, objects, object)
        /\ NameOf(n + 1, objects, more) = object.name
    BY <2>2, <2>3, NamesGrow
  <2> QED
    BY <2>1, <2>4 DEF more
<1>12. /\ \A f \in 1 .. n : NameOf(f, groups', group') = NameOf(f, groups, group)
       /\ NameOf(n + 1, groups', group') = group.name
  <2>1. groups' = groups /\ group' = [group EXCEPT !.face_count = @ + 1]
    BY <1>1, <1>2
  <2> DEFINE more == group'
  <2>2. Longer(group, more, n)
    BY <1>10, <2>1 DEF Longer
  <2>3. groups \in Seq(Group) /\ group \in Group /\ Behind(groups, group)
    BY <1>6, <1>10
  <2> HIDE DEF more
  <2>4. /\ \A f \in 1 .. n : NameOf(f, groups, more) = NameOf(f, groups, group)
        /\ NameOf(n + 1, groups, more) = group.name
    BY <2>2, <2>3, NamesGrow
  <2> QED
    BY <2>1, <2>4 DEF more
<1>13. /\ Len(face_materials) = n /\ face_materials'[n + 1] = material
       /\ \A f \in 1 .. n : face_materials'[f] = face_materials[f]
  BY <1>1, <1>5, <1>6, AppendFacts DEF ReadBackInv, UseInv
<1>14. \A f \in 1 .. n : MaterialOf(f)' = MaterialOf(f)
  BY <1>2, <1>5, <1>6, <1>13, MaterialKept DEF ReadBackInv
<1>15. MaterialOf(n + 1)' = used
  <2>1. MaterialOf(n + 1)' = IF firstUse = NotYet \/ n + 1 <= firstUse THEN NoName
                             ELSE MaterialName(face_materials'[n + 1])
    BY <1>2 DEF MaterialOf, MaterialName
  <2>2. CASE firstUse = NotYet
    BY <2>1, <2>2 DEF ReadBackInv, UseInv
  <2>3. CASE firstUse # NotYet
    <3>1. /\ firstUse <= n /\ firstUse \in Nat /\ material < Len(materials)
          /\ materials[material + 1].name = used
      BY <1>5, <1>6, <2>3 DEF ReadBackInv, UseInv
    <3>2. ~(firstUse = NotYet \/ n + 1 <= firstUse)
      BY <2>3, <3>1
    <3>3. MaterialName(face_materials'[n + 1]) = materials[material + 1].name
      BY <1>13, <3>1 DEF MaterialName
    <3> QED
      BY <2>1, <3>1, <3>2, <3>3
  <2> QED
    BY <2>2, <2>3
<1> DEFINE face == [corners |-> new, object |-> object.name, group |-> group.name,
                    material |-> used]
<1>16. Faces' = Append(Faces, face)
  <2>1. face = [corners |-> CornersOf(n + 1)', object |-> NameOf(n + 1, objects', object'),
                group |-> NameOf(n + 1, groups', group'), material |-> MaterialOf(n + 1)']
    BY <1>9, <1>11, <1>12, <1>15
  <2> HIDE DEF face
  <2>2. Len(face_vertices) = n /\ Len(face_vertices') = n + 1
    BY <1>5, <1>8
  <2> QED
    BY <1>9, <1>11, <1>12, <1>14, <2>1, <2>2, FacesGrow
<1>17. [c \in DOMAIN corners |-> Mesh!Meant(corners[c])] = new
  BY <1>3, MeantIsIndex DEF ReadBackInv, new
<1>18. Vertices' = Vertices /\ object'.name = object.name /\ group'.name = group.name
  BY <1>1, <1>2, <1>6 DEF Vertices, Group
<1>19. Mesh!Face
  BY <1>2, <1>16, <1>17, <1>18 DEF Mesh!Face
<1> QED
  BY <1>2, <1>19

\* The faces stay when no line adds to them: their corners are where they were,
\* the ranges go on naming them, and materials only come behind the others.
LEMMA FacesKept ==
    ASSUME NEW n \in Nat, Len(face_vertices) = n, Len(face_vertices') = n,
           \A f \in 1 .. n : /\ CornersOf(f)' = CornersOf(f)
                             /\ NameOf(f, objects', object') = NameOf(f, objects, object)
                             /\ NameOf(f, groups', group') = NameOf(f, groups, group)
                             /\ MaterialOf(f)' = MaterialOf(f)
    PROVE  Faces' = Faces
  BY DEF Faces

LEMMA CornersKept ==
    ASSUME UNCHANGED faceData, NEW f PROVE CornersOf(f)' = CornersOf(f)
  BY DEF CornersOf, FirstIndex, faceData

LEMMA MaterialsStay ==
    ASSUME UNCHANGED <<faceData, materials, history>>, NEW f
    PROVE  MaterialOf(f)' = MaterialOf(f)
  BY DEF MaterialOf, MaterialName, faceData, history

\* A vertex line is a vertex of the abstract specification.
LEMMA VertexRead ==
    IInv /\ IInv' /\ ReadBackInv /\ ParseVertex => Mesh!Vertex /\ pc # "done"
<1> SUFFICES ASSUME IInv, IInv', ReadBackInv, ParseVertex
             PROVE  Mesh!Vertex /\ pc # "done"
  OBVIOUS
<1>1. PICK colour \in Colour : positions' = Append(positions, colour)
  BY DEF ParseVertex, Colour
<1>2. PICK n \in Nat : n + 1 = Len(positions)
  <2>1. Len(positions) \in Nat /\ Len(positions) > 0
    BY DEF IInv, TypeOK, ReadBackInv
  <2>2. Len(positions) - 1 \in Nat /\ (Len(positions) - 1) + 1 = Len(positions)
    BY <2>1
  <2> QED
    BY <2>2
<1>3. positions \in Seq(Colour)
  BY VerticesRead
<1>4. /\ Len(positions') = n + 2 /\ positions'[n + 2] = colour
      /\ \A k \in 1 .. n + 1 : positions'[k] = positions[k]
  <2>1. Len(positions) + 1 = n + 2
    BY <1>2
  <2> QED
    BY <1>1, <1>2, <1>3, <2>1, AppendFacts
<1> DEFINE q == Vertices
           r == Vertices'
<1>5. q = [v \in 1 .. n |-> positions[v + 1]]
  <2>1. Len(positions) - 1 = n
    BY <1>2
  <2> QED
    BY <2>1, VerticesRead
<1>6. r = [v \in 1 .. n + 1 |-> positions'[v + 1]]
  <2>1. Len(positions') - 1 = n + 1
    BY <1>4
  <2> QED
    BY <2>1, VerticesReadNext
<1> HIDE DEF q, r
<1>7. IsTuple(q, n) /\ IsTuple(r, n + 1)
  BY <1>5, <1>6 DEF IsTuple
<1>8. \A k \in 1 .. n : r[k] = q[k]
  <2> TAKE k \in 1 .. n
  <2>1. k + 1 \in 1 .. n + 1 /\ k \in 1 .. n + 1
    OBVIOUS
  <2> QED
    BY <1>4, <1>5, <1>6, <2>1
<1>9. r[n + 1] = colour
  <2>1. n + 1 \in 1 .. n + 1 /\ (n + 1) + 1 = n + 2
    OBVIOUS
  <2> QED
    BY <1>4, <1>6, <2>1
<1>10. r = Append(q, colour)
  BY <1>7, <1>8, <1>9, AppendIs
<1>11. Vertices' = Append(Vertices, colour)
  BY <1>10 DEF q, r
<1>12. /\ UNCHANGED <<texcoords, normals, faceData, materials, objects, groups, object, group,
                      material, history>>
       /\ pc # "done"
  BY DEF ParseVertex, NextLine
<1>13. Faces' = Faces
  <2>1. /\ \A f \in 1 .. Len(face_vertices) : CornersOf(f)' = CornersOf(f) /\ MaterialOf(f)' = MaterialOf(f)
        /\ UNCHANGED <<objects, groups, object, group>> /\ Len(face_vertices) \in Nat
        /\ Len(face_vertices') = Len(face_vertices)
    BY <1>12, CornersKept, MaterialsStay DEF faceData, IInv, TypeOK
  <2> QED
    BY <2>1, FacesKept
<1>14. Mesh!Vertex
  BY <1>11, <1>12, <1>13 DEF Mesh!Vertex, Colour, history
<1> QED
  BY <1>12, <1>14

\* Lines that add no vertex leave the vertices read, though they fill colours.
LEMMA VerticesKept ==
    ASSUME IInv, IInv', positions' = positions PROVE Vertices' = Vertices
  BY VerticesRead, VerticesReadNext

\* A flush and a fresh range leave every face its name.
LEMMA NamesKept ==
    ASSUME NEW list \in Seq(Group), NEW current \in Group, NEW n \in Nat,
           current.face_offset + current.face_count = n,
           NEW more, more = Flush(list, current), NEW fresh \in Group, fresh.face_offset = n
    PROVE  \A f \in 1 .. n : NameOf(f, more, fresh) = NameOf(f, list, current)
  BY FlushNames

\* What the ranges of the state are, for the lines below.
LEMMA RangesNow ==
    ASSUME IInv
    PROVE  /\ objects \in Seq(Group) /\ object \in Group
           /\ groups \in Seq(Group) /\ group \in Group
           /\ Len(face_vertices) \in Nat
           /\ object.face_offset + object.face_count = Len(face_vertices)
           /\ group.face_offset + group.face_count = Len(face_vertices)
  BY DEF IInv, TypeOK, FacesTiled, Tiles

LEMMA FreshNow ==
    ASSUME IInv, NEW name \in Objects \cup Groups \cup {NoName}
    PROVE  Fresh(name) \in Group /\ Fresh(name).face_offset = Len(face_vertices)
           /\ Fresh(name).name = name
  BY FreshGroup DEF IInv, Fresh

LEMMA ObjectNames ==
    ASSUME IInv, objects' = Flush(objects, object),
           NEW name \in Objects \cup {NoName}, object' = Fresh(name)
    PROVE  \A f \in 1 .. Len(face_vertices) :
              NameOf(f, objects', object') = NameOf(f, objects, object)
<1> DEFINE fresh == Fresh(name)
           more == objects'
<1>1. fresh \in Group /\ fresh.face_offset = Len(face_vertices)
  BY FreshNow
<1>2. more = Flush(objects, object) /\ object' = fresh
  OBVIOUS
<1> HIDE DEF fresh, more
<1>3. \A f \in 1 .. Len(face_vertices) : NameOf(f, more, fresh) = NameOf(f, objects, object)
  BY <1>1, <1>2, RangesNow, NamesKept
<1> QED
  BY <1>2, <1>3 DEF more

LEMMA GroupNames ==
    ASSUME IInv, groups' = Flush(groups, group),
           NEW name \in Groups \cup {NoName}, group' = Fresh(name)
    PROVE  \A f \in 1 .. Len(face_vertices) :
              NameOf(f, groups', group') = NameOf(f, groups, group)
<1> DEFINE fresh == Fresh(name)
           more == groups'
<1>1. fresh \in Group /\ fresh.face_offset = Len(face_vertices)
  BY FreshNow
<1>2. more = Flush(groups, group) /\ group' = fresh
  OBVIOUS
<1> HIDE DEF fresh, more
<1>3. \A f \in 1 .. Len(face_vertices) : NameOf(f, more, fresh) = NameOf(f, groups, group)
  BY <1>1, <1>2, RangesNow, NamesKept
<1> QED
  BY <1>2, <1>3 DEF more

\* An o or g line only changes the name in force.
LEMMA ObjectRead ==
    IInv /\ IInv' /\ ParseObject => Mesh!SetName /\ pc # "done"
<1> SUFFICES ASSUME IInv, IInv', ParseObject PROVE Mesh!SetName /\ pc # "done"
  OBVIOUS
<1>1. PICK name \in Objects : object' = Fresh(name)
  BY DEF ParseObject
<1>2. /\ objects' = Flush(objects, object) /\ pc # "done"
      /\ UNCHANGED <<vertexData, faceData, materials, groups, group, material, history>>
  BY DEF ParseObject, NextLine
<1>3. object'.name = name
  BY <1>1, FreshNow
<1>4. Vertices' = Vertices
  BY <1>2, VerticesKept DEF vertexData
<1>5. Faces' = Faces
  <2>1. \A f \in 1 .. Len(face_vertices) : NameOf(f, objects', object') = NameOf(f, objects, object)
    BY <1>1, <1>2, ObjectNames
  <2>2. /\ \A f \in 1 .. Len(face_vertices) : CornersOf(f)' = CornersOf(f) /\ MaterialOf(f)' = MaterialOf(f)
        /\ UNCHANGED <<groups, group>> /\ Len(face_vertices') = Len(face_vertices)
    BY <1>2, CornersKept, MaterialsStay DEF faceData
  <2>3. Len(face_vertices) \in Nat
    BY RangesNow
  <2> QED
    BY <2>1, <2>2, <2>3, FacesKept
<1>6. Mesh!SetName
  BY <1>2, <1>3, <1>4, <1>5 DEF Mesh!SetName, vertexData, history
<1> QED
  BY <1>2, <1>6

LEMMA GroupRead ==
    IInv /\ IInv' /\ ParseGroup => Mesh!SetName /\ pc # "done"
<1> SUFFICES ASSUME IInv, IInv', ParseGroup PROVE Mesh!SetName /\ pc # "done"
  OBVIOUS
<1>1. PICK name \in Groups : group' = Fresh(name)
  BY DEF ParseGroup
<1>2. /\ groups' = Flush(groups, group) /\ pc # "done"
      /\ UNCHANGED <<vertexData, faceData, materials, objects, object, material, history>>
  BY DEF ParseGroup, NextLine
<1>3. group'.name = name
  BY <1>1, FreshNow
<1>4. Vertices' = Vertices
  BY <1>2, VerticesKept DEF vertexData
<1>5. Faces' = Faces
  <2>1. \A f \in 1 .. Len(face_vertices) : NameOf(f, groups', group') = NameOf(f, groups, group)
    BY <1>1, <1>2, GroupNames
  <2>2. /\ \A f \in 1 .. Len(face_vertices) : CornersOf(f)' = CornersOf(f) /\ MaterialOf(f)' = MaterialOf(f)
        /\ UNCHANGED <<objects, object>> /\ Len(face_vertices') = Len(face_vertices)
    BY <1>2, CornersKept, MaterialsStay DEF faceData
  <2>3. Len(face_vertices) \in Nat
    BY RangesNow
  <2> QED
    BY <2>1, <2>2, <2>3, FacesKept
<1>6. Mesh!SetName
  BY <1>2, <1>3, <1>4, <1>5 DEF Mesh!SetName, vertexData, history
<1> QED
  BY <1>2, <1>6

\* The end of the file clears the names in force and no face.
LEMMA EndRead == IInv /\ IInv' /\ EndFile => Mesh!End
<1> SUFFICES ASSUME IInv, IInv', EndFile PROVE Mesh!End
  OBVIOUS
<1>1. /\ objects' = Flush(objects, object) /\ object' = Fresh(NoName)
      /\ groups' = Flush(groups, group) /\ group' = Fresh(NoName) /\ pc' = "done"
      /\ UNCHANGED <<vertexData, faceData, materials, history>>
  BY DEF EndFile
<1>2. object'.name = NoName /\ group'.name = NoName
  BY <1>1, FreshNow
<1>3. Vertices' = Vertices
  BY <1>1, VerticesKept DEF vertexData
<1>4. Faces' = Faces
  <2>1. /\ \A f \in 1 .. Len(face_vertices) : NameOf(f, objects', object') = NameOf(f, objects, object)
        /\ \A f \in 1 .. Len(face_vertices) : NameOf(f, groups', group') = NameOf(f, groups, group)
    BY <1>1, ObjectNames, GroupNames
  <2>2. /\ \A f \in 1 .. Len(face_vertices) : CornersOf(f)' = CornersOf(f) /\ MaterialOf(f)' = MaterialOf(f)
        /\ Len(face_vertices') = Len(face_vertices)
    BY <1>1, CornersKept, MaterialsStay DEF faceData
  <2>3. Len(face_vertices) \in Nat
    BY RangesNow
  <2> QED
    BY <2>1, <2>2, <2>3, FacesKept
<1> QED
  BY <1>1, <1>2, <1>3, <1>4 DEF Mesh!End, vertexData, history

\* A usemtl line only changes the material in force; the faces before it keep
\* theirs, though their numbers are looked up in an array that may have grown.
LEMMA UseRead ==
    IInv /\ IInv' /\ ReadBackInv /\ ParseUsemtl => Mesh!SetName /\ pc # "done"
<1> SUFFICES ASSUME IInv, IInv', ReadBackInv, ParseUsemtl PROVE Mesh!SetName /\ pc # "done"
  OBVIOUS
<1>1. /\ UNCHANGED <<vertexData, faceData, objects, groups, object, group>> /\ pc # "done"
      /\ firstUse' = IF firstUse = NotYet THEN Len(face_vertices) ELSE firstUse
      /\ UNCHANGED materials \/ \E m \in Material : materials' = Append(materials, m)
  BY DEF ParseUsemtl, NextLine, Material
<1>2. used' \in Materials
  BY UseStep DEF ReadBackInv
<1>3. materials \in Seq(Material) /\ Len(face_vertices) \in Nat
  BY DEF IInv, TypeOK, Material
<1>4. /\ Len(materials') \in Nat /\ Len(materials') >= Len(materials)
      /\ \A k \in 1 .. Len(materials) : materials'[k] = materials[k]
  <2>1. CASE UNCHANGED materials
    BY <1>3, <2>1
  <2>2. CASE \E m \in Material : materials' = Append(materials, m)
    BY <1>3, <2>2
  <2> QED
    BY <1>1, <2>1, <2>2
<1>5. Vertices' = Vertices
  BY <1>1, VerticesKept DEF vertexData
<1>6. Faces' = Faces
  <2>1. ASSUME NEW f \in 1 .. Len(face_vertices) PROVE MaterialOf(f)' = MaterialOf(f)
    <3>1. face_materials'[f] = face_materials[f]
      BY <1>1 DEF faceData
    <3>2. firstUse' = firstUse \/ (firstUse = NotYet /\ f <= firstUse')
      BY <1>1, <1>3
    <3>3. UseInv
      BY DEF ReadBackInv
    <3> QED
      BY <1>4, <3>1, <3>2, <3>3, MaterialKept
  <2>2. /\ \A f \in 1 .. Len(face_vertices) : CornersOf(f)' = CornersOf(f)
        /\ UNCHANGED <<objects, groups, object, group>> /\ Len(face_vertices') = Len(face_vertices)
    BY <1>1, CornersKept DEF faceData
  <2> QED
    BY <1>3, <2>1, <2>2, FacesKept
<1>7. Mesh!SetName
  BY <1>1, <1>2, <1>5, <1>6 DEF Mesh!SetName, vertexData
<1> QED
  BY <1>1, <1>7

\* A mtllib line changes nothing of the mesh.
LEMMA MtllibRead ==
    IInv /\ IInv' /\ ReadBackInv /\ ParseMtllib => UNCHANGED Mesh!vars
<1> SUFFICES ASSUME IInv, IInv', ReadBackInv, ParseMtllib PROVE UNCHANGED Mesh!vars
  OBVIOUS
<1>1. /\ UNCHANGED <<vertexData, faceData, objects, groups, object, group, material, history>>
      /\ pc # "done" /\ pc' # "done"
  BY DEF ParseMtllib, NextLine
<1>2. Len(face_vertices) \in Nat
  BY DEF IInv, TypeOK
<1>3. Vertices' = Vertices
  BY <1>1, VerticesKept DEF vertexData
<1>4. Faces' = Faces
  <2>1. ASSUME NEW f \in 1 .. Len(face_vertices) PROVE MaterialOf(f)' = MaterialOf(f)
    <3>1. face_materials'[f] = face_materials[f] /\ firstUse' = firstUse
      BY <1>1 DEF faceData, history
    <3>2. UseInv
      BY DEF ReadBackInv
    <3> QED
      BY <3>1, <3>2, MtllibStep, MaterialKept
  <2>2. /\ \A f \in 1 .. Len(face_vertices) : CornersOf(f)' = CornersOf(f)
        /\ UNCHANGED <<objects, groups, object, group>> /\ Len(face_vertices') = Len(face_vertices)
    BY <1>1, CornersKept DEF faceData
  <2> QED
    BY <1>2, <2>1, <2>2, FacesKept
<1> QED
  BY <1>1, <1>3, <1>4 DEF Mesh!vars, vertexData, history

\* Nor does the end of a buffer, though it fills colours.
LEMMA EndBufferRead == IInv /\ IInv' /\ EndBuffer => UNCHANGED Mesh!vars
<1> SUFFICES ASSUME IInv, IInv', EndBuffer PROVE UNCHANGED Mesh!vars
  OBVIOUS
<1>1. /\ UNCHANGED <<positions, texcoords, normals, faceData, materials, objects, groups,
                     object, group, material, history>>
      /\ pc # "done" /\ pc' # "done"
  BY DEF EndBuffer
<1>2. Vertices' = Vertices
  BY <1>1, VerticesKept
<1>3. Faces' = Faces
  <2>1. /\ \A f \in 1 .. Len(face_vertices) : CornersOf(f)' = CornersOf(f) /\ MaterialOf(f)' = MaterialOf(f)
        /\ UNCHANGED <<objects, groups, object, group>> /\ Len(face_vertices') = Len(face_vertices)
        /\ Len(face_vertices) \in Nat
    BY <1>1, CornersKept, MaterialsStay DEF faceData, IInv, TypeOK
  <2> QED
    BY <2>1, FacesKept
<1> QED
  BY <1>1, <1>2, <1>3 DEF Mesh!vars, history

LEMMA TexcoordOrNormalRead ==
    IInv /\ IInv' /\ (ParseTexcoord \/ ParseNormal) => Mesh!TexcoordOrNormal /\ pc # "done"
<1> SUFFICES ASSUME IInv, IInv', ParseTexcoord \/ ParseNormal
             PROVE  Mesh!TexcoordOrNormal /\ pc # "done"
  OBVIOUS
<1>1. /\ UNCHANGED <<positions, faceData, materials, objects, groups, object, group, material, history>>
      /\ pc # "done"
      /\ \/ texcoords' = texcoords + 1 /\ UNCHANGED normals
         \/ normals' = normals + 1 /\ UNCHANGED texcoords
      /\ texcoords \in Nat /\ normals \in Nat
  BY DEF ParseTexcoord, ParseNormal, NextLine, IInv, TypeOK
<1>2. Vertices' = Vertices
  BY <1>1, VerticesKept
<1>3. Faces' = Faces
  <2>1. /\ \A f \in 1 .. Len(face_vertices) : CornersOf(f)' = CornersOf(f) /\ MaterialOf(f)' = MaterialOf(f)
        /\ UNCHANGED <<objects, groups, object, group>> /\ Len(face_vertices') = Len(face_vertices)
        /\ Len(face_vertices) \in Nat
    BY <1>1, CornersKept, MaterialsStay DEF faceData, IInv, TypeOK
  <2> QED
    BY <2>1, FacesKept
<1>4. \/ texcoords' - 1 = (texcoords - 1) + 1 /\ UNCHANGED normals
      \/ normals' - 1 = (normals - 1) + 1 /\ UNCHANGED texcoords
  BY <1>1
<1> QED
  BY <1>1, <1>2, <1>3, <1>4 DEF Mesh!TexcoordOrNormal, history

\* Every line is a line of the abstract specification, or nothing to it.
LEMMA LineRead ==
    IInv /\ IInv' /\ IndexInv /\ ReadBackInv /\ BadCorners = FALSE /\ [Next]_vars
        => [Mesh!Next]_(Mesh!vars)
<1> SUFFICES ASSUME IInv, IInv', IndexInv, ReadBackInv, BadCorners = FALSE, [Next]_vars
             PROVE  [Mesh!Next]_(Mesh!vars)
  OBVIOUS
<1>1. NextLine => (pc = "done")' = (pc = "done")
  BY DEF NextLine
<1>2. CASE ParseVertex
  BY <1>1, <1>2, VertexRead DEF Mesh!Next, Mesh!Line, ParseVertex
<1>3. CASE ParseTexcoord \/ ParseNormal
  BY <1>1, <1>3, TexcoordOrNormalRead DEF Mesh!Next, Mesh!Line, ParseTexcoord, ParseNormal
<1>4. CASE ParseFace
  BY <1>1, <1>4, FaceRead DEF Mesh!Next, Mesh!Line, ParseFace
<1>5. CASE ParseObject
  BY <1>1, <1>5, ObjectRead DEF Mesh!Next, Mesh!Line, ParseObject
<1>6. CASE ParseGroup
  BY <1>1, <1>6, GroupRead DEF Mesh!Next, Mesh!Line, ParseGroup
<1>7. CASE ParseUsemtl
  BY <1>1, <1>7, UseRead DEF Mesh!Next, Mesh!Line, ParseUsemtl
<1>8. CASE ParseMtllib
  BY <1>8, MtllibRead
<1>9. CASE EndBuffer
  BY <1>9, EndBufferRead
<1>10. CASE EndFile
  BY <1>10, EndRead DEF Mesh!Next
<1>11. CASE UNCHANGED vars
  BY <1>11 DEF vars, vertexData, faceData, history, Mesh!vars, Vertices, Faces, CornersOf,
     FirstIndex, MaterialOf, MaterialName
<1> QED
  BY <1>2, <1>3, <1>4, <1>5, <1>6, <1>7, <1>8, <1>9, <1>10, <1>11 DEF Next, Done

LEMMA ReadInit == Init => Mesh!Init
<1> SUFFICES ASSUME Init PROVE Mesh!Init
  OBVIOUS
<1>1. Vertices = <<>>
  BY DEF Init, Vertices
<1>2. Faces = <<>>
  BY DEF Init, Faces
<1> QED
  BY <1>1, <1>2 DEF Init, Mesh!Init, Default

\* The flat arrays say what the lines of the file said: parse_buffer implements
\* the specification of the mesh, for files of any length, with any groups,
\* objects and materials in any order, in which it can read every corner.
THEOREM ObjMeshTheorem == BadCorners = FALSE => (Spec => ObjMeshSpec)
<1> SUFFICES ASSUME BadCorners = FALSE PROVE Spec => ObjMeshSpec
  OBVIOUS
<1>1. IInv /\ IndexInv /\ BadCorners = FALSE /\ [Next]_vars => IndexInv'
  BY IndexStep
<1>2. IInv /\ ReadBackInv /\ BadCorners = FALSE /\ [Next]_vars => ReadBackInv'
  BY ReadBackStep
<1>3. IInv /\ IInv' /\ IndexInv /\ ReadBackInv /\ BadCorners = FALSE /\ [Next]_vars
        => [Mesh!Next]_(Mesh!vars)
  BY LineRead
<1> QED
  BY <1>1, <1>2, <1>3, Inductive, IndexInit, ReadBackInit, ReadInit, PTL
     DEF Spec, ObjMeshSpec, Mesh!Spec
=============================================================================
