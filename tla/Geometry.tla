------------------------------ MODULE Geometry ------------------------------
(***************************************************************************)
(* Engine::LoadGeometry: the faces of a mesh are cut into triangle fans.   *)
(* A first loop counts the indices, two buffers of that size are allocated *)
(* and a second loop fills them, one vertex of its own per index.          *)
(***************************************************************************)
EXTENDS FlatArrays, SequencesExt

CONSTANTS
    Uint16Modulus,  \* 2^16
    Uint32Modulus,  \* 2^32
    CornerCounts,   \* the face_vertices that faces of a run have
    FaceLimit,      \* bound of a run: the largest face_count
    Builds          \* "Debug" checks the asserts, "Release" does not

ASSUME ModulusAssumption ==
    Uint16Modulus \in Nat /\ Uint32Modulus \in Nat /\ 0 < Uint16Modulus
                          /\ Uint16Modulus <= Uint32Modulus
ASSUME FaceAssumption ==
    CornerCounts \subseteq 0 .. Uint32Modulus - 1 /\ FaceLimit \in Nat
ASSUME BuildsAssumption == Builds \subseteq {"Debug", "Release"}

VARIABLES
    pc,                  \* "count", "fan", "check", "done" or "aborted"
    build,
    face_vertices,       \* of the mesh
    i, j,                \* of the loop at pc
    totalOutputIndices,
    baseIndex,
    outputIndex,
    outputVertex,        \* a uint16_t
    output,              \* the vertices: the mesh index each is copied from
    outputIndices,
    counted,             \* history: totalOutputIndices before each face
    wrapped              \* history: totalOutputIndices left 32 bits

vars == <<pc, build, face_vertices, i, j, totalOutputIndices, baseIndex,
          outputIndex, outputVertex, output, outputIndices, counted, wrapped>>
history == <<counted, wrapped>>

UINT16_MAX == Uint16Modulus - 1
Meshes == UNION {[1 .. n -> CornerCounts] : n \in 0 .. FaceLimit}
face_count == Len(face_vertices)
faceIndexCount == face_vertices[i + 1]

\* What calloc leaves where nothing was written.
Zero == -1

Init ==
    /\ pc = "count"
    /\ build \in Builds
    /\ face_vertices \in Meshes
    /\ i = 0 /\ j = 1
    /\ totalOutputIndices = 0
    /\ baseIndex = 0 /\ outputIndex = 0 /\ outputVertex = 0
    /\ output = << >> /\ outputIndices = << >>
    /\ counted = [f \in 0 .. face_count |-> 0] /\ wrapped = FALSE

-----------------------------------------------------------------------------

\* Variant: one triangle too few for each face.
IndicesOfSmallerFace(n) == (n - 3) * 3

\* What a face adds to totalOutputIndices, before the sum is cut to 32 bits.
IndicesOfFace(n) == (n - 2) * 3

CountFace ==
    /\ pc = "count" /\ i < face_count
    /\ LET sum == totalOutputIndices + IndicesOfFace(faceIndexCount)
       IN  /\ totalOutputIndices' = sum % Uint32Modulus
           /\ wrapped' = (wrapped \/ sum \notin 0 .. Uint32Modulus - 1)
           /\ counted' = [counted EXCEPT ![i + 1] = sum % Uint32Modulus]
    /\ i' = i + 1
    /\ UNCHANGED <<pc, build, face_vertices, j, baseIndex, outputIndex,
                   outputVertex, output, outputIndices>>

AssertPasses(condition) == condition \/ build = "Release"

Allocate ==
    /\ pc = "count" /\ i = face_count
    /\ output' = [k \in 0 .. totalOutputIndices - 1 |-> Zero]
    /\ outputIndices' = [k \in 0 .. totalOutputIndices - 1 |-> 0]
    /\ pc' = IF AssertPasses(totalOutputIndices <= UINT16_MAX) THEN "fan" ELSE "aborted"
    /\ i' = 0
    /\ UNCHANGED <<build, face_vertices, j, totalOutputIndices, baseIndex,
                   outputIndex, outputVertex, history>>

\* Each value at its index; what lies outside the allocation is lost.
Store(buffer, at, values) ==
    [k \in DOMAIN buffer |->
        IF \E c \in DOMAIN values : at[c] = k
        THEN values[CHOOSE c \in DOMAIN values : at[c] = k]
        ELSE buffer[k]]

\* Variant: the fan turns around the previous corner.
StripCorners == <<baseIndex + j - 1, baseIndex + j, baseIndex + j + 1>>

\* index0, index1 and index2: the mesh indices of a triangle.
FanCorners == <<baseIndex, baseIndex + j, baseIndex + j + 1>>

\* The condition of the inner loop.
HasTriangle ==
    pc = "fan" /\ i < face_count /\ j < (faceIndexCount - 1) % Uint32Modulus

\* Variant: a counter as wide as outputIndex.
NextVertexUnbounded(vertex) == vertex + 3
NextVertex(vertex) == (vertex + 3) % Uint16Modulus

\* The three assignments to output and to outputIndices of one iteration.
EmitTriangle ==
    LET vertex == [c \in 1 .. 3 |-> (outputVertex + c - 1) % Uint16Modulus]
        index == [c \in 1 .. 3 |-> outputIndex + c - 1]
    IN  /\ HasTriangle
        /\ output' = Store(output, vertex, FanCorners)
        /\ outputIndices' = Store(outputIndices, index, vertex)
        /\ outputIndex' = (outputIndex + 3) % Uint32Modulus
        /\ outputVertex' = NextVertex(outputVertex)
        /\ j' = j + 1
        /\ UNCHANGED <<pc, build, face_vertices, i, totalOutputIndices, baseIndex,
                       history>>

NextFace ==
    /\ pc = "fan" /\ i < face_count
    /\ j >= (faceIndexCount - 1) % Uint32Modulus
    /\ baseIndex' = (baseIndex + faceIndexCount) % Uint32Modulus
    /\ i' = i + 1
    /\ j' = 1
    /\ UNCHANGED <<pc, build, face_vertices, totalOutputIndices, outputIndex,
                   outputVertex, output, outputIndices, history>>

EndFaces ==
    /\ pc = "fan" /\ i = face_count
    /\ pc' = "check"
    /\ UNCHANGED <<build, face_vertices, i, j, totalOutputIndices, baseIndex,
                   outputIndex, outputVertex, output, outputIndices, history>>

\* The asserts behind the loops; the geometry_t is filled from the variables.
Return ==
    /\ pc = "check"
    /\ pc' = IF /\ AssertPasses(outputIndex = totalOutputIndices)
                /\ AssertPasses(outputVertex = totalOutputIndices)
             THEN "done" ELSE "aborted"
    /\ UNCHANGED <<build, face_vertices, i, j, totalOutputIndices, baseIndex,
                   outputIndex, outputVertex, output, outputIndices, history>>

Ended == pc \in {"done", "aborted"} /\ UNCHANGED vars

Next ==
    \/ CountFace \/ Allocate
    \/ EmitTriangle \/ NextFace \/ EndFaces
    \/ Return \/ Ended

Spec == Init /\ [][Next]_vars
FairSpec == Spec /\ WF_vars(Next)

-----------------------------------------------------------------------------

TypeOK ==
    /\ pc \in {"count", "fan", "check", "done", "aborted"}
    /\ build \in Builds
    /\ face_vertices \in Seq(CornerCounts)
    /\ i \in 0 .. face_count /\ j \in 1 .. Uint32Modulus
    /\ totalOutputIndices \in 0 .. Uint32Modulus - 1
    /\ baseIndex \in 0 .. Uint32Modulus - 1
    /\ outputIndex \in 0 .. Uint32Modulus - 1
    /\ outputVertex \in 0 .. UINT16_MAX
    /\ counted \in [0 .. face_count -> 0 .. Uint32Modulus - 1]
    /\ wrapped \in BOOLEAN

\* The reference: corner c of triangle t of a face with n corners whose first
\* mesh index is base, and all corners of all faces in order.
FanOfFace(base, n) ==
    FlattenSeq([t \in 1 .. (IF n > 2 THEN n - 2 ELSE 0) |-> <<base, base + t, base + t + 1>>])
FirstIndex(f) == Sums(face_vertices)[f - 1]
Fan == FlattenSeq([f \in DOMAIN face_vertices |-> FanOfFace(FirstIndex(f), face_vertices[f])])

NoDegenerateFace == \A f \in DOMAIN face_vertices : face_vertices[f] >= 2
\* parse_face makes a face without corners of "f" alone.
NoEmptyFace == \A f \in DOMAIN face_vertices : face_vertices[f] >= 1

\* A geometry that LoadGeometry returns draws the triangle fan of every face,
\* in order and without a gap: what the indices select from the vertices is the
\* reference. Of meshes whose faces have a corner a Debug build returns nothing
\* else; a Release build does not notice a face with one corner, nor more indices
\* than a uint16_t counts. A face without corners no assert is sure to notice: the
\* second loop turns nearly 2^32 times for it, far outside of the arrays, and both
\* counts end up lower by the same six.
DrawsTheFan ==
    /\ pc = "done"
    /\ \/ build = "Debug" /\ NoEmptyFace
       \/ NoDegenerateFace /\ Len(Fan) <= UINT16_MAX
    =>  /\ outputIndex = Len(Fan) /\ outputVertex = Len(Fan)
        /\ \A k \in 0 .. outputIndex - 1 : output[outputIndices[k]] = Fan[k + 1]

\* As long as every face has two corners or more and the count stays below
\* 2^32, the loop that fills the buffers stays inside what the other counted.
WritesInBounds ==
    NoDegenerateFace /\ ~wrapped /\ HasTriangle =>
        outputIndex + 3 <= totalOutputIndices

\* Then both loops agree on the number of indices, and on the number of vertices
\* if a uint16_t counts it: the asserts behind the loops hold.
CountsAgree ==
    NoDegenerateFace /\ ~wrapped /\ pc = "check" =>
        /\ outputIndex = totalOutputIndices
        /\ totalOutputIndices <= UINT16_MAX => outputVertex = totalOutputIndices

\* The faces counted so far: totalOutputIndices is the last of the sums in
\* counted, none of which exceeds it.
CountInv ==
    /\ pc = "count" => j = 1 /\ outputIndex = 0 /\ outputVertex = 0
    /\ NoDegenerateFace /\ ~wrapped =>
         LET known == IF pc = "count" THEN i ELSE face_count
         IN  /\ counted[0] = 0
             /\ counted[known] = totalOutputIndices
             /\ \A f \in 0 .. known : counted[f] <= totalOutputIndices
             /\ \A f \in 0 .. known - 1 :
                  counted[f + 1] = counted[f] + IndicesOfFace(face_vertices[f + 1])

\* The triangles emitted so far: those of the faces before i and j - 1 of face i.
EmitInv ==
    /\ pc = "fan" /\ i < face_count /\ NoDegenerateFace => j <= faceIndexCount - 1
    /\ pc = "fan" /\ i = face_count => j = 1
    /\ pc = "check" => i = face_count /\ j = 1
    /\ pc \in {"fan", "check"} /\ NoDegenerateFace /\ ~wrapped =>
         /\ outputIndex = counted[i] + 3 * (j - 1)
         /\ totalOutputIndices <= UINT16_MAX => outputVertex = outputIndex

\* The inductive invariant of the proofs.
IInv == TypeOK /\ CountInv /\ EmitInv

\* assert(outputIndex == totalOutputIndices), also of a face with one corner.
IndexAssert == pc = "check" => outputIndex = totalOutputIndices
=============================================================================
