--------------------------- MODULE GeometryProofs ---------------------------
(* The two loops of LoadGeometry agree, for every mesh and all widths of the *)
(* integers: as long as the count does not leave its 32 bits and no face is  *)
(* degenerate, the second loop writes just what the first has counted.       *)
EXTENDS Geometry, FlatArraysProofs

USE ModulusAssumption, FaceAssumption

LEMMA ModRange ==
    ASSUME NEW a \in Int, NEW m \in Nat \ {0}
    PROVE  a % m \in 0 .. m - 1
  OBVIOUS

LEMMA ModSmall ==
    ASSUME NEW m \in Nat \ {0}, NEW a \in 0 .. m - 1
    PROVE  a % m = a
  OBVIOUS

LEMMA Mod32 ==
    ASSUME NEW a \in Int
    PROVE  /\ a % Uint32Modulus \in 0 .. Uint32Modulus - 1
           /\ a \in 0 .. Uint32Modulus - 1 => a % Uint32Modulus = a
<1>1. Uint32Modulus \in Nat \ {0}
  OBVIOUS
<1> QED
  BY <1>1, ModRange, ModSmall

LEMMA Mod16 ==
    ASSUME NEW a \in Int
    PROVE  /\ a % Uint16Modulus \in 0 .. Uint16Modulus - 1
           /\ a \in 0 .. Uint16Modulus - 1 => a % Uint16Modulus = a
<1>1. Uint16Modulus \in Nat \ {0}
  OBVIOUS
<1> QED
  BY <1>1, ModRange, ModSmall

LEMMA InvInit == Init => IInv
<1> SUFFICES ASSUME Init PROVE IInv
  OBVIOUS
<1>1. PICK n \in 0 .. FaceLimit : face_vertices \in [1 .. n -> CornerCounts]
  BY DEF Init, Meshes
<1>2. face_vertices \in Seq(CornerCounts) /\ Len(face_vertices) \in Nat
  BY <1>1
<1>3. counted \in [0 .. face_count -> 0 .. Uint32Modulus - 1] /\ counted[0] = 0
  BY <1>2 DEF Init, face_count
<1>4. TypeOK
  <2>1. /\ i \in 0 .. face_count /\ j \in 1 .. Uint32Modulus
        /\ 0 \in 0 .. Uint32Modulus - 1 /\ 0 \in 0 .. UINT16_MAX
    BY <1>2 DEF Init, face_count, UINT16_MAX
  <2> QED
    BY <1>2, <1>3, <2>1 DEF Init, TypeOK
<1>5. CountInv
  <2>1. i = 0 /\ pc = "count" /\ counted[0] = 0 /\ totalOutputIndices = 0
    BY <1>3 DEF Init
  <2>2. (\A f \in 0 .. 0 : f = 0) /\ 0 .. 0 - 1 = {}
    OBVIOUS
  <2> QED
    BY <2>1, <2>2 DEF Init, CountInv
<1> QED
  BY <1>4, <1>5 DEF Init, IInv, EmitInv

\* What is known of the mesh in every state.
LEMMA MeshFacts ==
    ASSUME TypeOK
    PROVE  /\ face_count \in Nat
           /\ \A f \in 1 .. face_count : face_vertices[f] \in 0 .. Uint32Modulus - 1
           /\ NoDegenerateFace => \A f \in 1 .. face_count : face_vertices[f] >= 2
<1>1. face_vertices \in Seq(CornerCounts) /\ face_count = Len(face_vertices)
  BY DEF TypeOK, face_count
<1>2. DOMAIN face_vertices = 1 .. face_count /\ face_count \in Nat
  BY <1>1
<1>3. \A f \in 1 .. face_count : face_vertices[f] \in CornerCounts
  BY <1>1, <1>2
<1> QED
  BY <1>2, <1>3 DEF NoDegenerateFace

LEMMA InvCountFace == IInv /\ CountFace => IInv'
<1> SUFFICES ASSUME IInv, CountFace PROVE IInv'
  OBVIOUS
<1> USE DEF IInv
<1> DEFINE n == faceIndexCount
           sum == totalOutputIndices + IndicesOfFace(n)
<1>1. /\ pc = "count" /\ i < face_count
      /\ totalOutputIndices' = sum % Uint32Modulus
      /\ wrapped' = (wrapped \/ sum \notin 0 .. Uint32Modulus - 1)
      /\ counted' = [counted EXCEPT ![i + 1] = sum % Uint32Modulus]
      /\ i' = i + 1
      /\ UNCHANGED <<pc, build, face_vertices, j, baseIndex, outputIndex,
                     outputVertex, output, outputIndices>>
  BY DEF CountFace
<1>2. n \in 0 .. Uint32Modulus - 1 /\ i + 1 \in 1 .. face_count /\ i \in Nat
  BY <1>1, MeshFacts DEF faceIndexCount, TypeOK
<1>3. sum \in Int /\ totalOutputIndices' \in 0 .. Uint32Modulus - 1
  <2>1. sum \in Int
    BY <1>2 DEF TypeOK, IndicesOfFace
  <2> QED
    BY <1>1, <2>1, Mod32, Mod16
<1> HIDE DEF sum, n
<1>4. TypeOK'
  BY <1>1, <1>2, <1>3 DEF TypeOK, face_count
<1>5. CountInv'
  <2>1. pc' = "count" /\ j' = 1 /\ outputIndex' = 0 /\ outputVertex' = 0
    BY <1>1 DEF CountInv
  <2>2. SUFFICES ASSUME NoDegenerateFace', ~wrapped'
                 PROVE  /\ counted'[0] = 0
                        /\ counted'[i'] = totalOutputIndices'
                        /\ \A f \in 0 .. i' : counted'[f] <= totalOutputIndices'
                        /\ \A f \in 0 .. i' - 1 :
                             counted'[f + 1] = counted'[f] + IndicesOfFace(face_vertices'[f + 1])
    BY <2>1 DEF CountInv, IndicesOfFace
  <2>3. NoDegenerateFace /\ ~wrapped /\ sum \in 0 .. Uint32Modulus - 1
    BY <1>1, <2>2 DEF NoDegenerateFace, TypeOK
  <2>4. totalOutputIndices' = sum
    BY <1>1, <2>3, Mod32
  <2>5. /\ counted[0] = 0
        /\ counted[i] = totalOutputIndices
        /\ \A f \in 0 .. i : counted[f] <= totalOutputIndices
        /\ \A f \in 0 .. i - 1 :
             counted[f + 1] = counted[f] + IndicesOfFace(face_vertices[f + 1])
    BY <1>1, <2>3 DEF CountInv
  <2>6. counted'[i + 1] = sum /\ \A f \in 0 .. i : counted'[f] = counted[f]
    BY <1>1, <1>2, <2>4 DEF TypeOK
  <2>7. n >= 2 /\ sum = totalOutputIndices + (n - 2) * 3
    BY <1>2, <2>3, MeshFacts DEF n, sum, faceIndexCount, IndicesOfFace
  <2>8. sum >= totalOutputIndices
    BY <1>2, <2>7 DEF TypeOK
  <2>9. counted'[0] = 0 /\ counted'[i'] = totalOutputIndices'
    BY <1>1, <1>2, <2>4, <2>5, <2>6
  <2>10. \A f \in 0 .. i' : counted'[f] <= totalOutputIndices'
    <3>1. SUFFICES ASSUME NEW f \in 0 .. i + 1 PROVE counted'[f] <= sum
      BY <1>1, <2>4
    <3>2. CASE f = i + 1
      BY <2>3, <2>6, <3>2
    <3>3. CASE f \in 0 .. i
      <4>1. counted[f] <= totalOutputIndices
        BY <2>5, <3>3
      <4>2. counted[f] \in Int /\ totalOutputIndices \in Int
        <5>1. f \in 0 .. face_count
          BY <1>1, <1>2, <3>3, MeshFacts
        <5> QED
          BY <5>1 DEF TypeOK
      <4> QED
        BY <1>3, <2>6, <2>8, <3>3, <4>1, <4>2
    <3> QED
      BY <1>2, <3>2, <3>3
  <2>11. \A f \in 0 .. i' - 1 :
           counted'[f + 1] = counted'[f] + IndicesOfFace(face_vertices'[f + 1])
    <3>1. SUFFICES ASSUME NEW f \in 0 .. i
                   PROVE  counted'[f + 1] = counted'[f] + IndicesOfFace(face_vertices[f + 1])
      BY <1>1, <1>2
    <3>2. CASE f = i
      <4>1. counted'[i] = counted[i] /\ counted[i] = totalOutputIndices
        BY <1>2, <2>5, <2>6
      <4> QED
        BY <2>6, <3>2, <4>1 DEF sum, n, faceIndexCount
    <3>3. CASE f \in 0 .. i - 1
      BY <1>2, <2>5, <2>6, <3>3
    <3> QED
      BY <1>2, <3>2, <3>3
  <2> QED
    BY <2>9, <2>10, <2>11
<1>6. EmitInv'
  BY <1>1 DEF EmitInv
<1> QED
  BY <1>4, <1>5, <1>6

LEMMA InvAllocate == IInv /\ Allocate => IInv'
<1> SUFFICES ASSUME IInv, Allocate PROVE IInv'
  OBVIOUS
<1> USE DEF IInv
<1>1. /\ pc = "count" /\ i = face_count /\ i' = 0 /\ pc' \in {"fan", "aborted"}
      /\ UNCHANGED <<build, face_vertices, j, totalOutputIndices, baseIndex,
                     outputIndex, outputVertex, counted, wrapped>>
  BY DEF Allocate, history
<1>2. j = 1 /\ outputIndex = 0 /\ outputVertex = 0
  BY <1>1 DEF CountInv
<1>3. TypeOK'
  BY <1>1, MeshFacts DEF TypeOK, face_count
<1>4. CountInv'
  BY <1>1 DEF CountInv, NoDegenerateFace, face_count, IndicesOfFace
<1>5. EmitInv'
  <2>1. face_count' = face_count /\ NoDegenerateFace' = NoDegenerateFace
    BY <1>1 DEF face_count, NoDegenerateFace
  <2>2. NoDegenerateFace /\ 0 < face_count => 1 <= face_vertices[1] - 1
    BY MeshFacts
  <2>3. NoDegenerateFace /\ ~wrapped => outputIndex = counted[0] + 3 * (j - 1)
    BY <1>1, <1>2 DEF CountInv
  <2> QED
    BY <1>1, <1>2, <2>1, <2>2, <2>3 DEF EmitInv, faceIndexCount
<1> QED
  BY <1>3, <1>4, <1>5

\* What the first loop left behind, for the face at i.
LEMMA CountedStep ==
    ASSUME IInv, pc = "fan", i \in Nat, i < face_count, NoDegenerateFace, ~wrapped
    PROVE  counted[i + 1] = counted[i] + (face_vertices[i + 1] - 2) * 3
<1>1. face_count \in Nat
  BY MeshFacts DEF IInv
<1>2. i \in 0 .. face_count - 1
  BY <1>1
<1>3. \A f \in 0 .. face_count - 1 :
         counted[f + 1] = counted[f] + IndicesOfFace(face_vertices[f + 1])
  BY DEF IInv, CountInv
<1> QED
  BY <1>2, <1>3 DEF IndicesOfFace

\* A triangle that is still to come was counted.
LEMMA EmitBound ==
    ASSUME IInv, HasTriangle, NoDegenerateFace, ~wrapped
    PROVE  outputIndex + 3 <= totalOutputIndices
<1>1. /\ pc = "fan" /\ i \in Nat /\ i < face_count /\ i + 1 \in 1 .. face_count
      /\ faceIndexCount \in 0 .. Uint32Modulus - 1
      /\ j < (faceIndexCount - 1) % Uint32Modulus
  BY MeshFacts DEF HasTriangle, IInv, TypeOK, faceIndexCount
<1>2. faceIndexCount - 1 \in 0 .. Uint32Modulus - 1
  BY <1>1, MeshFacts DEF IInv, faceIndexCount
<1>3. j + 1 <= faceIndexCount - 1 /\ j \in Int
  <2>1. (faceIndexCount - 1) % Uint32Modulus = faceIndexCount - 1
    BY <1>2, Mod32
  <2> QED
    BY <1>1, <2>1 DEF IInv, TypeOK
<1>4. outputIndex = counted[i] + 3 * (j - 1) /\ counted[i] \in Int
  BY <1>1 DEF IInv, EmitInv, TypeOK
<1>5. counted[i + 1] = counted[i] + (faceIndexCount - 2) * 3
  BY <1>1, CountedStep DEF faceIndexCount
<1>6. counted[i + 1] <= totalOutputIndices /\ totalOutputIndices \in Int
  BY <1>1 DEF IInv, CountInv, TypeOK
<1> QED
  BY <1>1, <1>3, <1>4, <1>5, <1>6

LEMMA InvEmitTriangle == IInv /\ EmitTriangle => IInv'
<1> SUFFICES ASSUME IInv, EmitTriangle PROVE IInv'
  OBVIOUS
<1> USE DEF IInv
<1>1. /\ HasTriangle
      /\ outputIndex' = (outputIndex + 3) % Uint32Modulus
      /\ outputVertex' = (outputVertex + 3) % Uint16Modulus
      /\ j' = j + 1
      /\ UNCHANGED <<pc, build, face_vertices, i, totalOutputIndices, baseIndex,
                     counted, wrapped>>
  BY DEF EmitTriangle, NextVertex, history
<1>2. /\ pc = "fan" /\ i \in Nat /\ i < face_count /\ i + 1 \in 1 .. face_count
      /\ faceIndexCount \in 0 .. Uint32Modulus - 1
      /\ j < (faceIndexCount - 1) % Uint32Modulus
  BY <1>1, MeshFacts DEF HasTriangle, TypeOK, faceIndexCount
<1>3. (faceIndexCount - 1) % Uint32Modulus \in 0 .. Uint32Modulus - 1
  BY <1>2, Mod32
<1>4. outputIndex' \in 0 .. Uint32Modulus - 1 /\ outputVertex' \in 0 .. Uint16Modulus - 1
  <2>1. outputIndex + 3 \in Int /\ outputVertex + 3 \in Int
    BY DEF TypeOK
  <2> QED
    BY <1>1, <2>1, Mod32, Mod16
<1>5. TypeOK'
  <2>1. j' \in 1 .. Uint32Modulus
    BY <1>1, <1>2, <1>3 DEF TypeOK
  <2> QED
    BY <1>1, <1>2, <1>4, <2>1 DEF TypeOK, face_count, UINT16_MAX
<1>6. CountInv'
  BY <1>1, <1>2 DEF CountInv, NoDegenerateFace, face_count, IndicesOfFace
<1>7. ASSUME NoDegenerateFace
      PROVE  j + 1 <= faceIndexCount - 1
  <2>1. faceIndexCount - 1 \in 0 .. Uint32Modulus - 1
    BY <1>2, <1>7, MeshFacts DEF faceIndexCount
  <2>2. (faceIndexCount - 1) % Uint32Modulus = faceIndexCount - 1
    BY <2>1, Mod32
  <2> QED
    BY <1>2, <2>1, <2>2 DEF TypeOK
<1>8. ASSUME NoDegenerateFace, ~wrapped
      PROVE  /\ outputIndex + 3 <= totalOutputIndices
             /\ outputIndex' = outputIndex + 3
             /\ totalOutputIndices <= UINT16_MAX => outputVertex' = outputVertex + 3
  <2>1. outputIndex + 3 <= totalOutputIndices
    BY <1>2, <1>8, <1>1, EmitBound DEF IInv
  <2>2. outputIndex' = outputIndex + 3
    <3>1. outputIndex + 3 \in 0 .. Uint32Modulus - 1
      BY <2>1 DEF TypeOK
    <3> QED
      BY <1>1, <3>1, Mod32
  <2>3. totalOutputIndices <= UINT16_MAX => outputVertex' = outputVertex + 3
    <3>1. outputVertex = outputIndex \/ ~(totalOutputIndices <= UINT16_MAX)
      BY <1>2, <1>8 DEF EmitInv
    <3>2. totalOutputIndices <= UINT16_MAX => outputVertex + 3 \in 0 .. Uint16Modulus - 1
      BY <2>1, <3>1 DEF TypeOK, UINT16_MAX
    <3> QED
      BY <1>1, <3>2, Mod16
  <2> QED
    BY <2>1, <2>2, <2>3
<1>9. EmitInv'
  <2>1. /\ face_count' = face_count /\ NoDegenerateFace' = NoDegenerateFace
        /\ faceIndexCount' = faceIndexCount /\ pc' = "fan" /\ i' = i
    BY <1>1, <1>2 DEF face_count, NoDegenerateFace, faceIndexCount
  <2>2. NoDegenerateFace => j' <= faceIndexCount' - 1
    BY <1>1, <1>7, <2>1
  <2>3. ASSUME NoDegenerateFace, ~wrapped
        PROVE  /\ outputIndex' = counted'[i'] + 3 * (j' - 1)
               /\ totalOutputIndices' <= UINT16_MAX => outputVertex' = outputIndex'
    <3>1. /\ outputIndex = counted[i] + 3 * (j - 1) /\ counted[i] \in Int
          /\ totalOutputIndices <= UINT16_MAX => outputVertex = outputIndex
      BY <1>2, <2>3 DEF EmitInv, TypeOK
    <3>2. j \in Int /\ outputIndex \in Int /\ outputVertex \in Int
      BY DEF TypeOK, UINT16_MAX
    <3>3. outputIndex' = counted[i] + 3 * j
      BY <1>8, <2>3, <3>1, <3>2
    <3> QED
      BY <1>1, <1>8, <2>1, <2>3, <3>1, <3>2, <3>3
  <2> QED
    BY <1>1, <1>2, <2>1, <2>2, <2>3 DEF EmitInv
<1> QED
  BY <1>5, <1>6, <1>9

LEMMA InvNextFace == IInv /\ NextFace => IInv'
<1> SUFFICES ASSUME IInv, NextFace PROVE IInv'
  OBVIOUS
<1> USE DEF IInv
<1>1. /\ pc = "fan" /\ i < face_count /\ j >= (faceIndexCount - 1) % Uint32Modulus
      /\ baseIndex' = (baseIndex + faceIndexCount) % Uint32Modulus
      /\ i' = i + 1 /\ j' = 1
      /\ UNCHANGED <<pc, build, face_vertices, totalOutputIndices, outputIndex,
                     outputVertex, counted, wrapped>>
  BY DEF NextFace, history
<1>2. /\ i \in Nat /\ i + 1 \in 1 .. face_count
      /\ faceIndexCount \in 0 .. Uint32Modulus - 1
  BY <1>1, MeshFacts DEF TypeOK, faceIndexCount
<1>3. TypeOK'
  <2>1. baseIndex' \in 0 .. Uint32Modulus - 1
    <3>1. baseIndex + faceIndexCount \in Int
      BY <1>2 DEF TypeOK
    <3> QED
      BY <1>1, <3>1, Mod32
  <2> QED
    BY <1>1, <1>2, <2>1 DEF TypeOK, face_count
<1>4. CountInv'
  BY <1>1 DEF CountInv, NoDegenerateFace, face_count, IndicesOfFace
<1>5. EmitInv'
  <2>1. /\ face_count' = face_count /\ NoDegenerateFace' = NoDegenerateFace
        /\ faceIndexCount' = face_vertices[i + 2] /\ pc' = "fan" /\ wrapped' = wrapped
    BY <1>1, <1>2 DEF face_count, NoDegenerateFace, faceIndexCount
  <2>2. NoDegenerateFace /\ i' < face_count => face_vertices[i + 2] >= 2 /\ face_vertices[i + 2] \in Int
    BY <1>1, <1>2, MeshFacts
  <2>3. ASSUME NoDegenerateFace, ~wrapped
        PROVE  /\ outputIndex = counted[i + 1]
               /\ totalOutputIndices <= UINT16_MAX => outputVertex = outputIndex
    <3>1. /\ outputIndex = counted[i] + 3 * (j - 1) /\ counted[i] \in Int
          /\ totalOutputIndices <= UINT16_MAX => outputVertex = outputIndex
      BY <1>1, <1>2, <2>3 DEF EmitInv, TypeOK
    <3>2. counted[i + 1] = counted[i] + (faceIndexCount - 2) * 3
      BY <1>1, <1>2, <2>3, CountedStep DEF faceIndexCount
    <3>3. j = faceIndexCount - 1
      <4>1. faceIndexCount - 1 \in 0 .. Uint32Modulus - 1
        BY <1>2, <2>3, MeshFacts DEF faceIndexCount
      <4>2. (faceIndexCount - 1) % Uint32Modulus = faceIndexCount - 1
        BY <4>1, Mod32
      <4> QED
        BY <1>1, <2>3, <4>1, <4>2 DEF EmitInv, TypeOK
    <3> QED
      BY <1>2, <3>1, <3>2, <3>3
  <2> QED
    BY <1>1, <1>2, <2>1, <2>2, <2>3 DEF EmitInv, TypeOK
<1> QED
  BY <1>3, <1>4, <1>5

LEMMA InvRest ==
    IInv /\ (EndFaces \/ Return \/ Ended \/ UNCHANGED vars) => IInv'
<1> SUFFICES ASSUME IInv, EndFaces \/ Return \/ Ended \/ UNCHANGED vars PROVE IInv'
  OBVIOUS
<1> USE DEF IInv
<1>1. /\ UNCHANGED <<build, face_vertices, i, j, totalOutputIndices, baseIndex,
                     outputIndex, outputVertex, counted, wrapped>>
      /\ \/ pc = "fan" /\ i = face_count /\ pc' = "check"
         \/ pc' \in {"done", "aborted"} /\ pc # "count"
         \/ pc' = pc
  BY DEF EndFaces, Return, Ended, vars, history
<1>2. /\ face_count' = face_count /\ NoDegenerateFace' = NoDegenerateFace
      /\ faceIndexCount' = faceIndexCount
  BY <1>1 DEF face_count, NoDegenerateFace, faceIndexCount
<1>3. TypeOK'
  BY <1>1, <1>2 DEF TypeOK
<1>4. CountInv'
  BY <1>1, <1>2 DEF CountInv
<1>5. EmitInv'
  BY <1>1, <1>2 DEF EmitInv
<1> QED
  BY <1>3, <1>4, <1>5

\* The two loops of LoadGeometry keep what they have counted and emitted in step.
THEOREM Inductive == Spec => []IInv
<1>1. IInv /\ [Next]_vars => IInv'
  BY InvCountFace, InvAllocate, InvEmitTriangle, InvNextFace, InvRest DEF Next
<1> QED
  BY <1>1, InvInit, PTL DEF Spec

\* The counters of both loops keep their 32 and 16 bits.
THEOREM TypeCorrect == Spec => []TypeOK
<1>1. IInv => TypeOK
  BY DEF IInv
<1> QED
  BY <1>1, Inductive, PTL

\* LoadGeometry fills exactly what it allocated, whatever mesh it gets.
THEOREM WritesInBoundsTheorem == Spec => []WritesInBounds
<1>1. IInv => WritesInBounds
  BY EmitBound DEF WritesInBounds
<1> QED
  BY <1>1, Inductive, PTL

\* The asserts behind the loops can fail only for a degenerate face, a count
\* that left its 32 bits, or more indices than a uint16_t counts.
THEOREM CountsAgreeTheorem == Spec => []CountsAgree
<1>1. IInv => CountsAgree
  <2> SUFFICES ASSUME IInv, NoDegenerateFace, ~wrapped, pc = "check"
               PROVE  /\ outputIndex = totalOutputIndices
                      /\ totalOutputIndices <= UINT16_MAX => outputVertex = totalOutputIndices
    BY DEF CountsAgree
  <2>1. i = face_count /\ j = 1
    BY DEF IInv, EmitInv
  <2>2. outputIndex = counted[face_count] + 3 * (1 - 1)
    BY <2>1 DEF IInv, EmitInv
  <2>3. counted[face_count] = totalOutputIndices /\ totalOutputIndices \in Int
    BY DEF IInv, CountInv, TypeOK
  <2>4. totalOutputIndices <= UINT16_MAX => outputVertex = outputIndex
    BY DEF IInv, EmitInv
  <2> QED
    BY <2>2, <2>3, <2>4
<1> QED
  BY <1>1, Inductive, PTL

\* --------------------------------------------------- what the geometry draws

\* The indices that the fans of the faces need, and the faces too small for
\* one, summed up from the first face on.
Triangles(n) == IF n > 2 THEN n - 2 ELSE 0
Lens(s) == [f \in 1 .. Len(s) |-> 3 * Triangles(s[f])]
Lone(s) == [f \in 1 .. Len(s) |-> IF s[f] < 2 THEN 1 ELSE 0]
Drawn(s) == Sums(Lens(s))
Lost(s) == Sums(Lone(s))

\* A mesh so small that 32 bits count three times its corners. Beyond that the
\* sums of both loops may wrap to the same value and the asserts see nothing.
CornersFit(s) == 3 * Sums(s)[Len(s)] < Uint32Modulus

\* Each of its faces has a corner, and takes at most three indices away.
FewCorners(s) == CornersFit(s) /\ \A f \in 1 .. Len(s) : s[f] >= 1

LEMMA LensType ==
    ASSUME NEW s \in Seq(Nat)
    PROVE  /\ Lens(s) \in Seq(Nat) /\ Len(Lens(s)) = Len(s)
           /\ Lone(s) \in Seq(Nat) /\ Len(Lone(s)) = Len(s)
           /\ \A f \in 1 .. Len(s) : /\ Lens(s)[f] = 3 * Triangles(s[f])
                                     /\ Lone(s)[f] = IF s[f] < 2 THEN 1 ELSE 0
  BY DEF Lens, Lone, Triangles

\* One face more.
LEMMA SumsStep ==
    ASSUME NEW s \in Seq(Nat)
    PROVE  /\ Drawn(s)[0] = 0 /\ Lost(s)[0] = 0 /\ Sums(s)[0] = 0
           /\ \A f \in 0 .. Len(s) : Drawn(s)[f] \in Nat /\ Lost(s)[f] \in Nat /\ Sums(s)[f] \in Nat
           /\ \A f \in 1 .. Len(s) :
                /\ Drawn(s)[f] = Drawn(s)[f - 1] + 3 * Triangles(s[f])
                /\ Lost(s)[f] = Lost(s)[f - 1] + IF s[f] < 2 THEN 1 ELSE 0
                /\ Sums(s)[f] = Sums(s)[f - 1] + s[f]
<1> DEFINE a == Lens(s)
           b == Lone(s)
<1>1. /\ a \in Seq(Nat) /\ Len(a) = Len(s) /\ b \in Seq(Nat) /\ Len(b) = Len(s)
      /\ \A f \in 1 .. Len(s) : a[f] = 3 * Triangles(s[f]) /\ b[f] = IF s[f] < 2 THEN 1 ELSE 0
  BY LensType
<1> HIDE DEF a, b
<1>2. /\ Sums(a) \in [0 .. Len(s) -> Nat] /\ Sums(a)[0] = 0
      /\ \A f \in 1 .. Len(s) : Sums(a)[f] = Sums(a)[f - 1] + a[f]
  BY <1>1, SumsFacts
<1>3. /\ Sums(b) \in [0 .. Len(s) -> Nat] /\ Sums(b)[0] = 0
      /\ \A f \in 1 .. Len(s) : Sums(b)[f] = Sums(b)[f - 1] + b[f]
  BY <1>1, SumsFacts
<1>4. /\ Sums(s) \in [0 .. Len(s) -> Nat] /\ Sums(s)[0] = 0
      /\ \A f \in 1 .. Len(s) : Sums(s)[f] = Sums(s)[f - 1] + s[f]
  BY SumsFacts
<1>5. Drawn(s) = Sums(a) /\ Lost(s) = Sums(b)
  BY DEF Drawn, Lost, a, b
<1> QED
  BY <1>1, <1>2, <1>3, <1>4, <1>5

\* No face needs more than three indices for each of its corners.
LEMMA SumsBound ==
    ASSUME NEW s \in Seq(Nat), FewCorners(s), NEW f \in 0 .. Len(s)
    PROVE  Drawn(s)[f] + 3 * Lost(s)[f] < Uint32Modulus
<1> DEFINE d == Drawn(s)
           l == Lost(s)
           a == Sums(s)
           S == {n \in Nat : n <= Len(s) => d[n] + 3 * l[n] <= 3 * a[n]}
<1>1. /\ d[0] = 0 /\ l[0] = 0 /\ a[0] = 0
      /\ \A n \in 0 .. Len(s) : d[n] \in Nat /\ l[n] \in Nat /\ a[n] \in Nat
      /\ \A n \in 1 .. Len(s) : /\ d[n] = d[n - 1] + 3 * Triangles(s[n])
                                /\ l[n] = l[n - 1] + IF s[n] < 2 THEN 1 ELSE 0
                                /\ a[n] = a[n - 1] + s[n]
  BY SumsStep
<1>2. a[f] <= a[Len(s)] /\ 3 * a[Len(s)] < Uint32Modulus
  BY SumsMonotone DEF FewCorners, CornersFit
<1> HIDE DEF d, l, a
<1>3. 0 \in S
  BY <1>1
<1>4. ASSUME NEW n \in S PROVE n + 1 \in S
  <2>1. SUFFICES ASSUME n + 1 <= Len(s) PROVE d[n + 1] + 3 * l[n + 1] <= 3 * a[n + 1]
    OBVIOUS
  <2>2. n \in Nat /\ n \in 0 .. Len(s) /\ n + 1 \in 1 .. Len(s) /\ n + 1 \in 0 .. Len(s)
        /\ (n + 1) - 1 = n
    BY <2>1
  <2>3. d[n] + 3 * l[n] <= 3 * a[n]
    BY <2>1, <2>2
  <2>4. /\ d[n + 1] = d[n] + 3 * Triangles(s[n + 1])
        /\ l[n + 1] = l[n] + IF s[n + 1] < 2 THEN 1 ELSE 0
        /\ a[n + 1] = a[n] + s[n + 1]
    BY <1>1, <2>2
  <2>5. s[n + 1] \in Nat /\ s[n + 1] >= 1
    BY <2>2 DEF FewCorners
  <2>6. /\ d[n] \in Nat /\ l[n] \in Nat /\ a[n] \in Nat
    BY <1>1, <2>2
  <2> HIDE DEF S
  <2>7. CASE s[n + 1] = 1
    BY <2>3, <2>4, <2>6, <2>7, SMTT(30) DEF Triangles
  <2>8. CASE s[n + 1] >= 2
    <3>1. Triangles(s[n + 1]) = s[n + 1] - 2
      BY <2>5, <2>8 DEF Triangles
    <3>2. PICK x \in Nat : x = s[n + 1] /\ x >= 2
      BY <2>5, <2>8
    <3>3. d[n + 1] = d[n] + 3 * (x - 2) /\ l[n + 1] = l[n] /\ a[n + 1] = a[n] + x
      BY <2>4, <2>6, <3>1, <3>2
    <3> HIDE DEF a, d, l
    <3>4. d[n + 1] + 3 * l[n + 1] = (d[n] + 3 * l[n]) + 3 * (x - 2)
      BY <2>6, <3>3
    <3>5. 3 * a[n + 1] = 3 * a[n] + 3 * x
      BY <2>6, <3>3
    <3>6. d[n] + 3 * l[n] \in Nat
      BY <2>6
    <3> QED
      BY <2>3, <2>6, <3>4, <3>5, <3>6
  <2> QED
    BY <2>5, <2>7, <2>8
<1>5. S \in SUBSET Nat
  OBVIOUS
<1> HIDE DEF S
<1>6. S = Nat
  BY <1>3, <1>4, <1>5, SetInduction
<1>7. d[f] + 3 * l[f] <= 3 * a[f]
  <2>1. f \in Nat /\ f <= Len(s)
    OBVIOUS
  <2>2. f \in S
    BY <1>6, <2>1
  <2> QED
    BY <2>1, <2>2 DEF S
<1>8. /\ d[f] \in Nat /\ l[f] \in Nat /\ a[f] \in Nat /\ a[Len(s)] \in Nat
  BY <1>1
<1> QED
  BY <1>2, <1>7, <1>8 DEF d, l

\* No face is too small if none has been lost.
LEMMA NoneLost ==
    ASSUME NEW s \in Seq(Nat), Lost(s)[Len(s)] = 0, NEW f \in 1 .. Len(s)
    PROVE  s[f] >= 2
<1>1. f \in 0 .. Len(s) /\ f - 1 \in 0 .. Len(s) /\ Len(s) \in 0 .. Len(s) /\ f <= Len(s)
  OBVIOUS
<1>2. Lost(s)[f] <= Lost(s)[Len(s)]
  <2> DEFINE b == Lone(s)
  <2>1. b \in Seq(Nat) /\ Len(b) = Len(s)
    BY LensType
  <2> HIDE DEF b
  <2>2. Sums(b)[f] <= Sums(b)[Len(s)]
    BY <1>1, <2>1, SumsMonotone
  <2> QED
    BY <2>2 DEF b, Lost
<1>3. /\ Lost(s)[f] = Lost(s)[f - 1] + IF s[f] < 2 THEN 1 ELSE 0
      /\ Lost(s)[f - 1] \in Nat
  BY <1>1, SumsStep
<1> QED
  BY <1>2, <1>3

LEMMA AllDrawn ==
    ASSUME NEW s \in Seq(Nat), \A f \in 1 .. Len(s) : s[f] >= 2
    PROVE  \A f \in 0 .. Len(s) : Lost(s)[f] = 0
<1> DEFINE l == Lost(s)
           S == {n \in Nat : n <= Len(s) => l[n] = 0}
<1>1. /\ l[0] = 0
      /\ \A n \in 1 .. Len(s) : l[n] = l[n - 1] + IF s[n] < 2 THEN 1 ELSE 0
  BY SumsStep
<1> HIDE DEF l
<1>2. 0 \in S
  BY <1>1
<1>3. ASSUME NEW n \in S PROVE n + 1 \in S
  <2>1. SUFFICES ASSUME n + 1 <= Len(s) PROVE l[n + 1] = 0
    OBVIOUS
  <2>2. n + 1 \in 1 .. Len(s) /\ (n + 1) - 1 = n /\ l[n] = 0
    BY <2>1
  <2>3. s[n + 1] >= 2 /\ s[n + 1] \in Nat
    BY <2>2
  <2>4. l[n + 1] = l[n] + IF s[n + 1] < 2 THEN 1 ELSE 0
    BY <1>1, <2>2
  <2> QED
    BY <2>2, <2>3, <2>4
<1>4. S \in SUBSET Nat
  OBVIOUS
<1> HIDE DEF S
<1>5. S = Nat
  BY <1>2, <1>3, <1>4, SetInduction
<1>6. ASSUME NEW f \in 0 .. Len(s) PROVE l[f] = 0
  <2>1. f \in S /\ f <= Len(s)
    BY <1>5
  <2> QED
    BY <2>1 DEF S
<1> QED
  BY <1>6 DEF l

\* The reference: the corners of the triangles of a face ...
LEMMA FanOfFaceFacts ==
    ASSUME NEW base \in Nat, NEW n \in Nat
    PROVE  /\ FanOfFace(base, n) \in Seq(Nat)
           /\ Len(FanOfFace(base, n)) = 3 * Triangles(n)
           /\ \A t \in 1 .. Triangles(n) : \A c \in 1 .. 3 :
                FanOfFace(base, n)[3 * (t - 1) + c] = <<base, base + t, base + t + 1>>[c]
<1> DEFINE seqs == [t \in 1 .. Triangles(n) |-> <<base, base + t, base + t + 1>>]
           lens == [t \in 1 .. Triangles(n) |-> 3]
<1>1. Triangles(n) \in Nat
  BY DEF Triangles
<1> DEFINE three(t) == <<base, base + t, base + t + 1>>
<1>2. \A t \in 1 .. Triangles(n) : three(t) \in Seq(Nat) /\ Len(three(t)) = 3
  OBVIOUS
<1>3. /\ seqs = [t \in 1 .. Triangles(n) |-> three(t)]
      /\ FanOfFace(base, n) = FlattenSeq(seqs)
  BY DEF FanOfFace, Triangles
<1> HIDE DEF three, seqs
<1>4. /\ seqs \in Seq(Seq(Nat)) /\ Len(seqs) = Triangles(n)
      /\ \A t \in 1 .. Triangles(n) : seqs[t] = three(t) /\ Len(seqs[t]) = 3
  BY <1>1, <1>2, <1>3
<1>5. /\ lens \in Seq(Nat) /\ Len(lens) = Triangles(n)
      /\ \A t \in 1 .. Triangles(n) : lens[t] = 3
  BY <1>1
<1> HIDE DEF lens
<1>6. /\ FlattenSeq(seqs) \in Seq(Nat)
      /\ Len(FlattenSeq(seqs)) = Sums(lens)[Triangles(n)]
      /\ \A t \in 1 .. Triangles(n) : \A c \in 1 .. Len(seqs[t]) :
            FlattenSeq(seqs)[Sums(lens)[t - 1] + c] = seqs[t][c]
  <2>1. Lengths(lens, seqs)
    BY <1>4, <1>5 DEF Lengths
  <2>2. seqs \in Seq(Seq(Nat))
    BY <1>4
  <2>3. /\ FlattenSeq(seqs) \in Seq(Nat)
        /\ Len(FlattenSeq(seqs)) = Sums(lens)[Len(seqs)]
        /\ \A t \in 1 .. Len(seqs) : \A c \in 1 .. Len(seqs[t]) :
              FlattenSeq(seqs)[Sums(lens)[t - 1] + c] = seqs[t][c]
    BY <2>1, <2>2, FlattenLengths
  <2> QED
    BY <1>4, <2>3
<1>7. \A t \in 0 .. Triangles(n) : Sums(lens)[t] = 3 * t
  <2>1. PICK c \in Nat : c = 3
    OBVIOUS
  <2>2. Constantly(lens, c)
    BY <1>5, <2>1 DEF Constantly
  <2>3. \A t \in 0 .. Len(lens) : Sums(lens)[t] = c * t
    BY <1>5, <2>2, SumsConstant
  <2> QED
    BY <1>5, <2>1, <2>3
<1>8. ASSUME NEW t \in 1 .. Triangles(n), NEW c \in 1 .. 3
      PROVE  FanOfFace(base, n)[3 * (t - 1) + c] = <<base, base + t, base + t + 1>>[c]
  <2>1. t - 1 \in 0 .. Triangles(n)
    BY <1>1
  <2>2. Sums(lens)[t - 1] = 3 * (t - 1)
    BY <1>7, <2>1
  <2>3. FlattenSeq(seqs)[Sums(lens)[t - 1] + c] = seqs[t][c]
    BY <1>4, <1>6
  <2>4. seqs[t] = <<base, base + t, base + t + 1>>
    BY <1>4 DEF three
  <2> QED
    BY <1>3, <2>2, <2>3, <2>4
<1>9. Triangles(n) \in 0 .. Triangles(n)
  BY <1>1
<1> QED
  BY <1>3, <1>6, <1>7, <1>8, <1>9

\* ... and of all faces.
LEMMA FanFacts ==
    ASSUME face_vertices \in Seq(Nat)
    PROVE  /\ Fan \in Seq(Nat)
           /\ Len(Fan) = Drawn(face_vertices)[Len(face_vertices)]
           /\ \A f \in 1 .. Len(face_vertices) : \A t \in 1 .. Triangles(face_vertices[f]) :
                \A c \in 1 .. 3 :
                  Fan[Drawn(face_vertices)[f - 1] + (3 * (t - 1) + c)]
                    = <<Sums(face_vertices)[f - 1], Sums(face_vertices)[f - 1] + t,
                        Sums(face_vertices)[f - 1] + t + 1>>[c]
<1> DEFINE s == face_vertices
           seqs == [f \in 1 .. Len(s) |-> FanOfFace(Sums(s)[f - 1], s[f])]
           lens == Lens(s)
<1>1. s \in Seq(Nat) /\ Len(s) \in Nat /\ DOMAIN s = 1 .. Len(s)
  OBVIOUS
<1>2. Fan = FlattenSeq(seqs)
  BY <1>1 DEF Fan, FirstIndex
<1> HIDE DEF s
<1>3. \A f \in 1 .. Len(s) : Sums(s)[f - 1] \in Nat /\ s[f] \in Nat
  <2> TAKE f \in 1 .. Len(s)
  <2>1. f - 1 \in 0 .. Len(s)
    BY <1>1
  <2> QED
    BY <1>1, <2>1, SumsStep
<1>4. \A f \in 1 .. Len(s) :
         /\ seqs[f] \in Seq(Nat) /\ Len(seqs[f]) = 3 * Triangles(s[f])
         /\ seqs[f] = FanOfFace(Sums(s)[f - 1], s[f])
  BY <1>3, FanOfFaceFacts
<1>5. seqs \in Seq(Seq(Nat)) /\ Len(seqs) = Len(s)
  BY <1>1, <1>4
<1>6. lens \in Seq(Nat) /\ Len(lens) = Len(s)
      /\ \A f \in 1 .. Len(s) : lens[f] = 3 * Triangles(s[f])
  BY <1>1, LensType
<1> HIDE DEF seqs, lens
<1>7. /\ FlattenSeq(seqs) \in Seq(Nat)
      /\ Len(FlattenSeq(seqs)) = Sums(lens)[Len(s)]
      /\ \A f \in 1 .. Len(s) : \A c \in 1 .. Len(seqs[f]) :
            FlattenSeq(seqs)[Sums(lens)[f - 1] + c] = seqs[f][c]
  BY <1>4, <1>5, <1>6, FlattenFacts, SMTT(30)
<1>8. Sums(lens) = Drawn(s)
  BY DEF lens, Drawn
<1>9. ASSUME NEW f \in 1 .. Len(s), NEW t \in 1 .. Triangles(s[f]), NEW c \in 1 .. 3
      PROVE  Fan[Drawn(s)[f - 1] + (3 * (t - 1) + c)]
               = <<Sums(s)[f - 1], Sums(s)[f - 1] + t, Sums(s)[f - 1] + t + 1>>[c]
  <2>1. Triangles(s[f]) \in Nat
    BY <1>3 DEF Triangles
  <2>2. 3 * (t - 1) + c \in 1 .. 3 * Triangles(s[f])
    BY <2>1
  <2>3. Fan[Drawn(s)[f - 1] + (3 * (t - 1) + c)] = seqs[f][3 * (t - 1) + c]
    BY <1>2, <1>4, <1>7, <1>8, <2>2
  <2>4. seqs[f] = FanOfFace(Sums(s)[f - 1], s[f])
    BY <1>4
  <2>5. FanOfFace(Sums(s)[f - 1], s[f])[3 * (t - 1) + c]
          = <<Sums(s)[f - 1], Sums(s)[f - 1] + t, Sums(s)[f - 1] + t + 1>>[c]
    <3>1. Sums(s)[f - 1] \in Nat /\ s[f] \in Nat
      BY <1>3
    <3> QED
      BY <3>1, FanOfFaceFacts
  <2> QED
    BY <2>3, <2>4, <2>5
<1>10. Fan \in Seq(Nat) /\ Len(Fan) = Drawn(s)[Len(s)]
  BY <1>2, <1>7, <1>8
<1> QED
  BY <1>9, <1>10 DEF s

\* What face f + 1 adds.
LEMMA FaceFacts ==
    ASSUME NEW s \in Seq(Nat), FewCorners(s), NEW f \in Nat, f < Len(s)
    PROVE  /\ f \in 0 .. Len(s) /\ f + 1 \in 1 .. Len(s) /\ f + 1 \in 0 .. Len(s)
           /\ s[f + 1] \in Nat /\ s[f + 1] >= 1 /\ s[f + 1] < Uint32Modulus
           /\ Drawn(s)[f] \in Nat /\ Lost(s)[f] \in Nat /\ Sums(s)[f] \in Nat
           /\ Drawn(s)[f + 1] = Drawn(s)[f] + 3 * Triangles(s[f + 1])
           /\ Lost(s)[f + 1] = Lost(s)[f] + IF s[f + 1] < 2 THEN 1 ELSE 0
           /\ Sums(s)[f + 1] = Sums(s)[f] + s[f + 1]
           /\ Drawn(s)[f] + 3 * Lost(s)[f] < Uint32Modulus
           /\ Drawn(s)[f + 1] + 3 * Lost(s)[f + 1] < Uint32Modulus
           /\ Sums(s)[f + 1] < Uint32Modulus
           /\ Triangles(s[f + 1]) \in Nat
           /\ Drawn(s)[f + 1] <= Drawn(s)[Len(s)] /\ Drawn(s)[Len(s)] \in Nat
<1>1. /\ f \in 0 .. Len(s) /\ f + 1 \in 1 .. Len(s) /\ f + 1 \in 0 .. Len(s)
      /\ (f + 1) - 1 = f /\ Len(s) \in 0 .. Len(s) /\ f + 1 <= Len(s)
  OBVIOUS
<1>2. s[f + 1] \in Nat /\ s[f + 1] >= 1
  BY <1>1 DEF FewCorners
<1>3. /\ Drawn(s)[f + 1] = Drawn(s)[f] + 3 * Triangles(s[f + 1])
      /\ Lost(s)[f + 1] = Lost(s)[f] + IF s[f + 1] < 2 THEN 1 ELSE 0
      /\ Sums(s)[f + 1] = Sums(s)[f] + s[f + 1]
  BY <1>1, SumsStep
<1>4. /\ Drawn(s)[f] \in Nat /\ Lost(s)[f] \in Nat /\ Sums(s)[f] \in Nat
      /\ Drawn(s)[Len(s)] \in Nat /\ Sums(s)[Len(s)] \in Nat
  BY <1>1, SumsStep
<1>5. Sums(s)[f + 1] <= Sums(s)[Len(s)] /\ 3 * Sums(s)[Len(s)] < Uint32Modulus
  BY <1>1, SumsMonotone DEF FewCorners, CornersFit
<1>6. /\ Drawn(s)[f] + 3 * Lost(s)[f] < Uint32Modulus
      /\ Drawn(s)[f + 1] + 3 * Lost(s)[f + 1] < Uint32Modulus
  BY <1>1, SumsBound
<1>7. Triangles(s[f + 1]) \in Nat
  BY <1>2 DEF Triangles
<1>8. Drawn(s)[f + 1] <= Drawn(s)[Len(s)]
  <2> DEFINE b == Lens(s)
  <2>1. b \in Seq(Nat) /\ Len(b) = Len(s)
    BY LensType
  <2> HIDE DEF b
  <2>2. Sums(b)[f + 1] <= Sums(b)[Len(s)]
    BY <1>1, <2>1, SumsMonotone
  <2> QED
    BY <2>2 DEF b, Drawn
<1>9. Sums(s)[f + 1] < Uint32Modulus /\ s[f + 1] < Uint32Modulus
  <2>1. Sums(s)[f] \in Nat /\ s[f + 1] \in Nat /\ Sums(s)[Len(s)] \in Nat
    BY <1>2, <1>4
  <2> QED
    BY <1>3, <1>5, <2>1
<1> QED
  BY <1>1, <1>2, <1>3, <1>4, <1>6, <1>7, <1>8, <1>9

\* A sum of 32 bits that may have been below zero.
Sum32(a) == IF a >= 0 THEN a ELSE a + Uint32Modulus

LEMMA ModShift ==
    ASSUME NEW m \in Nat \ {0}, NEW a \in 0 .. m - 1
    PROVE  (a + m) % m = a /\ (a - m) % m = a
  OBVIOUS

LEMMA Sum32Step ==
    ASSUME NEW a \in Int, NEW d \in Int,
           -Uint32Modulus < a, a < Uint32Modulus,
           -Uint32Modulus < a + d, a + d < Uint32Modulus
    PROVE  (Sum32(a) + d) % Uint32Modulus = Sum32(a + d)
<1> DEFINE m == Uint32Modulus
           b == a + d
<1>1. m \in Nat \ {0} /\ b \in Int
  OBVIOUS
<1>2. CASE a >= 0 /\ b >= 0
  BY <1>1, <1>2, ModSmall DEF Sum32
<1>3. CASE a >= 0 /\ b < 0
  <2>1. (b + m) - m = Sum32(a) + d /\ b + m \in 0 .. m - 1 /\ Sum32(b) = b + m
    BY <1>3 DEF Sum32
  <2> HIDE DEF m, b
  <2>2. ((b + m) - m) % m = b + m
    BY <1>1, <2>1, ModShift
  <2> QED
    BY <2>1, <2>2 DEF m, b
<1>4. CASE a < 0 /\ b >= 0
  <2>1. b + m = Sum32(a) + d /\ b \in 0 .. m - 1 /\ Sum32(b) = b
    BY <1>4 DEF Sum32
  <2> HIDE DEF m, b
  <2>2. (b + m) % m = b
    BY <1>1, <2>1, ModShift
  <2> QED
    BY <2>1, <2>2 DEF m, b
<1>5. CASE a < 0 /\ b < 0
  <2>1. b + m = Sum32(a) + d /\ b + m \in 0 .. m - 1 /\ Sum32(b) = b + m
    BY <1>5 DEF Sum32
  <2> HIDE DEF m, b
  <2>2. (b + m) % m = b + m
    BY <1>1, <2>1, ModSmall
  <2> QED
    BY <2>1, <2>2 DEF m, b
<1> QED
  BY <1>1, <1>2, <1>3, <1>4, <1>5

\* The geometry so far: the vertices of the fan, each under its own number.
Drawable(s) == (\A f \in 1 .. Len(s) : s[f] >= 2) /\ Drawn(s)[Len(s)] <= UINT16_MAX
Written(total, fan) ==
    /\ outputVertex = outputIndex
    /\ DOMAIN output = 0 .. total - 1 /\ DOMAIN outputIndices = 0 .. total - 1
    /\ \A k \in 0 .. outputIndex - 1 : outputIndices[k] = k /\ output[k] = fan[k + 1]

\* The invariant behind DrawsTheFan, for the mesh s and its fan: what the first
\* loop has counted, including what it lost to small faces; where the second
\* loop is; and, if the fan can be drawn, that its beginning is.
CountedSum(s) ==
    LET known == IF pc = "count" THEN i ELSE Len(s)
    IN  totalOutputIndices = Sum32(Drawn(s)[known] - 3 * Lost(s)[known])
Place(s) ==
    /\ pc = "count" => baseIndex = 0
    /\ pc = "fan" => /\ outputIndex = Drawn(s)[i] + 3 * (j - 1)
                     /\ baseIndex = Sums(s)[i]
                     /\ i < Len(s) => j - 1 <= Triangles(s[i + 1])
    /\ pc \in {"check", "done"} => outputIndex = Drawn(s)[Len(s)]
AssertsPassed ==
    /\ pc \in {"fan", "check", "done"} /\ build = "Debug" => totalOutputIndices <= UINT16_MAX
    /\ pc = "done" /\ build = "Debug" => outputIndex = totalOutputIndices
FanInv(s, fan) ==
    /\ CountedSum(s) /\ Place(s) /\ AssertsPassed
    /\ pc \in {"fan", "check", "done"} /\ Drawable(s) => Written(Drawn(s)[Len(s)], fan)

\* The mesh and its fan, as the steps below take them: they never change.
ThisMesh(s, fan) == s = face_vertices /\ fan = Fan /\ s \in Seq(Nat) /\ FewCorners(s)

LEMMA MeshType ==
    ASSUME TypeOK PROVE face_vertices \in Seq(Nat)
<1>1. face_vertices \in Seq(CornerCounts)
  BY DEF TypeOK
<1>2. \A f \in 1 .. Len(face_vertices) : face_vertices[f] \in Nat
  BY MeshFacts DEF face_count
<1> DEFINE p == [f \in 1 .. Len(face_vertices) |-> face_vertices[f]]
<1>3. Len(face_vertices) \in Nat
  BY <1>1
<1>4. p \in Seq(Nat)
  BY <1>2, <1>3
<1>5. face_vertices = p
  BY <1>1
<1> HIDE DEF p
<1> QED
  BY <1>4, <1>5

LEMMA FanInit == Init /\ IInv /\ FewCorners(face_vertices) => FanInv(face_vertices, Fan)
<1> SUFFICES ASSUME Init, IInv, FewCorners(face_vertices) PROVE FanInv(face_vertices, Fan)
  OBVIOUS
<1>1. face_vertices \in Seq(Nat)
  BY MeshType DEF IInv
<1>2. Drawn(face_vertices)[0] = 0 /\ Lost(face_vertices)[0] = 0
  BY <1>1, SumsStep
<1>3. i = 0 /\ pc = "count" /\ totalOutputIndices = 0 /\ baseIndex = 0
  BY DEF Init
<1> QED
  BY <1>2, <1>3 DEF FanInv, CountedSum, Place, AssertsPassed, Sum32

LEMMA FanCount ==
    ASSUME IInv, NEW s, NEW fan, ThisMesh(s, fan), FanInv(s, fan), CountFace
    PROVE  FanInv(s, fan)'
<1>1. /\ pc = "count" /\ pc' = "count" /\ i < Len(s) /\ i' = i + 1 /\ i \in Nat
      /\ totalOutputIndices' = (totalOutputIndices + (s[i + 1] - 2) * 3) % Uint32Modulus
      /\ UNCHANGED baseIndex
  BY DEF CountFace, ThisMesh, face_count, faceIndexCount, IndicesOfFace, IInv, TypeOK
<1>2. totalOutputIndices = Sum32(Drawn(s)[i] - 3 * Lost(s)[i])
  BY <1>1 DEF FanInv, CountedSum
<1>3. s \in Seq(Nat) /\ FewCorners(s)
  BY DEF ThisMesh
<1> DEFINE d == Drawn(s)
           l == Lost(s)
           n == s[i + 1]
<1>4. /\ n \in Nat /\ n >= 1
      /\ d[i] \in Nat /\ l[i] \in Nat
      /\ d[i + 1] = d[i] + 3 * Triangles(n)
      /\ l[i + 1] = l[i] + IF n < 2 THEN 1 ELSE 0
      /\ d[i] + 3 * l[i] < Uint32Modulus
      /\ d[i + 1] + 3 * l[i + 1] < Uint32Modulus
  BY <1>1, <1>3, FaceFacts
<1> HIDE DEF d, l, n
<1>5. d[i + 1] - 3 * l[i + 1] = (d[i] - 3 * l[i]) + (n - 2) * 3
  <2>1. CASE n = 1
    BY <1>4, <2>1 DEF Triangles
  <2>2. CASE n >= 2
    <3>1. Triangles(n) = n - 2 /\ l[i + 1] = l[i]
      BY <1>4, <2>2 DEF Triangles
    <3> QED
      BY <1>4, <3>1
  <2> QED
    BY <1>4, <2>1, <2>2
<1>6. /\ d[i + 1] \in Nat /\ l[i + 1] \in Nat
  BY <1>4 DEF Triangles
<1> DEFINE a == d[i] - 3 * l[i]
           b == (n - 2) * 3
<1>7. a \in Int /\ b \in Int /\ -Uint32Modulus < a /\ a < Uint32Modulus
  BY <1>4
<1>8. -Uint32Modulus < a + b /\ a + b < Uint32Modulus
  <2>1. a + b = d[i + 1] - 3 * l[i + 1]
    BY <1>5
  <2> HIDE DEF a, b
  <2> QED
    BY <1>4, <1>6, <2>1
<1>9. (Sum32(a) + b) % Uint32Modulus = Sum32(a + b)
  <2> HIDE DEF a, b
  <2> QED
    BY <1>7, <1>8, Sum32Step
<1>10. totalOutputIndices' = Sum32(d[i + 1] - 3 * l[i + 1])
  BY <1>1, <1>2, <1>5, <1>9 DEF d, l, n
<1>11. CountedSum(s)'
  BY <1>1, <1>10 DEF CountedSum, d, l
<1> QED
  BY <1>1, <1>11 DEF FanInv, Place, AssertsPassed

LEMMA FanAllocate ==
    ASSUME IInv, NEW s, NEW fan, ThisMesh(s, fan), FanInv(s, fan), Allocate
    PROVE  FanInv(s, fan)'
<1>1. /\ pc = "count" /\ i = Len(s) /\ i' = 0
      /\ pc' = IF AssertPasses(totalOutputIndices <= UINT16_MAX) THEN "fan" ELSE "aborted"
      /\ output' = [k \in 0 .. totalOutputIndices - 1 |-> Zero]
      /\ outputIndices' = [k \in 0 .. totalOutputIndices - 1 |-> 0]
      /\ UNCHANGED <<build, j, totalOutputIndices, baseIndex, outputIndex, outputVertex>>
  BY DEF Allocate, ThisMesh, face_count
<1>2. j = 1 /\ outputIndex = 0 /\ outputVertex = 0
  BY <1>1 DEF IInv, CountInv
<1>3. s \in Seq(Nat) /\ FewCorners(s) /\ Len(s) \in Nat
  BY DEF ThisMesh
<1>4. /\ baseIndex = 0
      /\ totalOutputIndices = Sum32(Drawn(s)[Len(s)] - 3 * Lost(s)[Len(s)])
  BY <1>1 DEF FanInv, Place, CountedSum
<1>5. CountedSum(s)'
  BY <1>1, <1>4 DEF CountedSum
<1>6. Place(s)'
  <2>1. Drawn(s)[0] = 0 /\ Sums(s)[0] = 0
    BY <1>3, SumsStep
  <2>2. 0 < Len(s) => 0 <= Triangles(s[0 + 1])
    BY <1>3, FaceFacts
  <2>3. outputIndex' = Drawn(s)[i'] + 3 * (j' - 1) /\ baseIndex' = Sums(s)[i']
    BY <1>1, <1>2, <1>4, <2>1
  <2>4. i' < Len(s) => j' - 1 <= Triangles(s[i' + 1])
    BY <1>1, <1>2, <2>2
  <2> QED
    BY <1>1, <2>3, <2>4 DEF Place
<1>7. AssertsPassed'
  BY <1>1 DEF AssertsPassed, AssertPasses, UINT16_MAX
<1>8. Drawable(s) => Written(Drawn(s)[Len(s)], fan)'
  <2> SUFFICES ASSUME Drawable(s) PROVE Written(Drawn(s)[Len(s)], fan)'
    OBVIOUS
  <2>1. Lost(s)[Len(s)] = 0
    <3>1. Len(s) \in 0 .. Len(s)
      BY <1>3
    <3> QED
      BY <1>3, <3>1, AllDrawn DEF Drawable
  <2>2. Drawn(s)[Len(s)] \in Nat
    <3>1. Len(s) \in 0 .. Len(s)
      BY <1>3
    <3> QED
      BY <1>3, <3>1, SumsStep
  <2>3. totalOutputIndices = Drawn(s)[Len(s)]
    BY <1>4, <2>1, <2>2 DEF Sum32
  <2>4. outputIndex' = 0 /\ 0 .. 0 - 1 = {}
    BY <1>1, <1>2
  <2> QED
    BY <1>1, <1>2, <2>3, <2>4 DEF Written
<1> QED
  BY <1>5, <1>6, <1>7, <1>8 DEF FanInv, Drawable, UINT16_MAX

\* A triangle of the second loop goes where the reference has it.
LEMMA EmitFacts ==
    ASSUME IInv, NEW s, NEW fan, ThisMesh(s, fan), FanInv(s, fan), HasTriangle
    PROVE  /\ pc = "fan" /\ i \in Nat /\ i < Len(s) /\ j \in 1 .. Triangles(s[i + 1])
           /\ outputIndex = Drawn(s)[i] + 3 * (j - 1) /\ baseIndex = Sums(s)[i]
           /\ outputIndex + 3 <= Drawn(s)[Len(s)] /\ outputIndex + 3 < Uint32Modulus
           /\ outputIndex \in Nat
<1>1. /\ pc = "fan" /\ i \in Nat /\ i < Len(s) /\ j \in Nat /\ j >= 1
      /\ j < (s[i + 1] - 1) % Uint32Modulus
  BY DEF HasTriangle, IInv, TypeOK, face_count, faceIndexCount, ThisMesh
<1>2. s \in Seq(Nat) /\ FewCorners(s)
  BY DEF ThisMesh
<1>3. /\ s[i + 1] \in Nat /\ s[i + 1] >= 1 /\ s[i + 1] < Uint32Modulus
      /\ Drawn(s)[i] \in Nat /\ Lost(s)[i + 1] \in Nat
      /\ Drawn(s)[i + 1] = Drawn(s)[i] + 3 * Triangles(s[i + 1])
      /\ Drawn(s)[i + 1] + 3 * Lost(s)[i + 1] < Uint32Modulus
      /\ Drawn(s)[i + 1] <= Drawn(s)[Len(s)] /\ Drawn(s)[Len(s)] \in Nat
  <2>1. i + 1 \in 0 .. Len(s)
    BY <1>1, <1>2
  <2>2. Lost(s)[i + 1] \in Nat
    BY <1>2, <2>1, SumsStep
  <2> QED
    BY <1>1, <1>2, <2>2, FaceFacts
<1>4. (s[i + 1] - 1) % Uint32Modulus = s[i + 1] - 1
  <2>1. s[i + 1] - 1 \in 0 .. Uint32Modulus - 1
    BY <1>3
  <2> QED
    BY <2>1, Mod32
<1>5. j \in 1 .. Triangles(s[i + 1]) /\ Triangles(s[i + 1]) \in Nat
  BY <1>1, <1>3, <1>4, SMTT(30) DEF Triangles
<1>6. outputIndex = Drawn(s)[i] + 3 * (j - 1) /\ baseIndex = Sums(s)[i]
  BY <1>1 DEF FanInv, Place
<1>7. outputIndex + 3 <= Drawn(s)[i + 1] /\ outputIndex \in Nat
  <2>1. PICK d \in Nat, t \in Nat : d = Drawn(s)[i] /\ t = Triangles(s[i + 1])
    BY <1>3, <1>5
  <2>2. j \in 1 .. t /\ outputIndex = d + 3 * (j - 1) /\ Drawn(s)[i + 1] = d + 3 * t
    BY <1>3, <1>5, <1>6, <2>1
  <2> QED
    BY <2>2
<1>8. outputIndex + 3 <= Drawn(s)[Len(s)] /\ outputIndex + 3 < Uint32Modulus
  <2>1. Drawn(s)[i + 1] \in Nat
    BY <1>3, <1>5
  <2> QED
    BY <1>3, <1>7, <2>1
<1> QED
  BY <1>1, <1>5, <1>6, <1>7, <1>8

\* Three values at successive indices.
LEMMA StoreFacts ==
    ASSUME NEW n \in Nat, NEW total \in Nat, n + 3 <= total,
           NEW buffer, DOMAIN buffer = 0 .. total - 1, NEW at, NEW values,
           DOMAIN values = 1 .. 3, \A c \in 1 .. 3 : at[c] = n + c - 1
    PROVE  /\ DOMAIN Store(buffer, at, values) = 0 .. total - 1
           /\ \A k \in 0 .. n - 1 : Store(buffer, at, values)[k] = buffer[k]
           /\ \A c \in 1 .. 3 : Store(buffer, at, values)[n + c - 1] = values[c]
<1> DEFINE Chosen(k) == CHOOSE c \in DOMAIN values : at[c] = k
           result == [k \in 0 .. total - 1 |->
                         IF \E c \in 1 .. 3 : at[c] = k THEN values[Chosen(k)] ELSE buffer[k]]
<1>1. Store(buffer, at, values) = result
  BY DEF Store
<1>2. ASSUME NEW k \in 0 .. n - 1 PROVE result[k] = buffer[k]
  <2>1. k \in 0 .. total - 1 /\ ~\E c \in 1 .. 3 : at[c] = k
    OBVIOUS
  <2> QED
    BY <2>1
<1>3. ASSUME NEW c \in 1 .. 3 PROVE result[n + c - 1] = values[c]
  <2>1. n + c - 1 \in 0 .. total - 1 /\ at[c] = n + c - 1
    OBVIOUS
  <2>2. Chosen(n + c - 1) = c
    <3>1. \A e \in 1 .. 3 : at[e] = n + c - 1 => e = c
      OBVIOUS
    <3> QED
      BY <2>1, <3>1
  <2> QED
    BY <2>1, <2>2
<1> QED
  BY <1>1, <1>2, <1>3

\* One iteration, at index n of the arrays.
Emits(n, total, fan, vertex, index, corners) ==
    /\ n \in Nat /\ total \in Nat /\ n + 3 <= total
    /\ outputIndex = n /\ outputIndex' = n + 3 /\ outputVertex' = n + 3
    /\ DOMAIN vertex = 1 .. 3 /\ DOMAIN corners = 1 .. 3
    /\ \A c \in 1 .. 3 : /\ vertex[c] = n + c - 1 /\ index[c] = n + c - 1
                         /\ fan[n + c] = corners[c]
    /\ output' = Store(output, vertex, corners)
    /\ outputIndices' = Store(outputIndices, index, vertex)

LEMMA WrittenGrows ==
    ASSUME NEW n, NEW total, NEW fan, NEW vertex, NEW index, NEW corners,
           Written(total, fan), Emits(n, total, fan, vertex, index, corners)
    PROVE  Written(total, fan)'
<1> USE DEF Emits
<1>1. /\ DOMAIN output = 0 .. total - 1 /\ DOMAIN outputIndices = 0 .. total - 1
      /\ \A k \in 0 .. n - 1 : outputIndices[k] = k /\ output[k] = fan[k + 1]
  BY DEF Written
<1>2. /\ DOMAIN output' = 0 .. total - 1
      /\ \A k \in 0 .. n - 1 : output'[k] = output[k]
      /\ \A c \in 1 .. 3 : output'[n + c - 1] = corners[c]
  BY <1>1, StoreFacts
<1>3. /\ DOMAIN outputIndices' = 0 .. total - 1
      /\ \A k \in 0 .. n - 1 : outputIndices'[k] = outputIndices[k]
      /\ \A c \in 1 .. 3 : outputIndices'[n + c - 1] = vertex[c]
  BY <1>1, StoreFacts
<1>4. ASSUME NEW k \in 0 .. n + 3 - 1
      PROVE  outputIndices'[k] = k /\ output'[k] = fan[k + 1]
  <2>1. CASE k \in 0 .. n - 1
    BY <1>1, <1>2, <1>3, <2>1
  <2>2. CASE k \notin 0 .. n - 1
    <3>1. PICK c \in 1 .. 3 : k = n + c - 1 /\ k + 1 = n + c
      <4>1. k - n + 1 \in 1 .. 3 /\ k = n + (k - n + 1) - 1 /\ k + 1 = n + (k - n + 1)
        BY <2>2
      <4> QED
        BY <4>1
    <3>2. output'[k] = corners[c] /\ outputIndices'[k] = vertex[c]
      BY <1>2, <1>3, <3>1
    <3>3. vertex[c] = k /\ fan[k + 1] = corners[c]
      BY <3>1
    <3> QED
      BY <3>2, <3>3
  <2> QED
    BY <2>1, <2>2
<1> QED
  BY <1>2, <1>3, <1>4 DEF Written

LEMMA FanEmit ==
    ASSUME IInv, NEW s, NEW fan, ThisMesh(s, fan), FanInv(s, fan), EmitTriangle
    PROVE  FanInv(s, fan)'
<1> DEFINE vertex == [c \in 1 .. 3 |-> (outputVertex + c - 1) % Uint16Modulus]
           index == [c \in 1 .. 3 |-> outputIndex + c - 1]
<1>1. /\ HasTriangle
      /\ output' = Store(output, vertex, FanCorners)
      /\ outputIndices' = Store(outputIndices, index, vertex)
      /\ outputIndex' = (outputIndex + 3) % Uint32Modulus
      /\ outputVertex' = (outputVertex + 3) % Uint16Modulus
      /\ j' = j + 1
      /\ UNCHANGED <<pc, build, i, totalOutputIndices, baseIndex>>
  BY DEF EmitTriangle, NextVertex
<1>2. /\ pc = "fan" /\ i \in Nat /\ i < Len(s) /\ j \in 1 .. Triangles(s[i + 1])
      /\ outputIndex = Drawn(s)[i] + 3 * (j - 1) /\ baseIndex = Sums(s)[i]
      /\ outputIndex + 3 <= Drawn(s)[Len(s)] /\ outputIndex + 3 < Uint32Modulus
      /\ outputIndex \in Nat
  BY <1>1, EmitFacts
<1> HIDE DEF vertex, index
<1>3. s \in Seq(Nat) /\ FewCorners(s) /\ Len(s) \in Nat
  BY DEF ThisMesh
<1>4. outputIndex' = outputIndex + 3
  <2>1. outputIndex + 3 \in 0 .. Uint32Modulus - 1
    BY <1>2
  <2> QED
    BY <1>1, <2>1, Mod32
<1>5. /\ Drawn(s)[i] \in Nat /\ Drawn(s)[Len(s)] \in Nat /\ Sums(s)[i] \in Nat
      /\ Triangles(s[i + 1]) \in Nat
  BY <1>2, <1>3, FaceFacts
<1>6. CountedSum(s)' /\ AssertsPassed'
  BY <1>1, <1>2 DEF FanInv, CountedSum, AssertsPassed, UINT16_MAX
<1>7. Place(s)'
  <2>1. PICK d \in Nat, t \in Nat : d = Drawn(s)[i] /\ t = Triangles(s[i + 1])
    BY <1>5
  <2>2. outputIndex' = d + 3 * ((j + 1) - 1) /\ (j + 1) - 1 <= t
    BY <1>2, <1>4, <2>1
  <2>3. outputIndex' = Drawn(s)[i'] + 3 * (j' - 1) /\ j' - 1 <= Triangles(s[i' + 1])
        /\ baseIndex' = Sums(s)[i'] /\ pc' = "fan"
    BY <1>1, <1>2, <2>1, <2>2
  <2> QED
    BY <2>3 DEF Place
<1>8. Drawable(s) => Written(Drawn(s)[Len(s)], fan)'
  <2> SUFFICES ASSUME Drawable(s) PROVE Written(Drawn(s)[Len(s)], fan)'
    OBVIOUS
  <2>1. Written(Drawn(s)[Len(s)], fan)
    BY <1>2 DEF FanInv
  <2>2. outputVertex = outputIndex /\ Drawn(s)[Len(s)] <= Uint16Modulus - 1
    BY <2>1 DEF Written, Drawable, UINT16_MAX
  <2>3. outputVertex' = outputIndex + 3
    <3>1. outputVertex + 3 \in 0 .. Uint16Modulus - 1
      BY <1>2, <1>5, <2>2, SMTT(30)
    <3> QED
      BY <1>1, <2>2, <3>1, Mod16
  <2>4. \A c \in 1 .. 3 : vertex[c] = outputIndex + c - 1 /\ index[c] = outputIndex + c - 1
    <3> TAKE c \in 1 .. 3
    <3>1. outputVertex + c - 1 \in 0 .. Uint16Modulus - 1
      BY <1>2, <1>5, <2>2, SMTT(30)
    <3>2. (outputVertex + c - 1) % Uint16Modulus = outputVertex + c - 1
      BY <3>1, Mod16
    <3> QED
      BY <2>2, <3>2 DEF vertex, index
  <2>5. \A c \in 1 .. 3 : fan[outputIndex + c] = FanCorners[c]
    <3> TAKE c \in 1 .. 3
    <3>1. i + 1 \in 1 .. Len(s) /\ (i + 1) - 1 = i
      BY <1>2, <1>3
    <3>2. Fan[Drawn(s)[(i + 1) - 1] + (3 * (j - 1) + c)]
            = <<Sums(s)[(i + 1) - 1], Sums(s)[(i + 1) - 1] + j, Sums(s)[(i + 1) - 1] + j + 1>>[c]
      BY <1>2, <3>1, FanFacts DEF ThisMesh
    <3>3. Drawn(s)[i] + (3 * (j - 1) + c) = outputIndex + c
      <4> DEFINE d == Drawn(s)[i]
      <4>1. d \in Nat /\ j \in Int /\ outputIndex = d + 3 * (j - 1)
        BY <1>2, <1>5
      <4> HIDE DEF d
      <4>2. d + (3 * (j - 1) + c) = outputIndex + c
        BY <4>1
      <4> QED
        BY <4>2 DEF d
    <3>4. baseIndex = Sums(s)[(i + 1) - 1]
      BY <1>2, <3>1
    <3>5. FanCorners[c] = Fan[Drawn(s)[(i + 1) - 1] + (3 * (j - 1) + c)]
      BY <3>2, <3>4 DEF FanCorners
    <3>6. Fan = fan
      BY DEF ThisMesh
    <3> QED
      BY <3>1, <3>3, <3>5, <3>6
  <2>6. DOMAIN vertex = 1 .. 3 /\ DOMAIN FanCorners = 1 .. 3
    BY DEF vertex, FanCorners
  <2> DEFINE corners == FanCorners
             total == Drawn(s)[Len(s)]
  <2>7. /\ output' = Store(output, vertex, corners)
        /\ \A c \in 1 .. 3 : fan[outputIndex + c] = corners[c]
        /\ DOMAIN corners = 1 .. 3
    BY <1>1, <2>5, <2>6
  <2>8. total \in Nat /\ outputIndex + 3 <= total /\ Written(total, fan)
    BY <1>2, <1>5, <2>1
  <2> HIDE DEF corners, total
  <2>9. PICK n \in Nat : n = outputIndex
    BY <1>2
  <2>10. Emits(n, total, fan, vertex, index, corners)
    BY <1>1, <1>4, <2>3, <2>4, <2>6, <2>7, <2>8, <2>9 DEF Emits
  <2>11. Written(total, fan)'
    BY <2>8, <2>10, WrittenGrows
  <2> QED
    BY <2>11 DEF total
<1> QED
  BY <1>6, <1>7, <1>8 DEF FanInv, Drawable, UINT16_MAX

LEMMA FanNextFace ==
    ASSUME IInv, NEW s, NEW fan, ThisMesh(s, fan), FanInv(s, fan), NextFace
    PROVE  FanInv(s, fan)'
<1>1. /\ pc = "fan" /\ i \in Nat /\ i < Len(s) /\ j \in Nat /\ j >= 1
      /\ j >= (s[i + 1] - 1) % Uint32Modulus
      /\ baseIndex' = (baseIndex + s[i + 1]) % Uint32Modulus
      /\ i' = i + 1 /\ j' = 1
      /\ UNCHANGED <<pc, build, totalOutputIndices, outputIndex, outputVertex, output,
                     outputIndices>>
  BY DEF NextFace, IInv, TypeOK, face_count, faceIndexCount, ThisMesh
<1>2. s \in Seq(Nat) /\ FewCorners(s) /\ Len(s) \in Nat
  BY DEF ThisMesh
<1>3. /\ s[i + 1] \in Nat /\ s[i + 1] >= 1 /\ s[i + 1] < Uint32Modulus
      /\ Drawn(s)[i] \in Nat /\ Sums(s)[i] \in Nat
      /\ Drawn(s)[i + 1] = Drawn(s)[i] + 3 * Triangles(s[i + 1])
      /\ Sums(s)[i + 1] = Sums(s)[i] + s[i + 1] /\ Sums(s)[i + 1] < Uint32Modulus
  BY <1>1, <1>2, FaceFacts
<1>4. /\ outputIndex = Drawn(s)[i] + 3 * (j - 1) /\ baseIndex = Sums(s)[i]
      /\ j - 1 <= Triangles(s[i + 1])
  BY <1>1 DEF FanInv, Place
<1>5. j - 1 = Triangles(s[i + 1])
  <2>1. (s[i + 1] - 1) % Uint32Modulus = s[i + 1] - 1
    <3>1. s[i + 1] - 1 \in 0 .. Uint32Modulus - 1
      BY <1>3
    <3> QED
      BY <3>1, Mod32
  <2>2. PICK n \in Nat : n = s[i + 1] /\ n >= 1
    BY <1>3
  <2>3. j >= n - 1 /\ j - 1 <= Triangles(n)
    BY <1>1, <1>4, <2>1, <2>2
  <2>4. j - 1 = Triangles(n)
    <3>1. CASE n > 2
      BY <1>1, <2>2, <2>3, <3>1 DEF Triangles
    <3>2. CASE ~(n > 2)
      BY <1>1, <2>2, <2>3, <3>2 DEF Triangles
    <3> QED
      BY <3>1, <3>2
  <2> QED
    BY <2>2, <2>4
<1>6. outputIndex = Drawn(s)[i + 1] + 3 * (1 - 1)
  <2>1. Drawn(s)[i + 1] = Drawn(s)[i] + 3 * (j - 1)
    BY <1>3, <1>5
  <2> QED
    BY <1>1, <1>3, <1>4, <2>1
<1>7. baseIndex' = Sums(s)[i + 1]
  <2>1. Sums(s)[i + 1] \in 0 .. Uint32Modulus - 1
    BY <1>3
  <2>2. Sums(s)[i + 1] % Uint32Modulus = Sums(s)[i + 1]
    BY <2>1, Mod32
  <2>3. baseIndex + s[i + 1] = Sums(s)[i + 1]
    BY <1>3, <1>4
  <2> QED
    BY <1>1, <2>2, <2>3
<1>8. i + 1 < Len(s) => 1 - 1 <= Triangles(s[(i + 1) + 1])
  <2>1. i + 1 \in Nat
    BY <1>1
  <2> QED
    BY <1>2, <2>1, FaceFacts
<1>9. Place(s)'
  <2>1. /\ pc' = "fan" /\ outputIndex' = Drawn(s)[i'] + 3 * (j' - 1) /\ baseIndex' = Sums(s)[i']
        /\ i' < Len(s) => j' - 1 <= Triangles(s[i' + 1])
    BY <1>1, <1>6, <1>7, <1>8
  <2> QED
    BY <2>1 DEF Place
<1>10. CountedSum(s)' /\ AssertsPassed'
  BY <1>1 DEF FanInv, CountedSum, AssertsPassed, UINT16_MAX
<1> QED
  BY <1>1, <1>9, <1>10 DEF FanInv, Drawable, Written, UINT16_MAX

LEMMA FanRest ==
    ASSUME IInv, NEW s, NEW fan, ThisMesh(s, fan), FanInv(s, fan),
           EndFaces \/ Return \/ Ended \/ UNCHANGED vars
    PROVE  FanInv(s, fan)'
<1>1. CASE EndFaces
  <2>1. /\ pc = "fan" /\ i = Len(s) /\ pc' = "check"
        /\ UNCHANGED <<build, i, j, totalOutputIndices, baseIndex,
                       outputIndex, outputVertex, output, outputIndices>>
    BY <1>1 DEF EndFaces, ThisMesh, face_count
  <2>2. j = 1
    BY <2>1 DEF IInv, EmitInv, ThisMesh, face_count
  <2>3. outputIndex = Drawn(s)[Len(s)]
    <3>1. Drawn(s)[Len(s)] \in Nat
      <4>1. s \in Seq(Nat) /\ Len(s) \in 0 .. Len(s)
        BY DEF ThisMesh
      <4> QED
        BY <4>1, SumsStep
    <3> QED
      BY <2>1, <2>2, <3>1 DEF FanInv, Place
  <2>4. CountedSum(s)' /\ Place(s)' /\ AssertsPassed'
    BY <2>1, <2>3 DEF FanInv, CountedSum, Place, AssertsPassed, UINT16_MAX
  <2>5. Written(Drawn(s)[Len(s)], fan) => Written(Drawn(s)[Len(s)], fan)'
    BY <2>1 DEF Written
  <2>6. Drawable(s)' = Drawable(s)
    BY DEF Drawable, UINT16_MAX
  <2> QED
    BY <2>1, <2>4, <2>5, <2>6 DEF FanInv
<1>2. CASE Return
  <2>1. /\ pc = "check"
        /\ pc' = IF AssertPasses(outputIndex = totalOutputIndices)
                    /\ AssertPasses(outputVertex = totalOutputIndices)
                 THEN "done" ELSE "aborted"
        /\ UNCHANGED <<build, i, j, totalOutputIndices, baseIndex,
                       outputIndex, outputVertex, output, outputIndices>>
    BY <1>2 DEF Return
  <2>2. pc' = "done" /\ build = "Debug" => outputIndex = totalOutputIndices
    BY <2>1 DEF AssertPasses
  <2>3. pc' \in {"done", "aborted"}
    BY <2>1
  <2>4. CountedSum(s)' /\ Place(s)' /\ AssertsPassed'
    BY <2>1, <2>2, <2>3 DEF FanInv, CountedSum, Place, AssertsPassed, UINT16_MAX
  <2>5. Written(Drawn(s)[Len(s)], fan) => Written(Drawn(s)[Len(s)], fan)'
    BY <2>1 DEF Written
  <2>6. Drawable(s)' = Drawable(s)
    BY DEF Drawable, UINT16_MAX
  <2> QED
    BY <2>1, <2>4, <2>5, <2>6 DEF FanInv
<1>3. CASE Ended \/ UNCHANGED vars
  BY <1>3 DEF Ended, vars, FanInv, CountedSum, Place, AssertsPassed, Drawable, Written, UINT16_MAX
<1> QED
  BY <1>1, <1>2, <1>3

LEMMA FanStep ==
    IInv /\ (FewCorners(face_vertices) => FanInv(face_vertices, Fan)) /\ [Next]_vars
        => (FewCorners(face_vertices) => FanInv(face_vertices, Fan))'
<1> SUFFICES ASSUME IInv, FewCorners(face_vertices) => FanInv(face_vertices, Fan), [Next]_vars,
                    FewCorners(face_vertices)'
             PROVE  FanInv(face_vertices, Fan)'
  OBVIOUS
<1>1. PICK s, fan : s = face_vertices /\ fan = Fan
  OBVIOUS
<1>2. face_vertices' = face_vertices /\ Fan' = Fan
  <2>1. face_vertices' = face_vertices
    BY DEF Next, vars, CountFace, Allocate, EmitTriangle, NextFace, EndFaces, Return, Ended
  <2> QED
    BY <2>1 DEF Fan, FirstIndex
<1>3. FewCorners(face_vertices)
  BY <1>2 DEF FewCorners, CornersFit
<1>4. ThisMesh(s, fan)
  BY <1>1, <1>3, MeshType DEF ThisMesh, IInv
<1>5. FanInv(s, fan)
  BY <1>1, <1>3
<1>6. FanInv(s, fan)'
  BY <1>4, <1>5, FanCount, FanAllocate, FanEmit, FanNextFace, FanRest DEF Next
<1>7. s = face_vertices' /\ fan = Fan'
  BY <1>1, <1>2
<1> QED
  BY <1>6, <1>7

\* What the asserts of a Debug build establish of the mesh: their sums can only
\* agree if no face was too small.
LEMMA NoSmallFace ==
    ASSUME NEW s \in Seq(Nat), FewCorners(s),
           Drawn(s)[Len(s)] = Sum32(Drawn(s)[Len(s)] - 3 * Lost(s)[Len(s)])
    PROVE  \A f \in 1 .. Len(s) : s[f] >= 2
<1> DEFINE d == Drawn(s)[Len(s)]
           l == Lost(s)[Len(s)]
<1>1. Len(s) \in 0 .. Len(s)
  OBVIOUS
<1>2. d \in Nat /\ l \in Nat /\ d + 3 * l < Uint32Modulus
  BY <1>1, SumsStep, SumsBound
<1>3. d = Sum32(d - 3 * l)
  OBVIOUS
<1> HIDE DEF d, l
<1>4. l = 0
  BY <1>2, <1>3 DEF Sum32
<1> QED
  BY <1>4, NoneLost DEF l

\* A geometry that LoadGeometry returns draws the triangle fan of every face: in
\* a Debug build for every mesh whose faces have a corner, for its asserts stop it
\* otherwise, and in a Release build if every face has two corners and 16 bits
\* count the indices. CornersFit bounds the corners of the mesh, not the number of
\* its faces.
THEOREM DrawsTheFanTheorem == Spec => [](CornersFit(face_vertices) => DrawsTheFan)
<1>1. /\ IInv /\ CornersFit(face_vertices)
      /\ FewCorners(face_vertices) => FanInv(face_vertices, Fan)
      => DrawsTheFan
  <2> SUFFICES ASSUME IInv, CornersFit(face_vertices),
                      FewCorners(face_vertices) => FanInv(face_vertices, Fan), pc = "done",
                      \/ build = "Debug" /\ NoEmptyFace
                      \/ NoDegenerateFace /\ Len(Fan) <= UINT16_MAX
               PROVE  /\ outputIndex = Len(Fan) /\ outputVertex = Len(Fan)
                      /\ \A k \in 0 .. outputIndex - 1 : output[outputIndices[k]] = Fan[k + 1]
    BY DEF DrawsTheFan
  <2>1. face_vertices \in Seq(Nat) /\ DOMAIN face_vertices = 1 .. Len(face_vertices)
    BY MeshType DEF IInv
  <2>2. FewCorners(face_vertices)
    <3>1. \A f \in 1 .. Len(face_vertices) : face_vertices[f] \in Nat
      BY <2>1
    <3>2. ASSUME NEW f \in 1 .. Len(face_vertices) PROVE face_vertices[f] >= 1
      <4> DEFINE n == face_vertices[f]
      <4>1. n >= 1 \/ n >= 2
        BY <2>1 DEF NoEmptyFace, NoDegenerateFace
      <4>2. n \in Nat
        BY <3>1
      <4> HIDE DEF n
      <4> QED
        BY <4>1, <4>2 DEF n
    <3> QED
      BY <3>2 DEF FewCorners
  <2>3. FanInv(face_vertices, Fan)
    BY <2>2
  <2>4. Len(Fan) = Drawn(face_vertices)[Len(face_vertices)]
    BY <2>1, FanFacts
  <2>5. outputIndex = Len(Fan)
    BY <2>3, <2>4 DEF FanInv, Place
  <2>6. Drawable(face_vertices)
    <3>1. CASE build = "Debug"
      <4>1. outputIndex = totalOutputIndices /\ totalOutputIndices <= UINT16_MAX
        BY <2>3, <3>1 DEF FanInv, AssertsPassed
      <4>2. Drawn(face_vertices)[Len(face_vertices)]
              = Sum32(Drawn(face_vertices)[Len(face_vertices)]
                        - 3 * Lost(face_vertices)[Len(face_vertices)])
        BY <2>3, <2>4, <2>5, <4>1 DEF FanInv, CountedSum
      <4>3. \A f \in 1 .. Len(face_vertices) : face_vertices[f] >= 2
        BY <2>1, <2>2, <4>2, NoSmallFace
      <4> QED
        BY <2>4, <2>5, <4>1, <4>3 DEF Drawable
    <3>2. CASE NoDegenerateFace /\ Len(Fan) <= UINT16_MAX
      BY <2>1, <2>4, <3>2 DEF Drawable, NoDegenerateFace
    <3> QED
      BY <3>1, <3>2
  <2>7. Written(Drawn(face_vertices)[Len(face_vertices)], Fan)
    BY <2>3, <2>6 DEF FanInv
  <2> QED
    BY <2>5, <2>7 DEF Written
<1>2. Init /\ IInv => (FewCorners(face_vertices) => FanInv(face_vertices, Fan))
  BY FanInit
<1> QED
  BY <1>1, <1>2, FanStep, Inductive, PTL DEF Spec
=============================================================================
