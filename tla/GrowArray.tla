------------------------------ MODULE GrowArray ------------------------------
(***************************************************************************)
(* array_push and array_realloc: an array is a pointer behind a header of   *)
(* its size and its capacity, both of type fastObjUInt, and the pointer is  *)
(* overwritten with whatever array_realloc returns. Several arrays, such as *)
(* face_vertices and face_materials, are pushed to in step.                 *)
(***************************************************************************)
EXTENDS Integers, Sequences, SequencesExt

CONSTANTS
    Arrays,        \* those that get an element of each face
    UintModulus,   \* of fastObjUInt, which a user may override with a wider type
    IntModulus,    \* 2^32, of unsigned int
    PushLimit      \* bound of a run: the faces of a file

ASSUME WidthAssumption ==
    /\ UintModulus \in Nat /\ IntModulus \in Nat
    /\ 16 <= IntModulus /\ IntModulus <= UintModulus
    /\ IntModulus % 16 = 0

\* So many elements are safe, a third less than the width of unsigned int: the
\* growth by half and the rounding must not overflow.
ASSUME LimitAssumption == PushLimit \in Nat /\ 3 * PushLimit + 30 < 2 * IntModulus

VARIABLES
    array,     \* a record of capacity and data; the size is the length of data
    pushed,    \* history: the faces so far
    failed     \* history: the arrays that a failing realloc has emptied

vars == <<array, pushed, failed>>

\* The null pointer, of size and capacity 0.
Null == [capacity |-> 0, data |-> <<>>]

Init ==
    /\ array = [a \in Arrays |-> Null]
    /\ pushed = 0
    /\ failed = {}

-----------------------------------------------------------------------------

\* Variant: the size is compared without the new element.
NeedsGrowthAtSize(r) == Len(r.data) > r.capacity
\* _array_ngrow: a capacity of 0 is the null pointer.
NeedsGrowth(r) == (Len(r.data) + 1) % UintModulus >= r.capacity

AtLeast(n, m) == IF n < m THEN m ELSE n

\* Variant: down to the multiple of 16 below.
RoundDown(n) == n - (n % 16)

\* "(ncap + 15) & ~15u": the mask is an unsigned int and clears what a wider
\* fastObjUInt has above it.
RoundUp(n) ==
    LET low == ((n + 15) % UintModulus) % IntModulus IN low - (low % 16)

\* The ncap of array_realloc.
NewCapacity(r) ==
    RoundUp(AtLeast((r.capacity + r.capacity \div 2) % UintModulus,
                    (Len(r.data) + 1) % UintModulus))

\* realloc keeps what fits into the new block.
Lost == -1
Realloc(r) ==
    [capacity |-> NewCapacity(r),
     data |-> [k \in DOMAIN r.data |-> IF k <= NewCapacity(r) THEN r.data[k] ELSE Lost]]

\* Variant: a failing realloc leaves the array as it was.
KeepOnFailure(r) == r

\* "_array_grow" stores the result of array_realloc before it is looked at: the
\* array and the value are lost together.
Failed(r) == Null

Pushed(r, value) ==
    LET grown == IF NeedsGrowth(r) THEN Realloc(r) ELSE r
    IN  [grown EXCEPT !.data = Append(@, value)]

\* The end of parse_face, with memory running out for some of the arrays.
ParseFace ==
    /\ pushed < PushLimit
    /\ \E failing \in SUBSET {a \in Arrays : NeedsGrowth(array[a])} :
         /\ array' = [a \in Arrays |-> IF a \in failing THEN Failed(array[a])
                                       ELSE Pushed(array[a], pushed + 1)]
         /\ failed' = failed \cup failing
    /\ pushed' = pushed + 1

Done == pushed = PushLimit /\ UNCHANGED vars

Next == ParseFace \/ Done

Spec == Init /\ [][Next]_vars

-----------------------------------------------------------------------------

\* The size never exceeds the capacity: no element is written behind the block
\* that realloc returned.
WithinCapacity == \A a \in Arrays : Len(array[a].data) <= array[a].capacity

\* An array has lost nothing since its last failure: it ends with the face
\* just parsed, and the elements before that are those of the faces before it.
ConsecutiveToTheLast ==
    \A a \in Arrays : \A k \in DOMAIN array[a].data :
        array[a].data[k] = pushed - Len(array[a].data) + k

\* "Face data: one element for each face": entry f is about face f in every
\* array, as long as memory never ran out for one of them.
ParallelUnlessFailed ==
    \A a \in Arrays \ failed : array[a].data = [f \in 1 .. pushed |-> f]
=============================================================================
