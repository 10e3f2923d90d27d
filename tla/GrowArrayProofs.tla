--------------------------- MODULE GrowArrayProofs ---------------------------
(* For every width of fastObjUInt: arrays of less than two thirds of the range *)
(* of unsigned int are grown before they are full, and run parallel.          *)
EXTENDS GrowArray, TLAPS

Block == [capacity : Nat, data : Seq(Int)]

\* An array after n faces: full of the last of them, and with a capacity of at
\* most half as much again as it holds.
Sound(r, n) ==
    /\ r \in Block
    /\ Len(r.data) <= n
    /\ Len(r.data) <= r.capacity
    /\ 2 * r.capacity <= 3 * (Len(r.data) + 1) + 30
    /\ \A k \in 1 .. Len(r.data) : r.data[k] = n - Len(r.data) + k

IInv ==
    /\ pushed \in 0 .. PushLimit
    /\ failed \subseteq Arrays
    /\ array \in [Arrays -> Block]
    /\ \A a \in Arrays : Sound(array[a], pushed)
    /\ \A a \in Arrays \ failed : Len(array[a].data) = pushed

\* -------------------------------------------------------------- arithmetic

LEMMA Bounds == /\ UintModulus \in Nat /\ IntModulus \in Nat /\ PushLimit \in Nat
                /\ IntModulus <= UintModulus /\ 3 * PushLimit + 30 < 2 * IntModulus
  BY WidthAssumption, LimitAssumption

\* A number below the modulus is its own remainder.
LEMMA Remainder == ASSUME NEW m \in Nat, NEW n \in Nat, n < m PROVE n % m = n
  OBVIOUS

LEMMA Halving == ASSUME NEW n \in Nat PROVE n \div 2 \in Nat /\ 2 * (n \div 2) <= n
  OBVIOUS

LEMMA Rounding ==
    ASSUME NEW n \in Nat, n + 15 < IntModulus
    PROVE  RoundUp(n) \in Nat /\ n <= RoundUp(n) /\ RoundUp(n) <= n + 15
  <1>1. (n + 15) % UintModulus = n + 15
    BY Bounds, Remainder
  <1>2. ((n + 15) % UintModulus) % IntModulus = n + 15
    BY <1>1, Bounds, Remainder
  <1>3. RoundUp(n) = n + 15 - ((n + 15) % 16)
    BY <1>2 DEF RoundUp
  <1>4. (n + 15) % 16 \in 0 .. 15
    OBVIOUS
  <1> QED
    BY <1>3, <1>4

\* An array that is grown has room for the new element, and stays within half
\* as much again.
LEMMA Growth ==
    ASSUME NEW n \in Nat, n < PushLimit, NEW r, Sound(r, n), NeedsGrowth(r)
    PROVE  /\ NewCapacity(r) \in Nat /\ Len(r.data) + 1 <= NewCapacity(r)
           /\ 2 * NewCapacity(r) <= 3 * (Len(r.data) + 1) + 30
  <1> DEFINE size == Len(r.data)
  <1> DEFINE cap == r.capacity
  <1> DEFINE half == (cap + cap \div 2) % UintModulus
  <1> DEFINE need == (size + 1) % UintModulus
  <1>1. size \in Nat /\ cap \in Nat /\ size <= n /\ size + 1 < IntModulus
           /\ size + 1 \in Nat /\ size + 1 < UintModulus
    BY Bounds DEF Sound, Block
  <1>2. need = size + 1
    BY <1>1, Bounds, Remainder
  <1>3. cap <= size + 1
    BY <1>1, <1>2 DEF NeedsGrowth
  <1>4. NewCapacity(r) = RoundUp(AtLeast(half, need))
    BY DEF NewCapacity
  <1>5. cap \div 2 \in Nat /\ 2 * (cap \div 2) <= cap
    BY <1>1, Halving
  <1>6. cap + cap \div 2 \in Nat /\ 2 * (cap + cap \div 2) <= 3 * (size + 1)
    BY <1>1, <1>3, <1>5
  <1>7. cap + cap \div 2 < UintModulus
    BY <1>1, <1>6, Bounds
  <1>8. half = cap + cap \div 2
    BY <1>6, <1>7, Bounds, Remainder
  <1> HIDE DEF half, need, size, cap
  <1>9. /\ AtLeast(half, need) \in Nat /\ size + 1 <= AtLeast(half, need)
        /\ 2 * AtLeast(half, need) <= 3 * (size + 1)
    BY <1>1, <1>2, <1>6, <1>8 DEF AtLeast
  <1>10. AtLeast(half, need) + 15 < IntModulus
    BY <1>1, <1>9, Bounds
  <1>11. /\ NewCapacity(r) \in Nat /\ AtLeast(half, need) <= NewCapacity(r)
         /\ NewCapacity(r) <= AtLeast(half, need) + 15
    BY <1>4, <1>9, <1>10, Rounding
  <1>12. /\ size + 1 <= NewCapacity(r)
         /\ 2 * NewCapacity(r) <= 3 * (size + 1) + 30
    BY <1>1, <1>9, <1>11
  <1> QED
    BY <1>11, <1>12 DEF size

LEMMA AppendFacts ==
    ASSUME NEW q \in Seq(Int), NEW x \in Int
    PROVE  /\ Append(q, x) \in Seq(Int) /\ Len(Append(q, x)) = Len(q) + 1
           /\ Len(q) \in Nat
           /\ Append(q, x)[Len(q) + 1] = x
           /\ \A k \in 1 .. Len(q) : Append(q, x)[k] = q[k]
  OBVIOUS

\* realloc leaves the elements of an array that it grows as they are.
LEMMA ReallocKeeps ==
    ASSUME NEW n \in Nat, n < PushLimit, NEW r, Sound(r, n), NeedsGrowth(r)
    PROVE  Realloc(r).data = r.data
  <1>1. r.data \in Seq(Int) /\ Len(r.data) \in Nat /\ DOMAIN r.data = 1 .. Len(r.data)
    BY DEF Sound, Block
  <1>2. \A k \in DOMAIN r.data : k <= NewCapacity(r)
    BY <1>1, Growth
  <1>3. Realloc(r).data
          = [k \in DOMAIN r.data |-> IF k <= NewCapacity(r) THEN r.data[k] ELSE Lost]
    BY DEF Realloc
  <1>4. r.data = [k \in DOMAIN r.data |-> r.data[k]]
    BY <1>1, SMTT(30)
  <1> QED
    BY <1>2, <1>3, <1>4

\* --------------------------------------------------------------- one push

LEMMA NullSound == ASSUME NEW n \in Nat PROVE Null \in Block /\ Sound(Null, n)
  <1>1. Null.data = <<>> /\ Null.capacity = 0 /\ Null \in Block /\ Len(Null.data) = 0
    BY DEF Null, Block
  <1> QED
    BY <1>1 DEF Sound

\* After a push that found the memory it needed.
LEMMA PushSound ==
    ASSUME NEW n \in Nat, n < PushLimit, NEW m \in Nat, m = n + 1, NEW r, Sound(r, n)
    PROVE  Sound(Pushed(r, m), m) /\ Len(Pushed(r, m).data) = Len(r.data) + 1
  <1> DEFINE p == Pushed(r, m)
  <1> DEFINE size == Len(r.data)
  <1> DEFINE capacity == IF NeedsGrowth(r) THEN NewCapacity(r) ELSE r.capacity
  <1>1. /\ r.data \in Seq(Int) /\ size \in Nat /\ r.capacity \in Nat /\ size <= n
        /\ \A k \in 1 .. size : r.data[k] = n - size + k
    BY DEF Sound, Block
  <1>2. p = [capacity |-> capacity, data |-> Append(r.data, m)]
    <2>1. CASE NeedsGrowth(r)
      <3>1. p = [capacity |-> NewCapacity(r), data |-> Append(Realloc(r).data, m)]
        <4>1. p = [Realloc(r) EXCEPT !.data = Append(@, m)]
          BY <2>1 DEF Pushed
        <4>2. Realloc(r) = [capacity |-> NewCapacity(r), data |-> Realloc(r).data]
          BY DEF Realloc
        <4> HIDE DEF p
        <4> QED
          BY <4>1, <4>2
      <3> QED
        BY <2>1, <3>1, ReallocKeeps
    <2>2. CASE ~NeedsGrowth(r)
      <3>1. p = [r EXCEPT !.data = Append(@, m)]
        BY <2>2 DEF Pushed
      <3>2. r = [capacity |-> r.capacity, data |-> r.data]
        BY DEF Sound, Block
      <3> QED
        BY <2>2, <3>1, <3>2
    <2> QED
      BY <2>1, <2>2
  <1>3. /\ capacity \in Nat /\ size + 1 <= capacity
        /\ 2 * capacity <= 3 * (size + 2) + 30
    <2>1. CASE NeedsGrowth(r)
      BY <1>1, <2>1, Growth
    <2>2. CASE ~NeedsGrowth(r)
      <3>1. size + 1 \in Nat /\ size + 1 < UintModulus
        BY <1>1, Bounds
      <3>2. (size + 1) % UintModulus = size + 1
        BY <3>1, Bounds, Remainder
      <3>3. size + 1 < r.capacity
        BY <1>1, <2>2, <3>2 DEF NeedsGrowth
      <3> QED
        BY <1>1, <2>2, <3>3 DEF Sound
    <2> QED
      BY <2>1, <2>2
  <1> DEFINE longer == Append(r.data, m)
  <1>4. /\ longer \in Seq(Int) /\ Len(longer) = size + 1 /\ longer[size + 1] = m
        /\ \A k \in 1 .. size : longer[k] = r.data[k]
    BY <1>1, AppendFacts
  <1>5. p.data = longer /\ p.capacity = capacity
    BY <1>2
  <1> HIDE DEF longer, capacity, p, size
  <1>6. p \in Block
    BY <1>2, <1>3, <1>4 DEF Block, longer
  <1>7. \A k \in 1 .. Len(p.data) : p.data[k] = m - Len(p.data) + k
    <2> SUFFICES ASSUME NEW k \in 1 .. size + 1
                 PROVE  longer[k] = m - (size + 1) + k
      BY <1>4, <1>5
    <2>1. CASE k = size + 1
      BY <1>1, <1>4, <2>1
    <2>2. CASE k # size + 1
      <3>1. k \in 1 .. size /\ k \in Nat
        BY <1>1, <2>2
      <3>2. longer[k] = n - size + k
        BY <1>1, <1>4, <3>1
      <3> QED
        BY <1>1, <3>1, <3>2
    <2> QED
      BY <2>1, <2>2
  <1>8. /\ Len(p.data) <= m /\ Len(p.data) <= p.capacity
        /\ 2 * p.capacity <= 3 * (Len(p.data) + 1) + 30
    BY <1>1, <1>3, <1>4, <1>5
  <1>9. Sound(p, m)
    BY <1>6, <1>7, <1>8 DEF Sound
  <1> QED
    BY <1>4, <1>5, <1>9 DEF p, size

\* ------------------------------------------------------------- the theorems

\* The invariant: every array is sound, and those that have not failed hold
\* every face.
THEOREM Inductive == Spec => []IInv
  <1>1. Init => IInv
    <2> SUFFICES ASSUME Init PROVE IInv
      OBVIOUS
    <2>1. \A a \in Arrays : array[a] = Null /\ Len(array[a].data) = 0
      BY DEF Init, Null
    <2>2. array \in [Arrays -> Block]
      BY NullSound DEF Init
    <2>3. 0 \in 0 .. PushLimit
      BY Bounds
    <2> QED
      BY <2>1, <2>2, <2>3, NullSound DEF Init, IInv
  <1>2. IInv /\ [Next]_vars => IInv'
    <2> SUFFICES ASSUME IInv, [Next]_vars PROVE IInv'
      OBVIOUS
    <2>1. CASE ParseFace
      <3>1. PICK failing \in SUBSET {a \in Arrays : NeedsGrowth(array[a])} :
               /\ array' = [a \in Arrays |-> IF a \in failing THEN Failed(array[a])
                                             ELSE Pushed(array[a], pushed + 1)]
               /\ failed' = failed \cup failing
        BY <2>1 DEF ParseFace
      <3>2. /\ pushed \in Nat /\ pushed < PushLimit /\ pushed' = pushed + 1
            /\ pushed' \in 0 .. PushLimit
        BY <2>1, Bounds DEF ParseFace, IInv
      <3>3. \A a \in failing : array'[a] = Null
        BY <3>1 DEF Failed
      <3>4. \A a \in Arrays \ failing : array'[a] = Pushed(array[a], pushed')
        BY <3>1, <3>2
      <3>5. \A a \in Arrays \ failing : /\ Sound(array'[a], pushed')
                                       /\ Len(array'[a].data) = Len(array[a].data) + 1
        BY <3>2, <3>4, PushSound DEF IInv
      <3>6. \A a \in Arrays : Sound(array'[a], pushed')
        BY <3>2, <3>3, <3>5, NullSound
      <3>7. array' \in [Arrays -> Block]
        <4>1. \A a \in Arrays : array'[a] \in Block
          BY <3>6 DEF Sound
        <4> QED
          BY <3>1, <4>1
      <3>8. \A a \in Arrays \ failed' : Len(array'[a].data) = pushed'
        BY <3>1, <3>2, <3>5 DEF IInv
      <3>9. failed' \subseteq Arrays
        BY <3>1 DEF IInv
      <3> QED
        BY <3>2, <3>6, <3>7, <3>8, <3>9 DEF IInv
    <2>2. CASE UNCHANGED vars
      BY <2>2 DEF vars, IInv
    <2> QED
      BY <2>1, <2>2 DEF Next, Done
  <1> QED
    BY <1>1, <1>2, PTL DEF Spec

\* An array is never written behind its end, whatever the width of fastObjUInt,
\* as long as it has less than two thirds of 2^32 elements: the override by a
\* wider type does not raise that bound.
THEOREM WithinCapacityTheorem == Spec => []WithinCapacity
  <1>1. IInv => WithinCapacity
    BY DEF IInv, Sound, WithinCapacity
  <1> QED
    BY <1>1, Inductive, PTL

\* What an array holds is the faces since it last failed, without gap.
THEOREM ConsecutiveTheorem == Spec => []ConsecutiveToTheLast
  <1>1. IInv => ConsecutiveToTheLast
    <2> SUFFICES ASSUME IInv, NEW a \in Arrays, NEW k \in DOMAIN array[a].data
                 PROVE  array[a].data[k] = pushed - Len(array[a].data) + k
      BY DEF ConsecutiveToTheLast
    <2>1. Sound(array[a], pushed)
      BY DEF IInv
    <2>2. DOMAIN array[a].data = 1 .. Len(array[a].data)
      BY <2>1 DEF Sound, Block
    <2> QED
      BY <2>1, <2>2 DEF Sound
  <1> QED
    BY <1>1, Inductive, PTL

\* The face arrays run parallel as long as memory does not run out.
THEOREM ParallelTheorem == Spec => []ParallelUnlessFailed
  <1>1. IInv => ParallelUnlessFailed
    <2> SUFFICES ASSUME IInv, NEW a \in Arrays \ failed
                 PROVE  array[a].data = [f \in 1 .. pushed |-> f]
      BY DEF ParallelUnlessFailed
    <2>1. array[a].data \in Seq(Int) /\ Len(array[a].data) = pushed /\ pushed \in Nat
      BY DEF IInv, Sound, Block
    <2>2. Sound(array[a], pushed)
      BY DEF IInv
    <2>3. \A k \in 1 .. pushed : array[a].data[k] = pushed - pushed + k
      BY <2>1, <2>2 DEF Sound
    <2>4. \A k \in 1 .. pushed : array[a].data[k] = k
      BY <2>1, <2>3
    <2> QED
      BY <2>1, <2>4
  <1> QED
    BY <1>1, Inductive, PTL
=============================================================================
