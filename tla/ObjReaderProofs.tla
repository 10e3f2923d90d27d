-------------------------- MODULE ObjReaderProofs --------------------------
(* The block reader of ObjReader and the line parser of ObjText, for every   *)
(* block size, every file and every sequence of block sizes a callback       *)
(* returns: what the buffer holds, which letters of the file are parsed,     *)
(* that what parse_buffer makes of a line depends on that line alone, and    *)
(* that it reads the faces, colours and names of a line as they are written. *)
EXTENDS ObjText, FlatArraysProofs, FiniteSetTheorems

USE BufferSizeAssumption, CharAssumption

\* What is carried is shorter than a block and has no newline, so while a block
\* waits to be parsed every newline lies in that block.
CarryInv ==
    /\ Len(buffer) < 2 * BufferSize
    /\ pc = "read" =>
         /\ Len(buffer) < BufferSize
         /\ \A k \in 1 .. Len(buffer) : buffer[k] # NewLine
    /\ pc = "parse" =>
         \A k \in 1 .. Len(buffer) : buffer[k] = NewLine => Len(buffer) - k < BufferSize

Inv == TypeOK /\ CarryInv

LEMMA SubSeqFacts ==
    ASSUME NEW S, NEW q \in Seq(S), NEW m \in Nat \ {0}, NEW n \in Nat,
           m <= n + 1, n <= Len(q)
    PROVE  /\ SubSeq(q, m, n) \in Seq(S)
           /\ Len(SubSeq(q, m, n)) = n - m + 1
           /\ \A i \in 1 .. n - m + 1 : SubSeq(q, m, n)[i] = q[m + i - 1]
<1>1. \A i \in 1 .. n - m + 1 : m + i - 1 \in 1 .. Len(q)
  OBVIOUS
<1>2. \A i \in 1 .. Len(q) : q[i] \in S
  OBVIOUS
<1>3. SubSeq(q, m, n) = [i \in 1 .. n - m + 1 |-> q[m + i - 1]]
  OBVIOUS
<1>4. n - m + 1 \in Nat
  OBVIOUS
<1> QED
  BY <1>1, <1>2, <1>3, <1>4

LEMMA BlockType ==
    ASSUME NEW block \in Seq(Char), Len(block) <= BufferSize
    PROVE  /\ EnsureNewLine(block) \in Seq(Char)
           /\ Len(EnsureNewLine(block)) <= BufferSize
<1>1. NewLine \in Char
  BY DEF Char
<1>2. Append(block, NewLine) \in Seq(Char) /\ Len(Append(block, NewLine)) = Len(block) + 1
  BY <1>1
<1>3. Len(block) \in Nat
  OBVIOUS
<1> QED
  BY <1>2, <1>3 DEF EnsureNewLine

LEMMA InvInit == Init => Inv
<1> SUFFICES ASSUME Init PROVE Inv
  OBVIOUS
<1>1. file \in Seq(Char)
  BY DEF Init, Start
<1> QED
  BY <1>1 DEF Init, Start, Inv, TypeOK, CarryInv

LEMMA InvStep == Inv /\ [Next]_vars => Inv'
<1> SUFFICES ASSUME Inv, [Next]_vars PROVE Inv'
  OBVIOUS
<1> USE DEF Inv, TypeOK
<1>1. CASE ReadFile
  <2>1. PICK n \in ReadSizes :
           IF Finished(n)
           THEN BreakLoop /\ UNCHANGED <<rest, buffer>>
           ELSE /\ buffer' = buffer \o EnsureNewLine(SubSeq(rest, 1, n))
                /\ rest' = SubSeq(rest, n + 1, Len(rest))
                /\ pc' = "parse"
    BY <1>1 DEF ReadFile
  <2>2. pc = "read" /\ UNCHANGED <<shortReads, file, parsed>>
    BY <1>1 DEF ReadFile
  <2>3. n \in 0 .. Len(rest) /\ n <= BufferSize
    BY DEF ReadSizes
  <2>4. CASE Finished(n)
    BY <2>1, <2>2, <2>4 DEF BreakLoop, CarryInv
  <2>5. CASE ~Finished(n)
    <3> DEFINE block == EnsureNewLine(SubSeq(rest, 1, n))
    <3>1. block \in Seq(Char) /\ Len(block) <= BufferSize
      <4>1. SubSeq(rest, 1, n) \in Seq(Char) /\ Len(SubSeq(rest, 1, n)) = n
        BY <2>3, SubSeqFacts
      <4> QED
        BY <2>3, <4>1, BlockType
    <3>2. rest' \in Seq(Char)
      <4>1. SubSeq(rest, n + 1, Len(rest)) \in Seq(Char)
        BY <2>3, SubSeqFacts
      <4> QED
        BY <2>1, <2>5, <4>1
    <3> HIDE DEF block
    <3>3. buffer' = buffer \o block /\ pc' = "parse"
      BY <2>1, <2>5 DEF block
    <3>4. buffer' \in Seq(Char) /\ Len(buffer') = Len(buffer) + Len(block)
      BY <3>1, <3>3
    <3>5. Len(buffer) < BufferSize /\ \A k \in 1 .. Len(buffer) : buffer[k] # NewLine
      BY <2>2 DEF CarryInv
    <3>6. \A k \in 1 .. Len(buffer) : buffer'[k] = buffer[k]
      BY <3>1, <3>3
    <3>7. \A k \in 1 .. Len(buffer') : buffer'[k] = NewLine => k > Len(buffer)
      <4>1. SUFFICES ASSUME NEW k \in 1 .. Len(buffer'), buffer'[k] = NewLine,
                            ~(k > Len(buffer))
                     PROVE  FALSE
        OBVIOUS
      <4>2. Len(buffer) \in Nat
        OBVIOUS
      <4>3. k \in 1 .. Len(buffer)
        BY <4>1, <4>2
      <4> QED
        BY <3>5, <3>6, <4>1, <4>3
    <3>8. Len(block) \in Nat /\ Len(buffer) \in Nat
      BY <3>1
    <3>9. \A k \in 1 .. Len(buffer') : buffer'[k] = NewLine => Len(buffer') - k < BufferSize
      BY <3>1, <3>4, <3>7, <3>8
    <3>10. Len(buffer') < 2 * BufferSize
      BY <3>1, <3>4, <3>5, <3>8
    <3>11. CarryInv'
      BY <3>3, <3>9, <3>10 DEF CarryInv
    <3> QED
      BY <2>2, <3>2, <3>3, <3>4, <3>11
  <2> QED
    BY <2>4, <2>5
<1>2. CASE ParseBuffer
  <2>1. PICK k \in DOMAIN buffer :
           /\ IsLastNewLine(k)
           /\ parsed' = parsed \o SubSeq(buffer, 1, k)
           /\ buffer' = Carry(k)
    BY <1>2 DEF ParseBuffer
  <2>2. pc = "parse" /\ pc' = "read" /\ UNCHANGED <<shortReads, file, rest>>
    BY <1>2 DEF ParseBuffer
  <2>3. /\ buffer' \in Seq(Char) /\ Len(buffer') = Len(buffer) - k
        /\ \A i \in 1 .. Len(buffer) - k : buffer'[i] = buffer[k + i]
    <3>1. k \in 1 .. Len(buffer)
      BY <2>1
    <3> DEFINE tail == SubSeq(buffer, k + 1, Len(buffer))
    <3>2. /\ tail \in Seq(Char) /\ Len(tail) = Len(buffer) - (k + 1) + 1
          /\ \A i \in 1 .. Len(buffer) - (k + 1) + 1 : tail[i] = buffer[k + 1 + i - 1]
      <4>1. k + 1 \in Nat \ {0} /\ Len(buffer) \in Nat /\ k + 1 <= Len(buffer) + 1
        BY <3>1
      <4> QED
        BY <4>1, SubSeqFacts
    <3>3. buffer' = tail
      BY <2>1 DEF Carry
    <3> HIDE DEF tail
    <3>4. \A i \in 1 .. Len(buffer) - k : k + 1 + i - 1 = k + i
      BY <3>1
    <3>5. Len(buffer) - (k + 1) + 1 = Len(buffer) - k
      BY <3>1
    <3> QED
      BY <3>2, <3>3, <3>4, <3>5
  <2>4. parsed' \in Seq(Char)
    <3> DEFINE block == SubSeq(buffer, 1, k)
    <3>1. block \in Seq(Char)
      BY <2>1, SubSeqFacts
    <3>2. parsed' = parsed \o block /\ parsed \in Seq(Char)
      BY <2>1
    <3> HIDE DEF block
    <3> QED
      BY <3>1, <3>2
  <2>5. k \in 1 .. Len(buffer) /\ Len(buffer) - k < BufferSize
    BY <2>1, <2>2 DEF CarryInv, IsLastNewLine
  <2>6. \A i \in 1 .. Len(buffer') : buffer'[i] # NewLine
    <3>1. SUFFICES ASSUME NEW i \in 1 .. Len(buffer') PROVE buffer'[i] # NewLine
      OBVIOUS
    <3>2. Len(buffer) \in Nat /\ k \in 1 .. Len(buffer)
      OBVIOUS
    <3>3. i \in 1 .. Len(buffer) - k /\ k + i \in k + 1 .. Len(buffer)
      BY <2>3, <3>2
    <3>4. buffer[k + i] # NewLine
      BY <2>1, <3>3 DEF IsLastNewLine
    <3> QED
      BY <2>3, <3>3, <3>4
  <2>7. Len(buffer') < BufferSize /\ Len(buffer') < 2 * BufferSize
    BY <2>3, <2>5
  <2>8. CarryInv'
    BY <2>2, <2>6, <2>7 DEF CarryInv
  <2> QED
    BY <2>2, <2>3, <2>4, <2>8
<1>3. CASE LineTooLong \/ Done \/ UNCHANGED vars
  BY <1>3 DEF LineTooLong, BreakLoop, Done, vars, CarryInv
<1> QED
  BY <1>1, <1>2, <1>3 DEF Next

\* No block, and no newline appended to one, is written behind the end of the
\* buffer of fast_obj_read_with_callbacks.
THEOREM WithinBufferTheorem == Spec => []WithinBuffer
<1>1. Inv => WithinBuffer
  BY DEF Inv, CarryInv, WithinBuffer
<1> QED
  BY <1>1, InvInit, InvStep, PTL DEF Spec

-----------------------------------------------------------------------------
(* How long the loop runs.                                                  *)

\* What the loop has still to do: blocks to read, a line carried over or cut off.
Variant ==
    IF pc = "done" THEN 0
    ELSE IF pc = "read"
         THEN 4 * Len(rest) + 1 + (IF buffer = <<>> THEN 0 ELSE 2)
         ELSE 4 * Len(rest) + 2 + (IF buffer # <<>> /\ buffer[Len(buffer)] = NewLine THEN 0 ELSE 2)

LEMMA VariantIsNat == Inv => Variant \in Nat
  BY DEF Inv, TypeOK, Variant

\* A read of nothing behind a line carried over ends that line.
LEMMA EmptyReadEnds ==
    ASSUME NEW q \in Seq(Char), NEW r \in Seq(Char)
    PROVE  LET x == q \o EnsureNewLine(SubSeq(r, 1, 0))
           IN  x # <<>> /\ x[Len(x)] = NewLine
<1> DEFINE block == SubSeq(r, 1, 0)
           x == q \o EnsureNewLine(block)
<1>1. block \in Seq(Char) /\ Len(block) = 0
  BY SubSeqFacts
<1>2. block = <<>>
  BY <1>1
<1>3. EnsureNewLine(<<>>) = <<NewLine>>
  BY DEF EnsureNewLine
<1>4. NewLine \in Char
  BY DEF Char
<1>5. x = q \o <<NewLine>>
  BY <1>2, <1>3
<1> HIDE DEF x
<1>6. x \in Seq(Char) /\ Len(x) = Len(q) + 1 /\ x[Len(q) + 1] = NewLine
  BY <1>4, <1>5
<1>7. Len(q) + 1 # 0
  OBVIOUS
<1> QED
  BY <1>6, <1>7 DEF x

LEMMA VariantStep == Inv /\ Next => Variant' < Variant \/ UNCHANGED vars
<1> SUFFICES ASSUME Inv, Next PROVE Variant' < Variant \/ UNCHANGED vars
  OBVIOUS
<1>0. Variant \in Nat /\ rest \in Seq(Char) /\ buffer \in Seq(Char) /\ pc \in {"read", "parse", "done"}
  BY VariantIsNat DEF Inv, TypeOK
<1>1. CASE ReadFile
  <2>1. PICK n \in ReadSizes :
           IF Finished(n)
           THEN BreakLoop /\ UNCHANGED <<rest, buffer>>
           ELSE /\ buffer' = buffer \o EnsureNewLine(SubSeq(rest, 1, n))
                /\ rest' = SubSeq(rest, n + 1, Len(rest))
                /\ pc' = "parse"
    BY <1>1 DEF ReadFile
  <2>2. pc = "read" /\ n \in 0 .. Len(rest)
    BY <1>1 DEF ReadFile, ReadSizes
  <2>3. CASE Finished(n)
    BY <1>0, <2>1, <2>2, <2>3 DEF BreakLoop, Variant
  <2>4. CASE ~Finished(n)
    <3>1. pc' = "parse" /\ rest' = SubSeq(rest, n + 1, Len(rest))
          /\ buffer' = buffer \o EnsureNewLine(SubSeq(rest, 1, n))
      BY <2>1, <2>4
    <3>2. Len(rest') = Len(rest) - n
      <4>1. Len(SubSeq(rest, n + 1, Len(rest))) = Len(rest) - (n + 1) + 1
        BY <1>0, <2>2, SubSeqFacts
      <4> QED
        BY <1>0, <2>2, <3>1, <4>1
    <3>3. CASE n = 0
      <4>1. buffer # <<>>
        BY <2>4, <3>3 DEF Finished
      <4>2. buffer' # <<>> /\ buffer'[Len(buffer')] = NewLine
        BY <1>0, <3>1, <3>3, EmptyReadEnds
      <4>3. Variant = 4 * Len(rest) + 1 + 2
        BY <2>2, <4>1 DEF Variant
      <4>4. Variant' = 4 * Len(rest') + 2 + 0
        BY <3>1, <4>2 DEF Variant
      <4> QED
        BY <1>0, <3>2, <3>3, <4>3, <4>4
    <3>4. CASE n # 0
      <4>1. PICK x \in {0, 2} : Variant = 4 * Len(rest) + 1 + x
        BY <2>2 DEF Variant
      <4>2. PICK y \in {0, 2} : Variant' = 4 * Len(rest') + 2 + y
        BY <3>1 DEF Variant
      <4> QED
        BY <1>0, <2>2, <3>2, <3>4, <4>1, <4>2
    <3> QED
      BY <3>3, <3>4
  <2> QED
    BY <2>3, <2>4
<1>2. CASE ParseBuffer
  <2>1. PICK k \in DOMAIN buffer : IsLastNewLine(k) /\ buffer' = SubSeq(buffer, k + 1, Len(buffer))
    BY <1>2 DEF ParseBuffer, Carry
  <2>2. pc = "parse" /\ pc' = "read" /\ rest' = rest
    BY <1>2 DEF ParseBuffer
  <2>3. k \in 1 .. Len(buffer) /\ Len(buffer) \in Nat /\ buffer # <<>>
    BY <1>0, <2>1
  <2>4. CASE buffer' = <<>>
    <3>1. Variant' = 4 * Len(rest) + 1 + 0
      BY <2>2, <2>4 DEF Variant
    <3>2. PICK x \in {0, 2} : Variant = 4 * Len(rest) + 2 + x
      BY <2>2 DEF Variant
    <3> QED
      BY <1>0, <3>1, <3>2
  <2>5. CASE buffer' # <<>>
    <3>1. k # Len(buffer)
      <4>1. ASSUME k = Len(buffer) PROVE FALSE
        <5>1. buffer' \in Seq(Char) /\ Len(buffer') = Len(buffer) - (k + 1) + 1
          BY <1>0, <2>1, <2>3, SubSeqFacts
        <5>2. Len(buffer') = 0
          BY <2>3, <4>1, <5>1
        <5> QED
          BY <2>5, <5>1, <5>2
      <4> QED
        BY <4>1
    <3>2. buffer[Len(buffer)] # NewLine
      BY <2>1, <2>3, <3>1 DEF IsLastNewLine
    <3>3. Variant' = 4 * Len(rest) + 1 + 2
      BY <2>2, <2>5 DEF Variant
    <3>4. Variant = 4 * Len(rest) + 2 + 2
      BY <2>2, <3>2 DEF Variant
    <3> QED
      BY <1>0, <3>3, <3>4
  <2> QED
    BY <2>4, <2>5
<1>3. CASE LineTooLong
  BY <1>0, <1>3 DEF LineTooLong, BreakLoop, Variant
<1>4. CASE Done
  BY <1>4 DEF Done
<1> QED
  BY <1>1, <1>2, <1>3, <1>4 DEF Next

\* Whatever file_read returns, every turn of the loop of
\* fast_obj_read_with_callbacks brings its end nearer, and it ends after at most
\* one step and four for each character of the file.
THEOREM VariantTheorem == Spec => [](Variant \in Nat) /\ [][Variant' < Variant]_vars
<1>1. Inv /\ [Next]_vars => [Variant' < Variant]_vars
  BY VariantStep
<1> QED
  BY <1>1, VariantIsNat, InvInit, InvStep, PTL DEF Spec

-----------------------------------------------------------------------------
(* With short blocks at the end of the file only, nothing is lost or moved.  *)

Stream == parsed \o (buffer \o rest)
Unended == file # <<>> /\ Last(file) # NewLine
HasNewLine(block) == \E k \in 1 .. Len(block) : block[k] = NewLine

\* What was parsed, what is in the buffer and what is unread make up the file,
\* from the last block on with the newline that it lacks.
StreamInv ==
    \/ Stream = file
    \/ /\ Unended /\ Stream = Append(file, NewLine) /\ rest = <<>>
       /\ pc = "read" => buffer = <<>>
       /\ pc = "parse" => buffer # <<>> /\ Last(buffer) = NewLine

SeamInv ==
    ~shortReads =>
        /\ StreamInv
        /\ parsed # <<>> => Last(parsed) = NewLine
        /\ pc = "parse" => HasNewLine(buffer) \/ Len(buffer) >= BufferSize
        /\ pc = "done" =>
              \/ buffer = <<>> /\ rest = <<>>
              \/ Stream = file /\ ~HasNewLine(buffer) /\ Len(buffer) >= BufferSize

LEMMA ConcatFacts ==
    ASSUME NEW S, NEW p \in Seq(S), NEW q \in Seq(S)
    PROVE  /\ p \o q \in Seq(S) /\ Len(p \o q) = Len(p) + Len(q)
           /\ \A k \in 1 .. Len(p) : (p \o q)[k] = p[k]
           /\ \A k \in 1 .. Len(q) : (p \o q)[Len(p) + k] = q[k]
           /\ p \o <<>> = p /\ <<>> \o p = p
  OBVIOUS

LEMMA Regroup ==
    ASSUME NEW p \in Seq(Char), NEW q \in Seq(Char), NEW r \in Seq(Char)
    PROVE  (p \o q) \o r = p \o (q \o r)
  BY ConcatAssociative

LEMMA LastOfConcat ==
    ASSUME NEW S, NEW p \in Seq(S), NEW q \in Seq(S), q # <<>>
    PROVE  Last(p \o q) = q[Len(q)] /\ p \o q # <<>>
<1>1. Len(q) \in 1 .. Len(q) /\ Len(p \o q) = Len(p) + Len(q) /\ Len(p) \in Nat
  OBVIOUS
<1>2. (p \o q)[Len(p) + Len(q)] = q[Len(q)]
  BY <1>1, ConcatFacts
<1> QED
  BY <1>1, <1>2 DEF Last

\* Cutting a sequence behind its first n elements.
LEMMA CutFacts ==
    ASSUME NEW S, NEW q \in Seq(S), NEW n \in 0 .. Len(q)
    PROVE  /\ SubSeq(q, 1, n) \in Seq(S) /\ SubSeq(q, n + 1, Len(q)) \in Seq(S)
           /\ Len(SubSeq(q, 1, n)) = n
           /\ \A k \in 1 .. n : SubSeq(q, 1, n)[k] = q[k]
           /\ SubSeq(q, 1, n) \o SubSeq(q, n + 1, Len(q)) = q
<1>1. n \in Nat /\ Len(q) \in Nat
  OBVIOUS
<1>2. /\ SubSeq(q, 1, n) \in Seq(S) /\ Len(SubSeq(q, 1, n)) = n
      /\ \A k \in 1 .. n : SubSeq(q, 1, n)[k] = q[k]
  BY <1>1, SubSeqFacts
<1>3. SubSeq(q, n + 1, Len(q)) \in Seq(S)
  BY <1>1, SubSeqFacts
<1>4. SubSeq(q, 1, n) \o SubSeq(q, n + 1, Len(q)) = SubSeq(q, 1, Len(q))
  <2>1. 1 \in 1 .. Len(q) + 1 /\ n \in 1 - 1 .. Len(q) /\ Len(q) \in n .. Len(q)
    BY <1>1
  <2> QED
    BY <2>1, ConcatAdjacentSubSeq
<1> QED
  BY <1>2, <1>3, <1>4, SubSeqFull

\* A block that moves from the third part to the second.
LEMMA MoveRead ==
    ASSUME NEW p \in Seq(Char), NEW q \in Seq(Char), NEW r \in Seq(Char), NEW n \in 0 .. Len(r)
    PROVE  p \o ((q \o SubSeq(r, 1, n)) \o SubSeq(r, n + 1, Len(r))) = p \o (q \o r)
<1> DEFINE x == SubSeq(r, 1, n)
           y == SubSeq(r, n + 1, Len(r))
<1>1. x \in Seq(Char) /\ y \in Seq(Char) /\ x \o y = r
  BY CutFacts
<1> HIDE DEF x, y
<1>2. (q \o x) \o y = q \o (x \o y)
  BY <1>1, Regroup
<1>3. p \o ((q \o x) \o y) = p \o (q \o r)
  BY <1>1, <1>2
<1> QED
  BY <1>3 DEF x, y

\* A block that moves from the second part to the first.
LEMMA MoveParsed ==
    ASSUME NEW p \in Seq(Char), NEW q \in Seq(Char), NEW r \in Seq(Char), NEW n \in 0 .. Len(q)
    PROVE  (p \o SubSeq(q, 1, n)) \o (SubSeq(q, n + 1, Len(q)) \o r) = p \o (q \o r)
<1> DEFINE x == SubSeq(q, 1, n)
           y == SubSeq(q, n + 1, Len(q))
<1>1. x \in Seq(Char) /\ y \in Seq(Char)
  BY CutFacts
<1>2. x \o y = q
  BY CutFacts
<1> HIDE DEF x, y
<1>3. y \o r \in Seq(Char)
  BY <1>1
<1>4. (p \o x) \o (y \o r) = p \o (x \o (y \o r))
  <2> DEFINE z == y \o r
  <2>1. z \in Seq(Char)
    BY <1>3
  <2> HIDE DEF z
  <2>2. (p \o x) \o z = p \o (x \o z)
    BY <1>1, <2>1, Regroup
  <2> QED
    BY <2>2 DEF z
<1>5. (x \o y) \o r = x \o (y \o r)
  BY <1>1, Regroup
<1> QED
  BY <1>2, <1>4, <1>5 DEF x, y

LEMMA PrefixFacts ==
    ASSUME NEW S, NEW p \in Seq(S), NEW q \in Seq(S)
    PROVE  IsPrefix(p, p \o q)
<1>1. Len(p) \in Nat /\ Len(q) \in Nat /\ Len(p \o q) = Len(p) + Len(q)
  OBVIOUS
<1>2. SubSeq(p, 1, Len(p)) = SubSeq(p \o q, 1, Len(p))
  OBVIOUS
<1> QED
  BY <1>1, <1>2 DEF IsPrefix

LEMMA StreamType ==
    ASSUME TypeOK
    PROVE  /\ Stream \in Seq(Char) /\ Len(Stream) = Len(parsed) + Len(buffer) + Len(rest)
           /\ \A k \in 1 .. Len(buffer) : Stream[Len(parsed) + k] = buffer[k]
           /\ Len(parsed) \in Nat /\ Len(buffer) \in Nat /\ Len(rest) \in Nat
<1>1. buffer \o rest \in Seq(Char) /\ Len(buffer \o rest) = Len(buffer) + Len(rest)
      /\ \A k \in 1 .. Len(buffer) : (buffer \o rest)[k] = buffer[k]
  BY ConcatFacts DEF TypeOK
<1>2. Len(parsed) \in Nat /\ Len(buffer) \in Nat /\ Len(rest) \in Nat
  BY DEF TypeOK
<1>3. /\ Stream \in Seq(Char) /\ Len(Stream) = Len(parsed) + Len(buffer \o rest)
      /\ \A k \in 1 .. Len(buffer \o rest) : Stream[Len(parsed) + k] = (buffer \o rest)[k]
  BY <1>1, ConcatFacts DEF TypeOK, Stream
<1> QED
  BY <1>1, <1>2, <1>3

LEMMA SeamInit == Init => SeamInv
<1> SUFFICES ASSUME Init PROVE SeamInv
  OBVIOUS
<1>1. file \in Seq(Char) /\ parsed = <<>> /\ buffer = <<>> /\ rest = file /\ pc = "read"
  BY DEF Init, Start
<1>2. Stream = file
  BY <1>1, ConcatFacts DEF Stream
<1> QED
  BY <1>1, <1>2 DEF SeamInv, StreamInv

\* A block as it is in the file.
LEMMA SeamBlock ==
    ASSUME Inv, SeamInv, ~shortReads, pc = "read", NEW n \in 0 .. Len(rest),
           n < BufferSize => n = Len(rest), ~Finished(n),
           UNCHANGED <<shortReads, file, parsed>>, pc' = "parse",
           buffer' = buffer \o SubSeq(rest, 1, n), rest' = SubSeq(rest, n + 1, Len(rest)),
           n = BufferSize \/ (n > 0 /\ rest[n] = NewLine)
    PROVE  SeamInv'
<1> USE DEF Inv, TypeOK
<1> DEFINE X == SubSeq(rest, 1, n)
           Y == SubSeq(rest, n + 1, Len(rest))
<1>1. X \in Seq(Char) /\ Y \in Seq(Char) /\ Len(X) = n /\ X \o Y = rest
      /\ \A k \in 1 .. n : X[k] = rest[k]
  BY CutFacts
<1>2. buffer' = buffer \o X /\ rest' = Y
  OBVIOUS
<1> HIDE DEF X, Y
<1>3. Stream' = Stream
  <2>1. parsed \in Seq(Char) /\ buffer \in Seq(Char) /\ rest \in Seq(Char)
    OBVIOUS
  <2> HIDE DEF Inv, TypeOK
  <2>2. parsed \o ((buffer \o X) \o Y) = parsed \o (buffer \o rest)
    BY <2>1, MoveRead, ZenonT(30) DEF X, Y
  <2> QED
    BY <1>2, <2>2 DEF Stream
<1>4. Stream = file
  <2> SUFFICES ASSUME rest = <<>>, buffer = <<>> PROVE FALSE
    BY DEF SeamInv, StreamInv
  <2> QED
    BY DEF Finished
<1>5. HasNewLine(buffer') \/ Len(buffer') >= BufferSize
  <2>1. Len(buffer) \in Nat /\ Len(buffer') = Len(buffer) + n
        /\ \A k \in 1 .. n : buffer'[Len(buffer) + k] = X[k]
    BY <1>1, <1>2, ConcatFacts
  <2>2. CASE n = BufferSize
    BY <2>1, <2>2
  <2>3. CASE n > 0 /\ rest[n] = NewLine
    <3>1. buffer'[Len(buffer) + n] = NewLine /\ Len(buffer) + n \in 1 .. Len(buffer')
      BY <1>1, <2>1, <2>3
    <3> QED
      BY <3>1 DEF HasNewLine
  <2> QED
    BY <2>2, <2>3
<1> QED
  BY <1>3, <1>4, <1>5 DEF SeamInv, StreamInv

\* The last block, with the newline that is missing.
LEMMA SeamLastBlock ==
    ASSUME Inv, SeamInv, ~shortReads, pc = "read", ~Finished(Len(rest)),
           UNCHANGED <<shortReads, file, parsed>>, pc' = "parse",
           buffer' = buffer \o Append(rest, NewLine), rest' = <<>>,
           rest = <<>> \/ Last(rest) # NewLine
    PROVE  SeamInv'
<1> USE DEF Inv, TypeOK
<1>1. Stream = file
  <2> SUFFICES ASSUME rest = <<>>, buffer = <<>> PROVE FALSE
    BY DEF SeamInv, StreamInv
  <2> QED
    BY DEF Finished
<1>2. NewLine \in Char /\ <<NewLine>> \in Seq(Char)
  BY DEF Char
<1>3. /\ Append(rest, NewLine) \in Seq(Char) /\ Len(Append(rest, NewLine)) = Len(rest) + 1
      /\ Append(rest, NewLine) = rest \o <<NewLine>>
      /\ Append(rest, NewLine)[Len(rest) + 1] = NewLine
  BY <1>2
<1>4. Stream' = Append(file, NewLine)
  <2>1. buffer' = (buffer \o rest) \o <<NewLine>> /\ buffer' \in Seq(Char)
    BY <1>2, <1>3, Regroup, ConcatFacts
  <2>2. buffer' \o rest' = buffer'
    BY <2>1, ConcatFacts
  <2>3. buffer \o rest \in Seq(Char)
    BY ConcatFacts
  <2>4. Stream' = Stream \o <<NewLine>>
    BY <1>2, <2>1, <2>2, <2>3, Regroup DEF Stream
  <2> QED
    BY <1>1, <1>2, <2>4
<1>5. buffer' # <<>> /\ Last(buffer') = NewLine /\ HasNewLine(buffer')
  <2>1. Len(buffer) \in Nat /\ Len(rest) \in Nat /\ Len(buffer') = Len(buffer) + Len(rest) + 1
        /\ buffer'[Len(buffer) + (Len(rest) + 1)] = NewLine
    BY <1>3, ConcatFacts
  <2> QED
    BY <2>1 DEF Last, HasNewLine
<1>6. Unended
  <2>1. Len(file) = Len(parsed) + Len(buffer) + Len(rest) /\ Len(rest) \in Nat /\ Len(buffer) \in Nat
        /\ Len(parsed) \in Nat
    BY <1>1, StreamType
  <2>2. CASE rest # <<>>
    <3>1. Len(rest) > 0 /\ (buffer \o rest)[Len(buffer) + Len(rest)] = rest[Len(rest)]
          /\ Len(buffer \o rest) = Len(buffer) + Len(rest) /\ buffer \o rest \in Seq(Char)
      BY <2>1, <2>2, ConcatFacts
    <3>2. file[Len(parsed) + (Len(buffer) + Len(rest))] = (buffer \o rest)[Len(buffer) + Len(rest)]
      <4>1. Len(buffer) + Len(rest) \in 1 .. Len(buffer \o rest)
        BY <2>1, <3>1
      <4>2. file = parsed \o (buffer \o rest)
        BY <1>1 DEF Stream
      <4> QED
        BY <3>1, <4>1, <4>2, ConcatFacts
    <3> QED
      BY <2>1, <2>2, <3>1, <3>2 DEF Unended, Last
  <2>3. CASE rest = <<>>
    <3>1. buffer # <<>> /\ Len(rest) = 0
      BY <2>3 DEF Finished
    <3>2. Len(buffer) > 0 /\ Len(file) = Len(parsed) + Len(buffer)
      BY <2>1, <3>1
    <3>3. buffer[Len(buffer)] # NewLine
      BY <2>1, <3>2 DEF CarryInv
    <3>4. parsed \o buffer = file
      BY <1>1, <2>3, ConcatFacts DEF Stream
    <3> QED
      BY <3>1, <3>3, <3>4, LastOfConcat DEF Unended
  <2> QED
    BY <2>2, <2>3
<1>7. StreamInv'
  BY <1>4, <1>5, <1>6 DEF StreamInv, Unended
<1> QED
  BY <1>5, <1>7 DEF SeamInv

LEMMA SeamRead == Inv /\ SeamInv /\ ReadFile /\ ~shortReads => SeamInv'
<1> SUFFICES ASSUME Inv, SeamInv, ReadFile, ~shortReads PROVE SeamInv'
  OBVIOUS
<1>1. PICK n \in ReadSizes :
         IF Finished(n)
         THEN BreakLoop /\ UNCHANGED <<rest, buffer>>
         ELSE /\ buffer' = buffer \o EnsureNewLine(SubSeq(rest, 1, n))
              /\ rest' = SubSeq(rest, n + 1, Len(rest))
              /\ pc' = "parse"
  BY DEF ReadFile
<1>2. pc = "read" /\ UNCHANGED <<shortReads, file, parsed>>
  BY DEF ReadFile
<1>3. n \in 0 .. Len(rest) /\ n <= BufferSize /\ (n < BufferSize => n = Len(rest))
  BY DEF ReadSizes, Inv, TypeOK
<1>4. CASE Finished(n)
  <2>1. pc' = "done" /\ buffer' = <<>> /\ buffer = <<>> /\ rest' = rest
    BY <1>1, <1>4 DEF BreakLoop, Finished
  <2>2. rest = <<>>
    BY <1>3, <1>4 DEF Finished, Inv, TypeOK
  <2>3. Stream' = Stream
    BY <1>2, <2>1 DEF Stream
  <2> QED
    BY <1>2, <2>1, <2>2, <2>3 DEF SeamInv, StreamInv, Unended
<1>5. CASE ~Finished(n)
  <2> DEFINE X == SubSeq(rest, 1, n)
  <2>1. X \in Seq(Char) /\ Len(X) = n /\ (\A k \in 1 .. n : X[k] = rest[k])
    BY <1>3, CutFacts DEF Inv, TypeOK
  <2>2. /\ buffer' = buffer \o EnsureNewLine(X) /\ rest' = SubSeq(rest, n + 1, Len(rest))
        /\ pc' = "parse"
    BY <1>1, <1>5
  <2>3. CASE n < BufferSize /\ (X = <<>> \/ Last(X) # NewLine)
    <3>1. EnsureNewLine(X) = Append(X, NewLine)
      BY <2>1, <2>3 DEF EnsureNewLine
    <3>2. X = rest /\ n = Len(rest) /\ rest' = <<>>
      BY <1>3, <2>2, <2>3, SubSeqFull, SubSeqEmpty DEF Inv, TypeOK
    <3> HIDE DEF X
    <3> QED
      BY <1>2, <1>5, <2>2, <2>3, <3>1, <3>2, SeamLastBlock
  <2>4. CASE ~(n < BufferSize /\ (X = <<>> \/ Last(X) # NewLine))
    <3>1. EnsureNewLine(X) = X
      BY <2>1, <2>4 DEF EnsureNewLine
    <3>2. n = BufferSize \/ (n > 0 /\ rest[n] = NewLine)
      <4>1. CASE n < BufferSize
        <5>1. X # <<>> /\ Last(X) = NewLine
          BY <2>4, <4>1
        <5> HIDE DEF X
        <5>2. n > 0 /\ n \in 1 .. n
          BY <1>3, <2>1, <5>1
        <5> QED
          BY <2>1, <5>1, <5>2 DEF Last
      <4> QED
        BY <1>3, <4>1
    <3>3. buffer' = buffer \o SubSeq(rest, 1, n)
      BY <2>2, <3>1
    <3> QED
      BY <1>2, <1>3, <1>5, <2>2, <3>2, <3>3, SeamBlock
  <2> QED
    BY <2>3, <2>4
<1> QED
  BY <1>4, <1>5

LEMMA SeamParse == Inv /\ SeamInv /\ ParseBuffer /\ ~shortReads => SeamInv'
<1> SUFFICES ASSUME Inv, SeamInv, ParseBuffer, ~shortReads PROVE SeamInv'
  OBVIOUS
<1> USE DEF Inv, TypeOK
<1>0. Len(buffer) \in Nat /\ DOMAIN buffer = 1 .. Len(buffer)
  OBVIOUS
<1>1. PICK k \in 1 .. Len(buffer) :
         /\ IsLastNewLine(k)
         /\ parsed' = parsed \o SubSeq(buffer, 1, k)
         /\ buffer' = SubSeq(buffer, k + 1, Len(buffer))
  BY <1>0 DEF ParseBuffer, Carry
<1>2. pc = "parse" /\ pc' = "read" /\ UNCHANGED <<shortReads, file, rest>>
  BY DEF ParseBuffer
<1> DEFINE X == SubSeq(buffer, 1, k)
           Y == SubSeq(buffer, k + 1, Len(buffer))
<1>3. X \in Seq(Char) /\ Y \in Seq(Char) /\ Len(X) = k /\ X \o Y = buffer /\ X[k] = NewLine
      /\ k \in Nat /\ k > 0
  <2>1. k \in 0 .. Len(buffer) /\ k \in 1 .. k /\ k > 0 /\ k \in Nat
    BY <1>0
  <2>2. /\ X \in Seq(Char) /\ Y \in Seq(Char) /\ Len(X) = k /\ X \o Y = buffer
        /\ \A m \in 1 .. k : X[m] = buffer[m]
    BY <2>1, CutFacts
  <2> QED
    BY <1>1, <2>1, <2>2 DEF IsLastNewLine
<1>4. parsed' = parsed \o X /\ buffer' = Y
  BY <1>1
<1>5. k = Len(buffer) => Y = <<>>
  BY SubSeqEmpty
<1> HIDE DEF X, Y
<1>6. Stream' = Stream
  <2>1. parsed \in Seq(Char) /\ buffer \in Seq(Char) /\ rest \in Seq(Char)
    OBVIOUS
  <2> HIDE DEF Inv, TypeOK
  <2>2. k \in 0 .. Len(buffer)
    BY <1>0
  <2>3. (parsed \o X) \o (Y \o rest) = parsed \o (buffer \o rest)
    BY <2>1, <2>2, MoveParsed DEF X, Y
  <2> QED
    BY <1>2, <1>4, <2>3 DEF Stream
<1>7. Last(parsed') = NewLine
  <2>1. X # <<>>
    BY <1>3
  <2> QED
    BY <1>3, <1>4, <2>1, LastOfConcat
<1>8. buffer # <<>> /\ Last(buffer) = NewLine => buffer' = <<>>
  <2> SUFFICES ASSUME buffer # <<>>, Last(buffer) = NewLine PROVE k = Len(buffer)
    BY <1>4, <1>5
  <2>1. Len(buffer) \in Nat /\ k \in 1 .. Len(buffer)
    BY <1>0
  <2> HIDE DEF Inv, TypeOK
  <2>2. k < Len(buffer) => Len(buffer) \in k + 1 .. Len(buffer)
    BY <2>1
  <2>3. ~(k < Len(buffer))
    BY <1>1, <2>2 DEF IsLastNewLine, Last
  <2> QED
    BY <2>1, <2>3
<1>9. StreamInv'
  BY <1>2, <1>6, <1>8 DEF SeamInv, StreamInv, Unended
<1> QED
  BY <1>2, <1>7, <1>9 DEF SeamInv

LEMMA SeamStep == Inv /\ SeamInv /\ [Next]_vars => SeamInv'
<1> SUFFICES ASSUME Inv, SeamInv, [Next]_vars PROVE SeamInv'
  OBVIOUS
<1>0. shortReads' = shortReads
  BY DEF Next, vars, ReadFile, ParseBuffer, LineTooLong, Done
<1> SUFFICES ASSUME ~shortReads PROVE SeamInv'
  BY <1>0 DEF SeamInv
<1>1. CASE LineTooLong
  <2>1. UNCHANGED <<shortReads, file, rest, buffer, parsed>> /\ pc = "parse" /\ pc' = "done"
        /\ ~HasNewLine(buffer)
    BY <1>1 DEF LineTooLong, BreakLoop, HasNewLine, Inv, TypeOK
  <2>2. Stream = file /\ Len(buffer) >= BufferSize
    <3>1. ~(buffer # <<>> /\ Last(buffer) = NewLine)
      BY <2>1 DEF HasNewLine, Last, Inv, TypeOK
    <3> QED
      BY <2>1, <3>1 DEF SeamInv, StreamInv
  <2>3. Stream' = Stream /\ HasNewLine(buffer)' = HasNewLine(buffer)
    BY <2>1 DEF Stream, HasNewLine
  <2> QED
    BY <2>1, <2>2, <2>3 DEF SeamInv, StreamInv
<1>2. CASE Done \/ UNCHANGED vars
  <2>1. UNCHANGED <<pc, shortReads, file, rest, buffer, parsed>>
    BY <1>2 DEF Done, vars
  <2> QED
    BY <2>1 DEF SeamInv, StreamInv, Stream, Unended, HasNewLine
<1> QED
  BY <1>1, <1>2, SeamRead, SeamParse DEF Next

\* For every block size and file: what parse_buffer is given is the beginning of
\* the file, each of its characters once and in order.
THEOREM InOrderTheorem == Spec => []InOrder
<1>1. Inv /\ SeamInv => InOrder
  <2> SUFFICES ASSUME Inv, SeamInv, ~shortReads PROVE IsPrefix(parsed, Completed(file))
    BY DEF InOrder
  <2>1. buffer \o rest \in Seq(Char) /\ parsed \in Seq(Char) /\ file \in Seq(Char)
        /\ <<NewLine>> \in Seq(Char)
    BY ConcatFacts DEF Inv, TypeOK, Char
  <2>2. CASE Stream = Completed(file)
    BY <2>1, <2>2, PrefixFacts DEF Stream
  <2>3. CASE Stream = file /\ Completed(file) = Append(file, NewLine)
    <3>1. Completed(file) = parsed \o ((buffer \o rest) \o <<NewLine>>)
      <4>1. Completed(file) = (parsed \o (buffer \o rest)) \o <<NewLine>>
        BY <2>1, <2>3 DEF Stream
      <4> QED
        <5>1. (parsed \o (buffer \o rest)) \o <<NewLine>> = parsed \o ((buffer \o rest) \o <<NewLine>>)
          BY <2>1, Regroup
        <5> QED
          BY <4>1, <5>1
    <3>2. (buffer \o rest) \o <<NewLine>> \in Seq(Char)
      BY <2>1, ConcatFacts
    <3> QED
      BY <2>1, <3>1, <3>2, PrefixFacts
  <2> QED
    BY <2>2, <2>3 DEF SeamInv, StreamInv, Completed, Unended
<1> QED
  BY <1>1, InvInit, InvStep, SeamInit, SeamStep, PTL DEF Spec

\* For every block size: a file of lines that are shorter than a block is parsed
\* to its end, and its last line is ended.
THEOREM CompleteTheorem == Spec => []CompleteWhenLinesFit
<1>1. Inv /\ SeamInv => CompleteWhenLinesFit
  <2> SUFFICES ASSUME Inv, SeamInv, pc = "done", LinesFit, ~shortReads
               PROVE  parsed = Completed(file)
    BY DEF CompleteWhenLinesFit
  <2> USE DEF Inv, TypeOK
  <2>1. CASE Stream = file /\ ~HasNewLine(buffer) /\ Len(buffer) >= BufferSize
    <3> DEFINE i == Len(parsed) + 1
    <3>1. /\ Len(parsed) \in Nat /\ Len(buffer) \in Nat /\ Len(rest) \in Nat
          /\ Len(file) = Len(parsed) + Len(buffer) + Len(rest)
          /\ \A k \in 1 .. Len(buffer) : file[Len(parsed) + k] = buffer[k]
      BY <2>1, StreamType
    <3>2. i \in 1 .. Len(file) - BufferSize + 1
      BY <2>1, <3>1
    <3>3. PICK j \in i .. i + BufferSize - 1 : file[j] = NewLine
      BY <3>2 DEF LinesFit
    <3>4. j - Len(parsed) \in 1 .. Len(buffer) /\ Len(parsed) + (j - Len(parsed)) = j
      BY <2>1, <3>1
    <3> QED
      BY <2>1, <3>1, <3>3, <3>4 DEF HasNewLine
  <2>2. CASE buffer = <<>> /\ rest = <<>>
    <3>1. Stream = parsed
      BY <2>2, ConcatFacts DEF Stream
    <3> QED
      BY <3>1 DEF SeamInv, StreamInv, Completed, Unended
  <2> QED
    BY <2>1, <2>2 DEF SeamInv
<1> QED
  BY <1>1, InvInit, InvStep, SeamInit, SeamStep, PTL DEF Spec
-----------------------------------------------------------------------------
(* Blocks of whatever size.                                                *)

\* Every character as a sequence of its own, empty for a newline.
LetterByLetter(s) == [k \in DOMAIN s |-> IF s[k] = NewLine THEN <<>> ELSE <<s[k]>>]

LEMMA LetterByLetterType ==
    ASSUME NEW s \in Seq(Char)
    PROVE  /\ LetterByLetter(s) \in Seq(Seq(Char)) /\ Len(LetterByLetter(s)) = Len(s)
           /\ \A k \in 1 .. Len(s) : LetterByLetter(s)[k] = IF s[k] = NewLine THEN <<>> ELSE <<s[k]>>
<1>1. Len(s) \in Nat /\ DOMAIN s = 1 .. Len(s)
  OBVIOUS
<1>2. \A k \in 1 .. Len(s) : (IF s[k] = NewLine THEN <<>> ELSE <<s[k]>>) \in Seq(Char)
  OBVIOUS
<1> QED
  BY <1>1, <1>2 DEF LetterByLetter

\* The letters of two texts are those of the first and then those of the second.
LEMMA LettersConcat ==
    ASSUME NEW p \in Seq(Char), NEW q \in Seq(Char)
    PROVE  /\ OnlyLetters(p \o q) = OnlyLetters(p) \o OnlyLetters(q)
           /\ OnlyLetters(p) \in Seq(Char)
<1>1. LetterByLetter(p \o q) = LetterByLetter(p) \o LetterByLetter(q)
  <2> DEFINE t == p \o q
             a == LetterByLetter(p)
             b == LetterByLetter(q)
  <2>1. /\ t \in Seq(Char) /\ Len(t) = Len(p) + Len(q) /\ Len(p) \in Nat /\ Len(q) \in Nat
        /\ \A k \in 1 .. Len(p) : t[k] = p[k]
        /\ \A k \in 1 .. Len(q) : t[Len(p) + k] = q[k]
    BY ConcatFacts
  <2>2. /\ a \in Seq(Seq(Char)) /\ Len(a) = Len(p)
        /\ \A k \in 1 .. Len(p) : a[k] = IF p[k] = NewLine THEN <<>> ELSE <<p[k]>>
    BY LetterByLetterType
  <2>3. /\ b \in Seq(Seq(Char)) /\ Len(b) = Len(q)
        /\ \A k \in 1 .. Len(q) : b[k] = IF q[k] = NewLine THEN <<>> ELSE <<q[k]>>
    BY LetterByLetterType
  <2> HIDE DEF t, a, b
  <2> DEFINE c == a \o b
             d == LetterByLetter(t)
  <2>0. c = a \o b
    OBVIOUS
  <2> HIDE DEF c
  <2>4. /\ c \in Seq(Seq(Char)) /\ Len(c) = Len(p) + Len(q)
        /\ \A k \in 1 .. Len(p) : c[k] = a[k]
        /\ \A k \in 1 .. Len(q) : c[Len(p) + k] = b[k]
    <3>1. PICK V : V = Seq(Char)
      OBVIOUS
    <3>2. a \in Seq(V) /\ b \in Seq(V)
      BY <2>2, <2>3, <3>1
    <3>3. /\ c \in Seq(V) /\ Len(c) = Len(a) + Len(b)
          /\ \A k \in 1 .. Len(a) : c[k] = a[k]
          /\ \A k \in 1 .. Len(b) : c[Len(a) + k] = b[k]
      BY <2>0, <3>2, ConcatElements
    <3> QED
      BY <2>2, <2>3, <3>1, <3>3
  <2>5. /\ d \in Seq(Seq(Char)) /\ Len(d) = Len(p) + Len(q)
        /\ \A k \in 1 .. Len(p) + Len(q) : d[k] = IF t[k] = NewLine THEN <<>> ELSE <<t[k]>>
    BY <2>1, LetterByLetterType
  <2> HIDE DEF d
  <2>6. ASSUME NEW k \in 1 .. Len(p) + Len(q) PROVE c[k] = d[k]
    <3>1. CASE k \in 1 .. Len(p)
      BY <2>1, <2>2, <2>4, <2>5, <3>1, ZenonT(30)
    <3>2. CASE ~(k \in 1 .. Len(p))
      <4>1. PICK j \in 1 .. Len(q) : k = Len(p) + j
        <5>1. k - Len(p) \in 1 .. Len(q) /\ k = Len(p) + (k - Len(p))
          BY <2>1, <3>2
        <5> QED
          BY <5>1
      <4>2. c[k] = b[j] /\ t[k] = q[j]
        BY <2>1, <2>4, <4>1
      <4> QED
        BY <2>3, <2>5, <4>2
    <3> QED
      BY <3>1, <3>2
  <2>7. c = d
    BY <2>4, <2>5, <2>6, SeqEqual
  <2> QED
    BY <2>7 DEF c, d, t, a, b
<1>2. LetterByLetter(p) \in Seq(Seq(Char)) /\ LetterByLetter(q) \in Seq(Seq(Char))
  BY LetterByLetterType
<1>3. \A s : OnlyLetters(s) = FlattenSeq(LetterByLetter(s))
  BY DEF OnlyLetters, LetterByLetter
<1>4. FlattenSeq(LetterByLetter(p)) \in Seq(Char)
  BY <1>2, FlattenType
<1> QED
  BY <1>1, <1>2, <1>3, <1>4, FlattenConcat

LEMMA NoLetters == OnlyLetters(<<NewLine>>) = <<>>
<1> DEFINE a == LetterByLetter(<<NewLine>>)
<1>1. a = <<<<>>>>
  BY DEF LetterByLetter
<1> HIDE DEF a
<1>2. a \in Seq(Seq(Char)) /\ Len(a) = 1 /\ a[1] = <<>>
  BY <1>1
<1>3. Len(a) # 0
  BY <1>2
<1>4. PICK f : /\ \A k \in 1 .. Len(a) : f[k] = IF k = 1 THEN a[k] ELSE f[k - 1] \o a[k]
               /\ FlattenSeq(a) = f[Len(a)]
  BY <1>2, <1>3, FlattenBy
<1>5. FlattenSeq(a) = <<>>
  BY <1>2, <1>4
<1> QED
  BY <1>5 DEF a, OnlyLetters, LetterByLetter

\* The newline that is added is not a letter.
LEMMA LettersOfBlock ==
    ASSUME NEW block \in Seq(Char)
    PROVE  /\ EnsureNewLine(block) \in Seq(Char)
           /\ OnlyLetters(EnsureNewLine(block)) = OnlyLetters(block)
<1>1. NewLine \in Char /\ <<NewLine>> \in Seq(Char)
  BY DEF Char
<1>2. Append(block, NewLine) = block \o <<NewLine>> /\ Append(block, NewLine) \in Seq(Char)
  BY <1>1
<1>3. OnlyLetters(block \o <<NewLine>>) = OnlyLetters(block) \o <<>>
  BY <1>1, NoLetters, LettersConcat
<1>4. OnlyLetters(block) \o <<>> = OnlyLetters(block)
  <2>1. OnlyLetters(block) \in Seq(Char)
    BY LettersConcat
  <2> QED
    BY <2>1, ConcatFacts
<1> QED
  BY <1>2, <1>3, <1>4 DEF EnsureNewLine

\* The letters that were parsed, are in the buffer and are not read yet make up
\* those of the file.
LettersInv == OnlyLetters(Stream) = OnlyLetters(file)

LEMMA LettersOfStream ==
    ASSUME NEW p \in Seq(Char), NEW q \in Seq(Char), NEW r \in Seq(Char)
    PROVE  OnlyLetters(p \o (q \o r)) = OnlyLetters(p) \o (OnlyLetters(q) \o OnlyLetters(r))
<1> DEFINE x == q \o r
<1>1. x \in Seq(Char) /\ OnlyLetters(x) = OnlyLetters(q) \o OnlyLetters(r)
  BY ConcatFacts, LettersConcat
<1> HIDE DEF x
<1>2. OnlyLetters(p \o x) = OnlyLetters(p) \o OnlyLetters(x)
  BY <1>1, LettersConcat
<1> QED
  BY <1>1, <1>2 DEF x

LEMMA LettersInit == Init => LettersInv
<1> SUFFICES ASSUME Init PROVE LettersInv
  OBVIOUS
<1>1. file \in Seq(Char) /\ parsed = <<>> /\ buffer = <<>> /\ rest = file
  BY DEF Init, Start
<1>2. Stream = file
  BY <1>1, ConcatFacts DEF Stream
<1> QED
  BY <1>2 DEF LettersInv

LEMMA LettersStep == Inv /\ LettersInv /\ [Next]_vars => LettersInv'
<1> SUFFICES ASSUME Inv, LettersInv, [Next]_vars PROVE LettersInv'
  OBVIOUS
<1>0. parsed \in Seq(Char) /\ buffer \in Seq(Char) /\ rest \in Seq(Char) /\ Len(rest) \in Nat
      /\ Len(buffer) \in Nat /\ DOMAIN buffer = 1 .. Len(buffer)
  BY DEF Inv, TypeOK
<1>1. CASE ReadFile
  <2>1. PICK n \in ReadSizes :
           IF Finished(n)
           THEN BreakLoop /\ UNCHANGED <<rest, buffer>>
           ELSE /\ buffer' = buffer \o EnsureNewLine(SubSeq(rest, 1, n))
                /\ rest' = SubSeq(rest, n + 1, Len(rest))
                /\ pc' = "parse"
    BY <1>1 DEF ReadFile
  <2>2. UNCHANGED <<file, parsed>>
    BY <1>1 DEF ReadFile
  <2>3. n \in 0 .. Len(rest)
    BY <1>0 DEF ReadSizes
  <2>4. CASE Finished(n)
    <3>1. Stream' = Stream
      BY <2>1, <2>2, <2>4 DEF Stream
    <3> QED
      BY <2>2, <3>1 DEF LettersInv
  <2>5. CASE ~Finished(n)
    <3> DEFINE X == SubSeq(rest, 1, n)
               Y == SubSeq(rest, n + 1, Len(rest))
               E == EnsureNewLine(X)
    <3>1. X \in Seq(Char) /\ Y \in Seq(Char) /\ X \o Y = rest
      BY <1>0, <2>3, CutFacts
    <3>2. buffer' = buffer \o E /\ rest' = Y
      BY <2>1, <2>5
    <3> HIDE DEF X, Y
    <3>3. E \in Seq(Char) /\ OnlyLetters(E) = OnlyLetters(X)
      BY <3>1, LettersOfBlock
    <3> HIDE DEF E
    <3>4. OnlyLetters(E) \o OnlyLetters(Y) = OnlyLetters(rest)
      BY <3>1, <3>3, LettersConcat, ZenonT(30)
    <3>5. Stream' = parsed \o (buffer \o (E \o Y))
      <4>1. (buffer \o E) \o Y = buffer \o (E \o Y)
        BY <1>0, <3>1, <3>3, Regroup, SMTT(30)
      <4> QED
        BY <2>2, <3>2, <4>1 DEF Stream
    <3>6. OnlyLetters(Stream') = OnlyLetters(parsed) \o (OnlyLetters(buffer) \o OnlyLetters(rest))
      <4>1. E \o Y \in Seq(Char) /\ OnlyLetters(E \o Y) = OnlyLetters(rest)
        BY <3>1, <3>3, <3>4, LettersConcat, ConcatFacts
      <4> DEFINE z == E \o Y
      <4> HIDE DEF z
      <4>2. z \in Seq(Char) /\ OnlyLetters(z) = OnlyLetters(rest) /\ Stream' = parsed \o (buffer \o z)
        BY <3>5, <4>1 DEF z
      <4>3. OnlyLetters(parsed \o (buffer \o z))
              = OnlyLetters(parsed) \o (OnlyLetters(buffer) \o OnlyLetters(z))
        BY <1>0, <4>2, LettersOfStream
      <4> QED
        BY <4>2, <4>3
    <3>7. OnlyLetters(Stream) = OnlyLetters(parsed) \o (OnlyLetters(buffer) \o OnlyLetters(rest))
      BY <1>0, LettersOfStream DEF Stream
    <3> QED
      BY <2>2, <3>6, <3>7 DEF LettersInv
  <2> QED
    BY <2>4, <2>5
<1>2. CASE ParseBuffer
  <2>1. PICK k \in DOMAIN buffer : /\ parsed' = parsed \o SubSeq(buffer, 1, k)
                                   /\ buffer' = SubSeq(buffer, k + 1, Len(buffer))
    BY <1>2 DEF ParseBuffer, Carry
  <2>2. UNCHANGED <<file, rest>>
    BY <1>2 DEF ParseBuffer
  <2>3. k \in 0 .. Len(buffer)
    BY <1>0
  <2>4. (parsed \o SubSeq(buffer, 1, k)) \o (SubSeq(buffer, k + 1, Len(buffer)) \o rest)
          = parsed \o (buffer \o rest)
    BY <1>0, <2>3, MoveParsed, ZenonT(30)
  <2>5. Stream' = Stream
    BY <2>1, <2>2, <2>4 DEF Stream
  <2> QED
    BY <2>2, <2>5 DEF LettersInv
<1>3. CASE LineTooLong \/ Done \/ UNCHANGED vars
  <2>1. UNCHANGED <<file, rest, buffer, parsed>>
    BY <1>3 DEF LineTooLong, Done, vars
  <2> QED
    BY <2>1 DEF LettersInv, Stream
<1> QED
  BY <1>1, <1>2, <1>3 DEF Next

\* For every block size and file, and also when the callback returns short blocks
\* in the middle of the file: what parse_buffer is given has the letters of the
\* file, each once and in order; a short block can only break a line.
THEOREM LettersTheorem == Spec => []LettersInOrder
<1>1. Inv /\ LettersInv => LettersInOrder
  <2> SUFFICES ASSUME Inv, LettersInv PROVE LettersInOrder
    OBVIOUS
  <2>1. parsed \in Seq(Char) /\ buffer \o rest \in Seq(Char)
    BY ConcatFacts DEF Inv, TypeOK
  <2>2. OnlyLetters(file) = OnlyLetters(parsed) \o OnlyLetters(buffer \o rest)
    BY <2>1, LettersConcat DEF LettersInv, Stream
  <2>3. OnlyLetters(parsed) \in Seq(Char) /\ OnlyLetters(buffer \o rest) \in Seq(Char)
    BY <2>1, LettersConcat
  <2> QED
    BY <2>2, <2>3, PrefixFacts DEF LettersInOrder
<1> QED
  BY <1>1, InvInit, InvStep, LettersInit, LettersStep, PTL DEF Spec

-----------------------------------------------------------------------------
(* What a turn of parse_buffer reads.                                       *)

\* From d + p on, b reads like c from p on, up to the next newline, at e in c.
Same(b, c, d, p, e) ==
    /\ b \in Seq(Char) /\ c \in Seq(Char)
    /\ d \in Nat /\ e \in Nat /\ p \in 1 .. e /\ e <= Len(c) /\ d + e <= Len(b)
    /\ \A q \in p .. e : b[d + q] = c[q]
    /\ c[e] = NewLine /\ \A q \in p .. e - 1 : c[q] # NewLine

\* A pointer that has moved from p to y in c, and along with it to x in b.
Moves(x, y, d, p, e) == y \in p .. e /\ x = d + y

\* The same has been read and the pointers have moved together.
SameResult(x, y, d, p, e) == x.val = y.val /\ Moves(x.next, y.next, d, p, e)

LEMMA SameFacts ==
    ASSUME NEW b, NEW c, NEW d, NEW p, NEW e, Same(b, c, d, p, e)
    PROVE  /\ d \in Nat /\ e \in Nat /\ p \in Nat \ {0} /\ p \in 1 .. e /\ p <= e
           /\ Len(b) \in Nat /\ Len(c) \in Nat /\ e <= Len(c) /\ d + e <= Len(b)
           /\ DOMAIN b = 1 .. Len(b) /\ DOMAIN c = 1 .. Len(c)
           /\ b[d + p] = c[p] /\ c[e] = NewLine /\ (p # e => c[p] # NewLine)
           /\ \A q \in p .. e : b[d + q] = c[q]
           /\ \A q \in p .. e - 1 : c[q] # NewLine
  BY DEF Same

LEMMA SameOn ==
    ASSUME NEW b, NEW c, NEW d, NEW p, NEW e, Same(b, c, d, p, e), NEW q \in p .. e
    PROVE  Same(b, c, d, q, e)
  BY DEF Same

LEMMA MovesOn ==
    ASSUME NEW b, NEW c, NEW d, NEW p, NEW e, Same(b, c, d, p, e),
           NEW q, NEW r, Moves(r, q, d, p, e), NEW x, NEW y, Moves(x, y, d, q, e)
    PROVE  Moves(x, y, d, p, e)
  BY DEF Same, Moves

\* First finds what is there.
LEMMA FirstIs ==
    ASSUME NEW b \in Seq(Char), NEW p \in Nat \ {0}, NEW S,
           NEW x \in p .. Len(b), b[x] \in S, \A q \in p .. x - 1 : b[q] \notin S
    PROVE  First(b, p, S) = x
<1> DEFINE found == {q \in p .. Len(b) : b[q] \in S} \cup {Len(b) + 1}
<1>1. Len(b) \in Nat
  OBVIOUS
<1>2. x \in found /\ \A y \in found : x <= y
  BY <1>1
<1>3. \A z \in found : (\A y \in found : z <= y) => z = x
  <2> TAKE z \in found
  <2>1. z \in Int /\ x \in Int
    BY <1>1
  <2> QED
    BY <1>2, <2>1
<1> HIDE DEF found
<1>4. Min(found) = x
  BY <1>2, <1>3 DEF Min
<1> QED
  BY <1>4 DEF First, found

\* A set with the newline in it has a first character in the line.
LEMMA FirstInLine ==
    ASSUME NEW b, NEW c, NEW d, NEW p, NEW e, Same(b, c, d, p, e), NEW S, NewLine \in S
    PROVE  \E x \in p .. e : c[x] \in S /\ \A q \in p .. x - 1 : c[q] \notin S
<1> DEFINE T == {q \in p .. e : c[q] \in S}
<1>1. e \in T /\ T \in SUBSET Nat
  BY SameFacts
<1> HIDE DEF T
<1>2. PICK x \in T : \A y \in T : x <= y
  BY <1>1, LeastNumber
<1>3. x \in p .. e /\ c[x] \in S
  BY <1>2 DEF T
<1>4. \A q \in p .. x - 1 : q \in p .. e /\ ~(x <= q)
  BY <1>3, SameFacts
<1>5. \A q \in p .. x - 1 : c[q] \notin S
  BY <1>2, <1>4 DEF T
<1> QED
  BY <1>3, <1>5

LEMMA SameFirst ==
    ASSUME NEW b, NEW c, NEW d, NEW p, NEW e, Same(b, c, d, p, e), NEW S, NewLine \in S
    PROVE  Moves(First(b, d + p, S), First(c, p, S), d, p, e)
<1>1. PICK x \in p .. e : c[x] \in S /\ \A q \in p .. x - 1 : c[q] \notin S
  BY FirstInLine
<1>2. x \in Nat /\ x \in p .. Len(c) /\ d + x \in d + p .. Len(b) /\ d + p \in Nat \ {0}
  BY SameFacts
<1>3. First(c, p, S) = x
  <2>1. c \in Seq(Char)
    BY DEF Same
  <2> QED
    BY <1>1, <1>2, <2>1, SameFacts, FirstIs
<1>4. First(b, d + p, S) = d + x
  <2>1. b \in Seq(Char)
    BY DEF Same
  <2> DEFINE l == d + p
             y == d + x
  <2>2. p \in Nat /\ d \in Nat /\ e \in Nat /\ x <= e /\ l \in Nat /\ y \in Nat
    BY <1>1, <1>2, SameFacts
  <2>3. b[y] \in S
    <3>1. b[d + x] = c[x]
      BY <1>1, SameFacts
    <3> QED
      BY <1>1, <3>1
  <2>4. l \in Nat \ {0} /\ y \in l .. Len(b)
    BY <1>2
  <2>5. l = d + p /\ y = d + x
    OBVIOUS
  <2> HIDE DEF l, y
  <2>6. \A q \in l .. y - 1 : b[q] \notin S
    <3> TAKE q \in l .. y - 1
    <3>1. PICK r \in p .. x - 1 : q = d + r
      <4>1. q - d \in p .. x - 1 /\ q = d + (q - d)
        BY <1>2, <2>2, <2>5
      <4> QED
        BY <4>1
    <3>2. r \in p .. e
      BY <1>2, <2>2
    <3>3. b[d + r] = c[r]
      BY <3>2, SameFacts
    <3> QED
      BY <1>1, <3>1, <3>3
  <2>7. First(b, l, S) = y
    BY <2>1, <2>3, <2>4, <2>6, FirstIs
  <2> QED
    BY <2>5, <2>7
<1> QED
  BY <1>3, <1>4 DEF Moves

LEMMA SameSkip ==
    ASSUME NEW b, NEW c, NEW d, NEW p, NEW e, Same(b, c, d, p, e), NEW S, NewLine \notin S
    PROVE  Moves(SkipWhile(b, d + p, S), SkipWhile(c, p, S), d, p, e)
<1> DEFINE N == (Range(b) \cup Range(c)) \ S
<1>1. NewLine \in N
  <2>1. e \in DOMAIN c /\ c[e] = NewLine
    BY SameFacts
  <2> QED
    BY <2>1 DEF Range
<1>2. \A q \in 1 .. Len(b) : b[q] \in Range(b) \ S <=> b[q] \in N
  BY SameFacts DEF Range
<1>3. \A q \in 1 .. Len(c) : c[q] \in Range(c) \ S <=> c[q] \in N
  BY SameFacts DEF Range
<1>4. First(b, d + p, Range(b) \ S) = First(b, d + p, N)
  <2>1. {q \in d + p .. Len(b) : b[q] \in Range(b) \ S} = {q \in d + p .. Len(b) : b[q] \in N}
    <3>1. \A q \in d + p .. Len(b) : q \in 1 .. Len(b)
      BY SameFacts
    <3> HIDE DEF N
    <3> QED
      BY <1>2, <3>1
  <2> HIDE DEF N
  <2> QED
    BY <2>1 DEF First
<1>5. First(c, p, Range(c) \ S) = First(c, p, N)
  <2>1. {q \in p .. Len(c) : c[q] \in Range(c) \ S} = {q \in p .. Len(c) : c[q] \in N}
    <3>1. \A q \in p .. Len(c) : q \in 1 .. Len(c)
      BY SameFacts
    <3> HIDE DEF N
    <3> QED
      BY <1>3, <3>1
  <2> HIDE DEF N
  <2> QED
    BY <2>1 DEF First
<1> HIDE DEF N
<1> QED
  BY <1>1, <1>4, <1>5, SameFirst DEF SkipWhile

LEMMA Special ==
    /\ NewLine \notin Blank /\ NewLine \notin Digit
    /\ NewLine \notin {"-"} /\ NewLine \notin {"/"} /\ NewLine \notin {"+", "-"} /\ NewLine \notin {"."}
    /\ NewLine \notin {"e", "E"} /\ NewLine \notin {" ", "\t"}
    /\ NewLine \notin {"v", "f", "o", "g", "m", "u"}
    /\ NewLine # "/" /\ NewLine # "t" /\ NewLine # "n"
  BY NewLineAssumption DEF Blank

LEMMA SameBlanks ==
    ASSUME NEW b, NEW c, NEW d, NEW p, NEW e, Same(b, c, d, p, e)
    PROVE  Moves(SkipBlanks(b, d + p), SkipBlanks(c, p), d, p, e)
  BY SameSkip, Special DEF SkipBlanks

LEMMA SameOne ==
    ASSUME NEW b, NEW c, NEW d, NEW p, NEW e, Same(b, c, d, p, e), NEW S, NewLine \notin S
    PROVE  /\ Moves(SkipOne(b, d + p, S), SkipOne(c, p, S), d, p, e)
           /\ SkipOne(b, d + p, S) = d + p <=> SkipOne(c, p, S) = p
  BY SameFacts DEF SkipOne, Moves

LEMMA SameEnd ==
    ASSUME NEW b, NEW c, NEW d, NEW p, NEW e, Same(b, c, d, p, e)
    PROVE  LineEnd(c, p) = e /\ LineEnd(b, d + p) = d + e
<1>1. Moves(First(b, d + p, {NewLine}), First(c, p, {NewLine}), d, p, e)
  BY SameFirst
<1>2. First(c, p, {NewLine}) = e
  <2>1. c \in Seq(Char)
    BY DEF Same
  <2>2. e \in p .. Len(c) /\ c[e] \in {NewLine} /\ \A q \in p .. e - 1 : c[q] \notin {NewLine}
    BY SameFacts
  <2> QED
    BY <2>1, <2>2, SameFacts, FirstIs
<1> QED
  BY <1>1, <1>2 DEF LineEnd, Moves

\* Where two pointers have moved together, reading can go on.
LEMMA Onward ==
    ASSUME NEW b, NEW c, NEW d, NEW p, NEW e, Same(b, c, d, p, e), NEW x, NEW y, Moves(x, y, d, p, e)
    PROVE  /\ x = d + y /\ Same(b, c, d, y, e) /\ y \in p .. e
           /\ \A u, v : Moves(u, v, d, y, e) => Moves(u, v, d, p, e)
  BY DEF Same, Moves

LEMMA SameWhole ==
    ASSUME NEW b, NEW c, NEW d, NEW p, NEW e, Same(b, c, d, p, e)
    PROVE  Moves(Whole(b, d + p), Whole(c, p), d, p, e)
<1> DEFINE x == SkipOne(b, d + p, {"+", "-"})
           y == SkipOne(c, p, {"+", "-"})
<1>1. Moves(x, y, d, p, e)
  BY SameOne, Special
<1>2. Whole(b, d + p) = SkipWhile(b, x, Digit) /\ Whole(c, p) = SkipWhile(c, y, Digit)
  BY DEF Whole
<1> HIDE DEF x, y
<1>3. x = d + y /\ Same(b, c, d, y, e)
  BY <1>1, Onward
<1>4. Moves(SkipWhile(b, d + y, Digit), SkipWhile(c, y, Digit), d, y, e)
  BY <1>3, SameSkip, Special
<1> QED
  BY <1>1, <1>2, <1>3, <1>4, Onward

LEMMA SameFraction ==
    ASSUME NEW b, NEW c, NEW d, NEW p, NEW e, Same(b, c, d, p, e)
    PROVE  Moves(Fraction(b, d + p), Fraction(c, p), d, p, e)
<1> DEFINE x == SkipOne(b, d + p, {"."})
           y == SkipOne(c, p, {"."})
<1>1. Moves(x, y, d, p, e)
  BY SameOne, Special
<1>2. Fraction(b, d + p) = SkipWhile(b, x, Digit) /\ Fraction(c, p) = SkipWhile(c, y, Digit)
  BY DEF Fraction
<1> HIDE DEF x, y
<1>3. x = d + y /\ Same(b, c, d, y, e)
  BY <1>1, Onward
<1>4. Moves(SkipWhile(b, d + y, Digit), SkipWhile(c, y, Digit), d, y, e)
  BY <1>3, SameSkip, Special
<1> QED
  BY <1>1, <1>2, <1>3, <1>4, Onward

\* Behind a character of the line that is not its newline.
LEMMA SameNext ==
    ASSUME NEW b, NEW c, NEW d, NEW p, NEW e, Same(b, c, d, p, e), c[p] # NewLine
    PROVE  /\ p + 1 \in p .. e /\ Same(b, c, d, p + 1, e) /\ b[d + p + 1] = c[p + 1]
           /\ d + p + 1 = d + (p + 1) /\ Moves(d + p + 1, p + 1, d, p, e)
<1>1. p # e
  BY SameFacts
<1>2. p + 1 \in p .. e /\ d \in Nat /\ p \in Nat
  BY <1>1, SameFacts
<1>3. Same(b, c, d, p + 1, e)
  BY <1>2, SameOn
<1>4. b[d + (p + 1)] = c[p + 1]
  <2>1. \A q \in p .. e : b[d + q] = c[q]
    BY SameFacts
  <2> QED
    BY <1>2, <2>1
<1>5. d + p + 1 = d + (p + 1)
  BY <1>2
<1> QED
  BY <1>2, <1>3, <1>4, <1>5 DEF Moves

LEMMA SameExponent ==
    ASSUME NEW b, NEW c, NEW d, NEW p, NEW e, Same(b, c, d, p, e)
    PROVE  Moves(Exponent(b, d + p), Exponent(c, p), d, p, e)
<1>1. b[d + p] = c[p] /\ Moves(d + p, p, d, p, e)
  BY SameFacts DEF Moves
<1>2. CASE c[p] \in {"e", "E"}
  <2>1. c[p] # NewLine
    BY <1>2, Special
  <2>2. Same(b, c, d, p + 1, e) /\ d + p + 1 = d + (p + 1) /\ Moves(d + p + 1, p + 1, d, p, e)
    BY <2>1, SameNext
  <2>3. Moves(Whole(b, d + (p + 1)), Whole(c, p + 1), d, p + 1, e)
    BY <2>2, SameWhole
  <2>4. Moves(Whole(b, d + (p + 1)), Whole(c, p + 1), d, p, e)
    BY <2>2, <2>3, Onward
  <2>5. Exponent(b, d + p) = Whole(b, d + p + 1) /\ Exponent(c, p) = Whole(c, p + 1)
    BY <1>1, <1>2 DEF Exponent
  <2> QED
    BY <2>2, <2>4, <2>5
<1>3. CASE c[p] \notin {"e", "E"}
  BY <1>1, <1>3 DEF Exponent
<1> QED
  BY <1>2, <1>3

LEMMA SameFloat ==
    ASSUME NEW b, NEW c, NEW d, NEW p, NEW e, Same(b, c, d, p, e)
    PROVE  Moves(ParseFloat(b, d + p), ParseFloat(c, p), d, p, e)
<1> DEFINE x1 == SkipBlanks(b, d + p)
           y1 == SkipBlanks(c, p)
           x2 == Whole(b, x1)
           y2 == Whole(c, y1)
           x3 == Fraction(b, x2)
           y3 == Fraction(c, y2)
           x4 == Exponent(b, x3)
           y4 == Exponent(c, y3)
<1>1. x4 = ParseFloat(b, d + p) /\ y4 = ParseFloat(c, p)
  BY DEF ParseFloat
<1>2. Moves(x1, y1, d, p, e)
  BY SameBlanks
<1> HIDE DEF x1, y1
<1>3. Moves(x2, y2, d, p, e)
  <2>1. x1 = d + y1 /\ Same(b, c, d, y1, e)
    BY <1>2, Onward
  <2>2. Moves(x2, y2, d, y1, e)
    BY <2>1, SameWhole
  <2> QED
    BY <1>2, <2>2, Onward
<1> HIDE DEF x2, y2
<1>4. Moves(x3, y3, d, p, e)
  <2>1. x2 = d + y2 /\ Same(b, c, d, y2, e)
    BY <1>3, Onward
  <2>2. Moves(x3, y3, d, y2, e)
    BY <2>1, SameFraction
  <2> QED
    BY <1>3, <2>2, Onward
<1> HIDE DEF x3, y3
<1>5. Moves(x4, y4, d, p, e)
  <2>1. x3 = d + y3 /\ Same(b, c, d, y3, e)
    BY <1>4, Onward
  <2>2. Moves(x4, y4, d, y3, e)
    BY <2>1, SameExponent
  <2> QED
    BY <1>4, <2>2, Onward
<1> QED
  BY <1>1, <1>5

\* The provers look into SubSeq: here it is opaque.
Piece(s, i, j) == SubSeq(s, i, j)

\* A piece of the line is the same in both.
LEMMA SamePiece ==
    ASSUME NEW b, NEW c, NEW d, NEW p, NEW e, Same(b, c, d, p, e)
    PROVE  \A v \in p - 1 .. e : Piece(b, d + p, d + v) = Piece(c, p, v)
<1> TAKE v \in p - 1 .. e
<1>1. /\ b \in Seq(Char) /\ c \in Seq(Char) /\ p \in Nat \ {0} /\ v \in Nat
      /\ v <= e /\ p - 1 <= v /\ e <= Len(c) /\ d + e <= Len(b) /\ d \in Nat /\ e \in Nat
  BY SameFacts DEF Same
<1>2. SubSeq(b, d + p, d + v) = [i \in 1 .. (d + v) - (d + p) + 1 |-> b[(d + p) + i - 1]]
  BY <1>1
<1>3. SubSeq(c, p, v) = [i \in 1 .. v - p + 1 |-> c[p + i - 1]]
  BY <1>1
<1>4. (d + v) - (d + p) + 1 = v - p + 1
  BY <1>1
<1>5. \A i \in 1 .. v - p + 1 : b[(d + p) + i - 1] = c[p + i - 1]
  <2> TAKE i \in 1 .. v - p + 1
  <2>1. p + i - 1 \in p .. e /\ (d + p) + i - 1 = d + (p + i - 1)
    BY <1>1
  <2>2. \A q \in p .. e : b[d + q] = c[q]
    BY SameFacts
  <2> QED
    BY <2>1, <2>2
<1> QED
  BY <1>2, <1>3, <1>4, <1>5 DEF Piece

LEMMA SameInt ==
    ASSUME NEW b, NEW c, NEW d, NEW p, NEW e, Same(b, c, d, p, e)
    PROVE  SameResult(ParseInt(b, d + p), ParseInt(c, p), d, p, e)
<1> DEFINE x == SkipOne(b, d + p, {"-"})
           y == SkipOne(c, p, {"-"})
           u == SkipWhile(b, x, Digit)
           v == SkipWhile(c, y, Digit)
<1>0. NewLine \notin {"-"}
  BY Special
<1>1. Moves(x, y, d, p, e) /\ (x = d + p <=> y = p)
  BY <1>0, SameOne
<1> HIDE DEF x, y
<1>2. x = d + y /\ Same(b, c, d, y, e) /\ y \in p .. e
  BY <1>1, Onward
<1>3. Moves(u, v, d, y, e) /\ Moves(u, v, d, p, e)
  BY <1>1, <1>2, SameSkip, Special, Onward
<1> HIDE DEF u, v
<1>4. SubSeq(b, x, u - 1) = SubSeq(c, y, v - 1)
  <2>1. v - 1 \in y - 1 .. e /\ u - 1 = d + (v - 1)
    BY <1>2, <1>3, SameFacts DEF Moves
  <2> DEFINE w == v - 1
  <2>2. w \in y - 1 .. e /\ u - 1 = d + w
    BY <2>1
  <2> HIDE DEF w
  <2>3. Piece(b, d + y, d + w) = Piece(c, y, w)
    BY <1>2, <2>2, SamePiece
  <2>4. Piece(b, x, u - 1) = Piece(c, y, w)
    BY <1>2, <2>2, <2>3
  <2> QED
    BY <2>4 DEF w, Piece
<1> DEFINE n == Value(SubSeq(b, x, u - 1))
           m == Value(SubSeq(c, y, v - 1))
<1>5. n = m
  BY <1>4
<1>6. ParseInt(b, d + p) = Parsed(Signed((IF x = d + p THEN n ELSE -n) % IntModulus), u)
  BY DEF ParseInt, x, u
<1>7. ParseInt(c, p) = Parsed(Signed((IF y = p THEN m ELSE -m) % IntModulus), v)
  BY DEF ParseInt, y, v
<1> HIDE DEF n, m
<1> QED
  BY <1>1, <1>3, <1>5, <1>6, <1>7 DEF SameResult, Parsed

LEMMA SameVertex ==
    ASSUME NEW b, NEW c, NEW d, NEW p, NEW e, Same(b, c, d, p, e)
    PROVE  SameResult(ParseVertex(b, d + p), ParseVertex(c, p), d, p, e)
<1> DEFINE Three(s, q) == ParseFloat(s, ParseFloat(s, ParseFloat(s, q)))
<1>1. ASSUME NEW q, Same(b, c, d, q, e) PROVE Moves(Three(b, d + q), Three(c, q), d, q, e)
  <2> DEFINE x1 == ParseFloat(b, d + q)
             y1 == ParseFloat(c, q)
             x2 == ParseFloat(b, x1)
             y2 == ParseFloat(c, y1)
  <2>1. Moves(x1, y1, d, q, e)
    BY <1>1, SameFloat
  <2> HIDE DEF x1, y1
  <2>2. x1 = d + y1 /\ Same(b, c, d, y1, e)
    BY <1>1, <2>1, Onward
  <2>3. Moves(x2, y2, d, y1, e)
    BY <2>2, SameFloat
  <2>4. Moves(x2, y2, d, q, e)
    BY <1>1, <2>1, <2>3, Onward
  <2> HIDE DEF x2, y2
  <2>5. x2 = d + y2 /\ Same(b, c, d, y2, e)
    BY <1>1, <2>4, Onward
  <2>6. Moves(ParseFloat(b, x2), ParseFloat(c, y2), d, y2, e)
    BY <2>5, SameFloat
  <2>7. Moves(ParseFloat(b, x2), ParseFloat(c, y2), d, q, e)
    BY <1>1, <2>4, <2>6, Onward
  <2> QED
    BY <2>7 DEF x2, y2, x1, y1
<1> DEFINE x == Three(b, d + p)
           y == Three(c, p)
           u == SkipBlanks(b, x)
           v == SkipBlanks(c, y)
<1>2. ParseVertex(b, d + p) = Parsed([Nothing EXCEPT !.kind = "v", !.coloured = b[u] # NewLine],
                                     IF b[u] # NewLine THEN Three(b, x) ELSE u)
  BY DEF ParseVertex
<1>3. ParseVertex(c, p) = Parsed([Nothing EXCEPT !.kind = "v", !.coloured = c[v] # NewLine],
                                 IF c[v] # NewLine THEN Three(c, y) ELSE v)
  BY DEF ParseVertex
<1>4. Moves(x, y, d, p, e)
  BY <1>1
<1> HIDE DEF x, y, Three
<1>5. x = d + y /\ Same(b, c, d, y, e)
  BY <1>4, Onward
<1>6. Moves(u, v, d, y, e) /\ Moves(Three(b, x), Three(c, y), d, y, e)
  BY <1>1, <1>5, SameBlanks
<1>7. Moves(u, v, d, p, e) /\ Moves(Three(b, x), Three(c, y), d, p, e)
  BY <1>4, <1>6, Onward
<1> HIDE DEF u, v
<1>8. u = d + v /\ Same(b, c, d, v, e)
  BY <1>7, Onward
<1>9. b[u] = c[v]
  BY <1>8, SameFacts
<1> QED
  BY <1>2, <1>3, <1>7, <1>9 DEF SameResult, Parsed

LEMMA SameCorner ==
    ASSUME NEW b, NEW c, NEW d, NEW p, NEW e, Same(b, c, d, p, e)
    PROVE  SameResult(ParseCorner(b, d + p), ParseCorner(c, p), d, p, e)
<1> DEFINE Tex(s, v) == IF s[v.next] = "/" THEN Texcoord(s, v.next + 1) ELSE Parsed(0, v.next)
           Nor(s, v, t) == IF s[v.next] = "/" /\ s[t.next] = "/"
                           THEN ParseInt(s, t.next + 1) ELSE Parsed(0, t.next)
           v1 == ParseInt(b, d + p)
           v2 == ParseInt(c, p)
           t1 == Tex(b, v1)
           t2 == Tex(c, v2)
           n1 == Nor(b, v1, t1)
           n2 == Nor(c, v2, t2)
<1>1. /\ ParseCorner(b, d + p) = Parsed([p |-> v1.val, t |-> t1.val, n |-> n1.val], n1.next)
      /\ ParseCorner(c, p) = Parsed([p |-> v2.val, t |-> t2.val, n |-> n2.val], n2.next)
  BY DEF ParseCorner
<1>2. v1.val = v2.val /\ Moves(v1.next, v2.next, d, p, e)
  BY SameInt DEF SameResult
<1> HIDE DEF v1, v2
<1>3. ASSUME NEW q \in p .. e PROVE SameResult(Parsed(0, d + q), Parsed(0, q), d, p, e)
  BY DEF SameResult, Parsed, Moves
<1>4. ASSUME NEW q, Same(b, c, d, q, e), q \in p .. e, c[q] = "/"
      PROVE  /\ d + q + 1 = d + (q + 1) /\ Same(b, c, d, q + 1, e)
             /\ \A x, y : Moves(x, y, d, q + 1, e) => Moves(x, y, d, p, e)
  <2>1. c[q] # NewLine
    BY <1>4, Special
  <2>2. Same(b, c, d, q + 1, e) /\ d + q + 1 = d + (q + 1) /\ Moves(d + q + 1, q + 1, d, q, e)
    BY <1>4, <2>1, SameNext
  <2>3. q + 1 \in q .. e /\ q \in p .. e /\ p \in Nat /\ e \in Nat
    BY <1>4, <2>2, SameFacts DEF Moves
  <2>4. \A y \in q + 1 .. e : y \in p .. e
    BY <2>3
  <2> QED
    BY <2>2, <2>4 DEF Moves
<1>5. v1.next = d + v2.next /\ Same(b, c, d, v2.next, e) /\ v2.next \in p .. e /\ b[v1.next] = c[v2.next]
  BY <1>2, Onward, SameFacts
<1>6. t1.val = t2.val /\ Moves(t1.next, t2.next, d, p, e)
  <2>1. CASE c[v2.next] = "/"
    <3> DEFINE q == v2.next + 1
    <3>1. d + v2.next + 1 = d + q /\ Same(b, c, d, q, e) /\ \A x, y : Moves(x, y, d, q, e) => Moves(x, y, d, p, e)
      BY <1>4, <1>5, <2>1
    <3>2. t1 = Texcoord(b, d + q) /\ t2 = Texcoord(c, q)
      BY <1>5, <2>1, <3>1
    <3> HIDE DEF q, t1, t2
    <3>3. b[d + q] = c[q] /\ Moves(d + q, q, d, q, e)
      BY <3>1, SameFacts DEF Moves
    <3>4. SameResult(ParseInt(b, d + q), ParseInt(c, q), d, q, e)
      BY <3>1, SameInt
    <3> QED
      BY <3>1, <3>2, <3>3, <3>4 DEF Texcoord, SameResult, Parsed
  <2>2. CASE c[v2.next] # "/"
    <3>1. t1 = Parsed(0, v1.next) /\ t2 = Parsed(0, v2.next)
      BY <1>5, <2>2
    <3> QED
      BY <1>2, <3>1 DEF Parsed
  <2> QED
    BY <2>1, <2>2
<1> HIDE DEF t1, t2
<1>7. t1.next = d + t2.next /\ Same(b, c, d, t2.next, e) /\ t2.next \in p .. e /\ b[t1.next] = c[t2.next]
  BY <1>6, Onward, SameFacts
<1>8. n1.val = n2.val /\ Moves(n1.next, n2.next, d, p, e)
  <2>1. CASE c[v2.next] = "/" /\ c[t2.next] = "/"
    <3> DEFINE q == t2.next + 1
    <3>1. d + t2.next + 1 = d + q /\ Same(b, c, d, q, e) /\ \A x, y : Moves(x, y, d, q, e) => Moves(x, y, d, p, e)
      BY <1>4, <1>7, <2>1
    <3>2. n1 = ParseInt(b, d + q) /\ n2 = ParseInt(c, q)
      BY <1>5, <1>7, <2>1, <3>1
    <3> HIDE DEF q, n1, n2
    <3>4. SameResult(ParseInt(b, d + q), ParseInt(c, q), d, q, e)
      BY <3>1, SameInt
    <3> QED
      BY <3>1, <3>2, <3>4 DEF SameResult
  <2>2. CASE ~(c[v2.next] = "/" /\ c[t2.next] = "/")
    <3>1. n1 = Parsed(0, t1.next) /\ n2 = Parsed(0, t2.next)
      BY <1>5, <1>7, <2>2
    <3> QED
      BY <1>6, <3>1 DEF Parsed
  <2> QED
    BY <2>1, <2>2
<1> HIDE DEF n1, n2
<1> QED
  BY <1>1, <1>2, <1>6, <1>8 DEF SameResult, Parsed

\* The last character of the line that is not blank.
LEMMA NameEnd ==
    ASSUME NEW b \in Seq(Char), NEW p \in Nat \ {0}, NEW e \in Nat, p <= e, LineEnd(b, p) = e,
           NEW x \in p - 1 .. e - 1, x # p - 1 => b[x] \notin Blank,
           \A q \in x + 1 .. e - 1 : b[q] \in Blank
    PROVE  Name(b, p) = SubSeq(b, p, x)
<1> DEFINE found == {p - 1} \cup {q \in p .. e - 1 : b[q] \notin Blank}
<1>1. x \in found /\ x \in Int
  OBVIOUS
<1>2. \A y \in found : x >= y
  <2> TAKE y \in found
  <2>1. y \in Int /\ y \in p - 1 .. e - 1 /\ ~(y \in x + 1 .. e - 1 /\ y # p - 1)
    OBVIOUS
  <2> QED
    BY <2>1
<1>3. \A z \in found : (\A y \in found : z >= y) => z = x
  <2> TAKE z \in found
  <2>1. z \in Int
    OBVIOUS
  <2> HIDE DEF found
  <2> QED
    BY <1>1, <1>2, <2>1
<1> HIDE DEF found
<1>4. Max(found) = x
  BY <1>1, <1>2, <1>3 DEF Max
<1> QED
  BY <1>4 DEF Name, found

LEMMA SameName ==
    ASSUME NEW b, NEW c, NEW d, NEW p, NEW e, Same(b, c, d, p, e)
    PROVE  Name(b, d + p) = Name(c, p)
<1> DEFINE found == {p - 1} \cup {q \in p .. e - 1 : c[q] \notin Blank}
           T == {e - q : q \in found}
<1>0. p \in Nat \ {0} /\ e \in Nat /\ d \in Nat /\ p <= e
  BY SameFacts
<1>1. T \in SUBSET Nat /\ T # {}
  BY <1>0
<1> HIDE DEF T
<1>2. PICK m \in T : \A n \in T : m <= n
  BY <1>1, LeastNumber
<1>3. PICK x \in found : m = e - x
  BY DEF T
<1>4. \A q \in found : e - x <= e - q
  BY <1>2, <1>3 DEF T
<1>5. x \in p - 1 .. e - 1 /\ (x # p - 1 => c[x] \notin Blank)
  BY <1>0, <1>3
<1>6. \A q \in x + 1 .. e - 1 : c[q] \in Blank
  <2> TAKE q \in x + 1 .. e - 1
  <2>1. ~(e - x <= e - q) /\ q \in p .. e - 1
    BY <1>0, <1>5
  <2> QED
    BY <1>4, <2>1
<1> HIDE DEF found
<1>7. LineEnd(c, p) = e /\ LineEnd(b, d + p) = d + e
  BY SameEnd
<1>8. b \in Seq(Char) /\ c \in Seq(Char)
  BY DEF Same
<1>9. Name(c, p) = SubSeq(c, p, x)
  BY <1>0, <1>5, <1>6, <1>7, <1>8, NameEnd
<1> DEFINE l == d + p
           y == d + x
           f == d + e
<1>10. /\ l \in Nat \ {0} /\ f \in Nat /\ l <= f /\ y \in l - 1 .. f - 1 /\ x \in Int
       /\ l = d + p /\ y = d + x /\ f = d + e
  BY <1>0, <1>5
<1> HIDE DEF l, y, f
<1>11. y # l - 1 => b[y] \notin Blank
  <2>1. ASSUME y # l - 1 PROVE b[y] \notin Blank
    <3>1. x # p - 1 /\ x \in p .. e
      BY <1>0, <1>5, <1>10, <2>1
    <3>2. b[d + x] = c[x]
      BY <3>1, SameFacts
    <3> QED
      BY <1>5, <1>10, <3>1, <3>2
  <2> QED
    BY <2>1
<1>12. \A q \in y + 1 .. f - 1 : b[q] \in Blank
  <2> TAKE q \in y + 1 .. f - 1
  <2>1. PICK r \in x + 1 .. e - 1 : q = d + r
    <3>1. q - d \in x + 1 .. e - 1 /\ q = d + (q - d)
      BY <1>0, <1>10
    <3> QED
      BY <3>1
  <2>2. r \in p .. e
    BY <1>0, <1>5
  <2>3. b[d + r] = c[r]
    BY <2>2, SameFacts
  <2> QED
    BY <1>6, <2>1, <2>3
<1>13. Name(b, l) = SubSeq(b, l, y)
  BY <1>7, <1>8, <1>10, <1>11, <1>12, NameEnd
<1>14. SubSeq(b, d + p, d + x) = SubSeq(c, p, x)
  <2>1. x \in p - 1 .. e
    BY <1>0, <1>5
  <2>2. Piece(b, d + p, d + x) = Piece(c, p, x)
    BY <2>1, SamePiece
  <2> QED
    BY <2>2 DEF Piece
<1> QED
  BY <1>9, <1>10, <1>13, <1>14

LEMMA SameNameLine ==
    ASSUME NEW b, NEW c, NEW d, NEW p, NEW e, Same(b, c, d, p, e), NEW kind
    PROVE  SameResult(ParseName(kind, b, d + p), ParseName(kind, c, p), d, p, e)
<1> DEFINE x == SkipBlanks(b, d + p)
           y == SkipBlanks(c, p)
<1>1. /\ ParseName(kind, b, d + p)
            = Parsed([Nothing EXCEPT !.kind = kind, !.name = Name(b, x)], LineEnd(b, x))
      /\ ParseName(kind, c, p)
            = Parsed([Nothing EXCEPT !.kind = kind, !.name = Name(c, y)], LineEnd(c, y))
  BY DEF ParseName
<1>2. Moves(x, y, d, p, e)
  BY SameBlanks
<1> HIDE DEF x, y
<1>3. x = d + y /\ Same(b, c, d, y, e)
  BY <1>2, Onward
<1>4. Name(b, x) = Name(c, y) /\ LineEnd(b, x) = d + e /\ LineEnd(c, y) = e
  BY <1>3, SameName, SameEnd
<1>5. e \in p .. e
  BY SameFacts
<1> QED
  BY <1>1, <1>4, <1>5 DEF SameResult, Parsed, Moves

-----------------------------------------------------------------------------
(* The loops.                                                              *)

\* s goes from p on as next leads it, each time to another place.
Walk(s, next, p) ==
    /\ Len(s) \in Nat \ {0} /\ s[1] = p
    /\ \A i \in 1 .. Len(s) - 1 : s[i + 1] = next[s[i]] /\ s[i + 1] # s[i]

\* And on to where it stays.
Ends(s, next) == next[s[Len(s)]] = s[Len(s)]

\* A loop never moves back.
Forward(next, n) == \A q \in 1 .. n : next[q] \in 1 .. n /\ next[q] >= q

PathStep(next, before) ==
    IF next[Last(before)] = Last(before) THEN before ELSE Append(before, next[Last(before)])

IsPathOf(g, next, p) ==
    g = [k \in Nat |-> IF k = 0 THEN <<p>> ELSE PathStep(next, g[k - 1])]

LEMMA PathExists ==
    ASSUME NEW n \in Nat, NEW next, \A q \in 1 .. n : next[q] \in 1 .. n, NEW p \in 1 .. n
    PROVE  \E g : IsPathOf(g, next, p)
<1> DEFINE W == Seq(1 .. n) \ {<<>>}
           step == [k \in Nat |-> [s \in W |-> PathStep(next, s)]]
<1>1. \A s \in W : PathStep(next, s) \in W
  <2> TAKE s \in W
  <2>1. Len(s) \in Nat \ {0} /\ s \in Seq(1 .. n)
    OBVIOUS
  <2>2. s[Len(s)] \in 1 .. n
    BY <2>1
  <2>3. next[s[Len(s)]] \in 1 .. n
    BY <2>2
  <2>4. Append(s, next[s[Len(s)]]) \in W
    <3> DEFINE q == next[s[Len(s)]]
    <3>1. q \in 1 .. n
      BY <2>3
    <3> HIDE DEF q
    <3>2. Append(s, q) \in Seq(1 .. n) /\ Len(Append(s, q)) = Len(s) + 1
      BY <2>1, <3>1
    <3>3. Append(s, q) # <<>>
      <4>1. Len(Append(s, q)) # 0 /\ Len(<<>>) = 0
        BY <2>1, <3>2
      <4> QED
        BY <4>1
    <3> QED
      BY <3>2, <3>3 DEF q
  <2> QED
    BY <2>4 DEF PathStep, Last
<1>2. IsStep(step, W) /\ <<p>> \in W
  BY <1>1 DEF IsStep
<1>3. \A k \in Nat : \A s \in W : step[k][s] = PathStep(next, s)
  OBVIOUS
<1> HIDE DEF step, W
<1>4. PICK g : IsRecursive(g, W, <<p>>, step)
  BY <1>2, Recursion
<1>5. g \in [Nat -> W] /\ g[0] = <<p>> /\ \A k \in Nat : g[k + 1] = PathStep(next, g[k])
  BY <1>3, <1>4 DEF IsRecursive
<1>6. \A k \in Nat : g[k] = IF k = 0 THEN <<p>> ELSE PathStep(next, g[k - 1])
  <2> TAKE k \in Nat
  <2>1. CASE k = 0
    BY <1>5, <2>1
  <2>2. CASE k # 0
    <3>1. k - 1 \in Nat /\ (k - 1) + 1 = k
      BY <2>2
    <3>2. g[(k - 1) + 1] = PathStep(next, g[k - 1])
      BY <1>5, <3>1
    <3> QED
      BY <2>2, <3>1, <3>2
  <2> QED
    BY <2>1, <2>2
<1>7. g = [k \in Nat |-> g[k]]
  BY <1>5
<1>8. g = [k \in Nat |-> IF k = 0 THEN <<p>> ELSE PathStep(next, g[k - 1])]
  BY <1>6, <1>7
<1> QED
  BY <1>8 DEF IsPathOf

LEMMA PathWalks ==
    ASSUME NEW n \in Nat, NEW next, Forward(next, n), NEW p \in 1 .. n,
           NEW limit \in Nat, limit >= n - 1
    PROVE  /\ Path(next, p, limit) \in Seq(1 .. n)
           /\ Walk(Path(next, p, limit), next, p)
           /\ Ends(Path(next, p, limit), next)
<1>1. PICK h : IsPathOf(h, next, p)
  BY PathExists DEF Forward
<1> DEFINE g == CHOOSE g : g = [k \in Nat |-> IF k = 0 THEN <<p>> ELSE PathStep(next, g[k - 1])]
<1>2. IsPathOf(g, next, p)
  BY <1>1 DEF IsPathOf
<1>3. Path(next, p, limit) = g[limit]
  BY DEF Path, PathStep
<1> HIDE DEF g
<1>4. \A k \in Nat : g[k] = IF k = 0 THEN <<p>> ELSE PathStep(next, g[k - 1])
  BY <1>2 DEF IsPathOf
<1>5. g[0] = <<p>>
  BY <1>4
<1>6. ASSUME NEW k \in Nat PROVE g[k + 1] = PathStep(next, g[k])
  <2>1. k + 1 \in Nat /\ k + 1 # 0 /\ (k + 1) - 1 = k
    OBVIOUS
  <2> QED
    BY <1>4, <2>1
<1> DEFINE Good(s, k) == /\ s \in Seq(1 .. n) /\ Walk(s, next, p) /\ s[Len(s)] >= Len(s)
                         /\ Len(s) = k + 1 \/ Ends(s, next)
           E == {k \in Nat : Good(g[k], k)}
<1>7. 0 \in E
  <2> DEFINE s == g[0]
  <2>1. s = <<p>> /\ s \in Seq(1 .. n) /\ Len(s) = 1 /\ s[1] = p
    BY <1>5
  <2> HIDE DEF s
  <2>2. Good(s, 0)
    BY <2>1 DEF Walk
  <2> QED
    BY <2>2 DEF s
<1>8. ASSUME NEW k \in E PROVE k + 1 \in E
  <2> DEFINE s == g[k]
             t == g[k + 1]
             q == next[s[Len(s)]]
  <2>1. k \in Nat /\ Good(s, k) /\ t = PathStep(next, s)
    BY <1>6
  <2> HIDE DEF s, t
  <2>0. s \in Seq(1 .. n) /\ Len(s) \in Nat \ {0} /\ s[Len(s)] >= Len(s)
    BY <2>1 DEF Walk
  <2>5. s[Len(s)] \in 1 .. n
    BY <2>0
  <2>6. q \in 1 .. n /\ q >= s[Len(s)]
    BY <2>5 DEF Forward
  <2>2. Len(s) \in Nat \ {0} /\ s[Len(s)] \in 1 .. n /\ q \in 1 .. n /\ q >= s[Len(s)]
    BY <2>0, <2>5, <2>6
  <2>3. CASE q = s[Len(s)]
    <3>1. t = s
      BY <2>1, <2>3 DEF PathStep, Last
    <3>2. Good(t, k + 1)
      BY <2>1, <2>3, <3>1 DEF Ends
    <3> QED
      BY <2>1, <3>2 DEF t
  <2>4. CASE q # s[Len(s)]
    <3> HIDE DEF q
    <3>1. t = Append(s, q)
      BY <2>1, <2>4 DEF PathStep, Last, q
    <3>2. /\ t \in Seq(1 .. n) /\ Len(t) = Len(s) + 1 /\ t[Len(s) + 1] = q
          /\ \A i \in 1 .. Len(s) : t[i] = s[i]
      BY <2>1, <2>2, <3>1
    <3>3. Walk(t, next, p)
      <4>0. s[1] = p /\ 1 \in 1 .. Len(s)
        BY <2>1, <2>2 DEF Walk
      <4>1. Len(t) \in Nat \ {0} /\ t[1] = p
        <5>1. Len(t) \in Nat \ {0}
          BY <2>2, <3>2, SMT
        <5>2. t[1] = s[1]
          BY <3>2, <4>0, Zenon
        <5> QED
          BY <4>0, <5>1, <5>2, Zenon
      <4>2. ASSUME NEW i \in 1 .. Len(t) - 1 PROVE t[i + 1] = next[t[i]] /\ t[i + 1] # t[i]
        <5>1. CASE i = Len(s)
          <6>1. t[i + 1] = q /\ t[i] = s[Len(s)]
            BY <2>2, <3>2, <5>1
          <6>2. q = next[s[Len(s)]]
            BY DEF q
          <6> QED
            BY <2>4, <6>1, <6>2
        <5>2. CASE i # Len(s)
          <6> DEFINE l == Len(s)
          <6>3. l \in Nat \ {0} /\ i \in 1 .. l + 1 - 1 /\ i # l
            BY <2>2, <3>2, <5>2
          <6> HIDE DEF l
          <6>4. i \in 1 .. l - 1 /\ i + 1 \in 1 .. l /\ i \in 1 .. l
            BY <6>3
          <6>1. i \in 1 .. Len(s) - 1 /\ i + 1 \in 1 .. Len(s) /\ i \in 1 .. Len(s)
            BY <6>4 DEF l
          <6>2. s[i + 1] = next[s[i]] /\ s[i + 1] # s[i]
            BY <2>1, <6>1 DEF Walk
          <6> QED
            BY <3>2, <6>1, <6>2
        <5> QED
          BY <5>1, <5>2
      <4> QED
        BY <4>1, <4>2 DEF Walk
    <3>4. t[Len(t)] >= Len(t)
      <4>1. t[Len(t)] = q /\ q > s[Len(s)] /\ s[Len(s)] \in Nat
        BY <2>2, <2>4, <3>2 DEF q
      <4> QED
        BY <2>0, <2>2, <3>2, <4>1
    <3>5. Len(t) = k + 1 + 1
      BY <2>1, <2>4, <3>2 DEF Ends, q
    <3>6. Good(t, k + 1)
      BY <3>2, <3>3, <3>4, <3>5
    <3> QED
      BY <2>1, <3>6 DEF t
  <2> QED
    BY <2>3, <2>4
<1>9. E \in SUBSET Nat
  OBVIOUS
<1> HIDE DEF E, Good
<1>10. E = Nat
  BY <1>7, <1>8, <1>9, SetInduction
<1> DEFINE s == g[limit]
<1>11. Good(s, limit)
  BY <1>10 DEF E
<1> HIDE DEF s
<1>12. s \in Seq(1 .. n) /\ Walk(s, next, p) /\ s[Len(s)] >= Len(s) /\ (Len(s) = limit + 1 \/ Ends(s, next))
  BY <1>11 DEF Good
<1>13. Ends(s, next)
  <2> SUFFICES ASSUME Len(s) = limit + 1 PROVE Ends(s, next)
    BY <1>12
  <2> DEFINE last == s[Len(s)]
  <2>1. last \in 1 .. n /\ last >= n
    BY <1>12 DEF Walk
  <2>2. next[last] \in 1 .. n /\ next[last] >= last
    BY <2>1 DEF Forward
  <2>3. next[last] = last
    BY <2>1, <2>2
  <2> QED
    BY <2>3 DEF Ends
<1> QED
  BY <1>3, <1>12, <1>13 DEF s

\* There is one way.
LEMMA OneWalk ==
    ASSUME NEW s \in Seq(Nat), NEW t \in Seq(Nat), NEW next, NEW p,
           Walk(s, next, p), Ends(s, next), Walk(t, next, p), Ends(t, next)
    PROVE  s = t
<1>0. Len(s) \in Nat \ {0} /\ Len(t) \in Nat \ {0}
  BY DEF Walk
<1> DEFINE E == {k \in Nat : k + 1 <= Len(s) => k + 1 <= Len(t) /\ s[k + 1] = t[k + 1]}
<1>1. 0 \in E
  BY <1>0 DEF Walk
<1>2. ASSUME NEW k \in E PROVE k + 1 \in E
  <2> SUFFICES ASSUME k + 1 + 1 <= Len(s) PROVE k + 1 + 1 <= Len(t) /\ s[k + 1 + 1] = t[k + 1 + 1]
    OBVIOUS
  <2>1. k + 1 \in 1 .. Len(s) - 1 /\ k + 1 <= Len(t) /\ s[k + 1] = t[k + 1]
    BY <1>0
  <2>2. s[k + 1 + 1] = next[s[k + 1]] /\ s[k + 1 + 1] # s[k + 1]
    BY <2>1 DEF Walk
  <2>3. k + 1 # Len(t)
    BY <2>1, <2>2 DEF Ends
  <2>4. k + 1 \in 1 .. Len(t) - 1
    BY <1>0, <2>1, <2>3
  <2>5. t[k + 1 + 1] = next[t[k + 1]]
    BY <2>4 DEF Walk
  <2> QED
    BY <1>0, <2>1, <2>2, <2>4, <2>5
<1>3. E \in SUBSET Nat
  OBVIOUS
<1> HIDE DEF E
<1>4. E = Nat
  BY <1>1, <1>2, <1>3, SetInduction
<1>5. \A i \in 1 .. Len(s) : i <= Len(t) /\ s[i] = t[i]
  <2> TAKE i \in 1 .. Len(s)
  <2>1. i - 1 \in E /\ (i - 1) + 1 = i
    BY <1>4
  <2> QED
    BY <2>1 DEF E
<1>6. Len(s) = Len(t)
  <2>1. Len(s) <= Len(t) /\ s[Len(s)] = t[Len(s)]
    BY <1>0, <1>5
  <2>2. ASSUME Len(s) < Len(t) PROVE FALSE
    <3>1. Len(s) \in 1 .. Len(t) - 1
      BY <1>0, <2>2
    <3>2. t[Len(s) + 1] = next[t[Len(s)]] /\ t[Len(s) + 1] # t[Len(s)]
      BY <3>1 DEF Walk
    <3> QED
      BY <2>1, <3>2 DEF Ends
  <2> QED
    BY <1>0, <2>1, <2>2
<1> QED
  BY <1>5, <1>6

\* From p on up to e, nextB leads as nextC does, d further on.
Beside(nextB, nextC, d, p, e) ==
    \A q \in p .. e : nextC[q] \in q .. e /\ nextB[d + q] = d + nextC[q]

\* t has gone where s has, d further on.
Along(t, s, d, p, e) ==
    /\ s \in Seq(Nat) /\ Len(s) \in Nat \ {0}
    /\ Len(t) = Len(s) /\ \A i \in 1 .. Len(s) : s[i] \in p .. e /\ t[i] = d + s[i]

\* Two loops that move together go the same way.
LEMMA SamePath ==
    ASSUME NEW n \in Nat, NEW nextC, Forward(nextC, n), NEW m \in Nat, NEW nextB, Forward(nextB, m),
           NEW d \in Nat, NEW e \in 1 .. n, d + e <= m, NEW p \in 1 .. e,
           Beside(nextB, nextC, d, p, e),
           NEW k \in Nat, k >= n - 1, NEW l \in Nat, l >= m - 1,
           NEW s, s = Path(nextC, p, k), NEW t, t = Path(nextB, d + p, l)
    PROVE  Along(t, s, d, p, e)
<1>0. \A q \in p .. e : nextC[q] \in q .. e /\ nextB[d + q] = d + nextC[q]
  BY DEF Beside
<1>1. s \in Seq(1 .. n) /\ Walk(s, nextC, p) /\ Ends(s, nextC)
  <2>1. p \in 1 .. n
    OBVIOUS
  <2> QED
    BY <2>1, PathWalks
<1>2. t \in Seq(1 .. m) /\ Walk(t, nextB, d + p) /\ Ends(t, nextB)
  <2>1. d + p \in 1 .. m
    OBVIOUS
  <2> QED
    BY <2>1, PathWalks
<1>3. Len(s) \in Nat \ {0} /\ s \in Seq(Nat) /\ t \in Seq(Nat) /\ s[1] = p
  BY <1>1, <1>2 DEF Walk
<1> DEFINE E == {i \in Nat : i + 1 <= Len(s) => s[i + 1] \in p .. e}
<1>4. 0 \in E
  BY <1>3
<1>5. ASSUME NEW i \in E PROVE i + 1 \in E
  <2> SUFFICES ASSUME i + 1 + 1 <= Len(s) PROVE s[i + 1 + 1] \in p .. e
    OBVIOUS
  <2>1. i + 1 \in 1 .. Len(s) - 1 /\ s[i + 1] \in p .. e
    BY <1>3
  <2>2. s[i + 1 + 1] = nextC[s[i + 1]]
    BY <1>1, <2>1 DEF Walk
  <2>3. nextC[s[i + 1]] \in s[i + 1] .. e
    BY <1>0, <2>1
  <2> QED
    BY <2>1, <2>2, <2>3
<1>6. E \in SUBSET Nat
  OBVIOUS
<1> HIDE DEF E
<1>7. E = Nat
  BY <1>4, <1>5, <1>6, SetInduction
<1>8. \A i \in 1 .. Len(s) : s[i] \in p .. e
  <2> TAKE i \in 1 .. Len(s)
  <2>1. i - 1 \in E /\ (i - 1) + 1 = i
    BY <1>7
  <2> QED
    BY <2>1 DEF E
<1> DEFINE u == [i \in 1 .. Len(s) |-> d + s[i]]
<1>9. u \in Seq(Nat) /\ Len(u) = Len(s) /\ \A i \in 1 .. Len(s) : u[i] = d + s[i]
  BY <1>3, <1>8
<1> HIDE DEF u
<1>10. Walk(u, nextB, d + p)
  <2>0. 1 \in 1 .. Len(s)
    BY <1>3
  <2>1. Len(u) \in Nat \ {0} /\ u[1] = d + p
    BY <1>3, <1>9, <2>0
  <2>2. ASSUME NEW i \in 1 .. Len(u) - 1 PROVE u[i + 1] = nextB[u[i]] /\ u[i + 1] # u[i]
    <3>1. i \in 1 .. Len(s) /\ i + 1 \in 1 .. Len(s) /\ i \in 1 .. Len(s) - 1
      BY <1>3, <1>9
    <3>2. s[i + 1] = nextC[s[i]] /\ s[i + 1] # s[i]
      BY <1>1, <3>1 DEF Walk
    <3>3. s[i] \in p .. e /\ s[i + 1] \in p .. e
      BY <1>8, <3>1
    <3>4. nextB[d + s[i]] = d + nextC[s[i]]
      BY <1>0, <3>3
    <3>5. u[i] = d + s[i] /\ u[i + 1] = d + s[i + 1]
      BY <1>9, <3>1
    <3>6. u[i + 1] = nextB[u[i]]
      BY <3>2, <3>4, <3>5
    <3>7. d + s[i + 1] # d + s[i]
      BY <3>2, <3>3, SameFacts
    <3> QED
      BY <3>5, <3>6, <3>7
  <2> QED
    BY <2>1, <2>2 DEF Walk
<1>11. Ends(u, nextB)
  <2>1. Len(s) \in 1 .. Len(s) /\ nextC[s[Len(s)]] = s[Len(s)]
    BY <1>1, <1>3 DEF Ends
  <2>2. s[Len(s)] \in p .. e
    BY <1>8, <2>1
  <2>3. nextB[d + s[Len(s)]] = d + nextC[s[Len(s)]]
    BY <1>0, <2>2
  <2>4. u[Len(u)] = d + s[Len(s)]
    BY <1>9, <2>1
  <2>5. nextB[u[Len(u)]] = u[Len(u)]
    BY <2>1, <2>3, <2>4
  <2> QED
    BY <2>5 DEF Ends
<1>12. t = u
  BY <1>2, <1>3, <1>9, <1>10, <1>11, OneWalk
<1> QED
  BY <1>3, <1>8, <1>9, <1>12 DEF Along

\* A buffer as parse_buffer gets it: of whole lines.
Ended(b) == b \in Seq(Char) /\ Len(b) # 0 /\ b[Len(b)] = NewLine

LEMMA OwnLine ==
    ASSUME NEW b, Ended(b), NEW q \in 1 .. Len(b)
    PROVE  \E e \in q .. Len(b) : Same(b, b, 0, q, e)
<1> DEFINE T == {e \in q .. Len(b) : b[e] = NewLine}
<1>1. Len(b) \in T /\ T \in SUBSET Nat /\ Len(b) \in Nat
  BY DEF Ended
<1> HIDE DEF T
<1>2. PICK e \in T : \A y \in T : e <= y
  BY <1>1, LeastNumber
<1>3. e \in q .. Len(b) /\ b[e] = NewLine
  BY <1>2 DEF T
<1>4. \A i \in q .. e - 1 : b[i] # NewLine
  <2> TAKE i \in q .. e - 1
  <2>1. i \in q .. Len(b) /\ ~(e <= i)
    BY <1>1, <1>3
  <2> QED
    BY <1>2, <2>1 DEF T
<1>5. \A i \in q .. e : b[0 + i] = b[i]
  BY <1>3
<1>6. Same(b, b, 0, q, e)
  BY <1>1, <1>3, <1>4, <1>5 DEF Same, Ended
<1> QED
  BY <1>3, <1>6

FaceNext(b) == [q \in DOMAIN b |-> IF NoCornerAt(b, q) THEN q ELSE CornerAt(b, q).next]

LEMMA SameCornerAt ==
    ASSUME NEW b, NEW c, NEW d, NEW p, NEW e, Same(b, c, d, p, e)
    PROVE  /\ SameResult(CornerAt(b, d + p), CornerAt(c, p), d, p, e)
           /\ NoCornerAt(b, d + p) <=> NoCornerAt(c, p)
           /\ FaceNext(c)[p] \in p .. e /\ FaceNext(b)[d + p] = d + FaceNext(c)[p]
<1> DEFINE x == SkipBlanks(b, d + p)
           y == SkipBlanks(c, p)
<1>1. Moves(x, y, d, p, e)
  BY SameBlanks
<1>2. CornerAt(b, d + p) = ParseCorner(b, x) /\ CornerAt(c, p) = ParseCorner(c, y)
  BY DEF CornerAt
<1>3. /\ NoCornerAt(b, d + p) <=> b[x] = NewLine \/ CornerAt(b, d + p).val.p = 0
      /\ NoCornerAt(c, p) <=> c[y] = NewLine \/ CornerAt(c, p).val.p = 0
  BY DEF NoCornerAt
<1> HIDE DEF x, y
<1>4. x = d + y /\ Same(b, c, d, y, e)
  BY <1>1, Onward
<1>5. SameResult(ParseCorner(b, x), ParseCorner(c, y), d, y, e) /\ b[x] = c[y]
  BY <1>4, SameCorner, SameFacts
<1>6. SameResult(CornerAt(b, d + p), CornerAt(c, p), d, p, e)
  <2>1. Moves(ParseCorner(b, x).next, ParseCorner(c, y).next, d, p, e)
    BY <1>1, <1>5, Onward DEF SameResult
  <2> QED
    BY <1>2, <1>5, <2>1 DEF SameResult
<1>7. NoCornerAt(b, d + p) <=> NoCornerAt(c, p)
  BY <1>3, <1>5, <1>6 DEF SameResult
<1>8. p \in DOMAIN c /\ d + p \in DOMAIN b /\ p \in p .. e
  BY SameFacts
<1>9. /\ FaceNext(c)[p] = IF NoCornerAt(c, p) THEN p ELSE CornerAt(c, p).next
      /\ FaceNext(b)[d + p] = IF NoCornerAt(b, d + p) THEN d + p ELSE CornerAt(b, d + p).next
  BY <1>8 DEF FaceNext
<1> QED
  BY <1>6, <1>7, <1>8, <1>9 DEF SameResult, Moves

LEMMA FaceForward ==
    ASSUME NEW b, Ended(b)
    PROVE  Forward(FaceNext(b), Len(b))
<1>1. DOMAIN b = 1 .. Len(b) /\ Len(b) \in Nat
  BY DEF Ended
<1>2. ASSUME NEW q \in 1 .. Len(b) PROVE FaceNext(b)[q] \in q .. Len(b)
  <2>1. PICK e \in q .. Len(b) : Same(b, b, 0, q, e)
    BY OwnLine
  <2>2. FaceNext(b)[q] \in q .. e
    BY <2>1, SameCornerAt
  <2> QED
    BY <1>1, <2>1, <2>2
<1>3. FaceNext(b) = [q \in 1 .. Len(b) |-> FaceNext(b)[q]]
  BY <1>1 DEF FaceNext
<1>4. \A q \in 1 .. Len(b) : FaceNext(b)[q] \in 1 .. Len(b) /\ FaceNext(b)[q] >= q
  BY <1>1, <1>2
<1> QED
  BY <1>3, <1>4 DEF Forward

LEMMA SameFace ==
    ASSUME NEW b, NEW c, NEW d, NEW p, NEW e, Same(b, c, d, p, e), Ended(b), Ended(c)
    PROVE  SameResult(ParseFace(b, d + p), ParseFace(c, p), d, p, e)
<1> DEFINE s == Path(FaceNext(c), p, Len(c))
           t == Path(FaceNext(b), d + p, Len(b))
           x == SkipBlanks(b, Last(t))
           y == SkipBlanks(c, Last(s))
           f == [k \in 1 .. Len(s) - 1 |-> CornerAt(c, s[k]).val]
           g == [k \in 1 .. Len(t) - 1 |-> CornerAt(b, t[k]).val]
<1>1. Along(t, s, d, p, e)
  <2>1. /\ Len(b) \in Nat /\ Len(c) \in Nat /\ d \in Nat /\ e \in 1 .. Len(c) /\ d + e <= Len(b)
        /\ p \in 1 .. e /\ Len(b) >= Len(b) - 1 /\ Len(c) >= Len(c) - 1
    BY SameFacts
  <2>2. Forward(FaceNext(b), Len(b)) /\ Forward(FaceNext(c), Len(c))
    BY FaceForward
  <2>3. Beside(FaceNext(b), FaceNext(c), d, p, e)
    BY SameOn, SameCornerAt DEF Beside
  <2> HIDE DEF x, y, f, g
  <2> QED
    BY <2>1, <2>2, <2>3, SamePath
<1>0. /\ s \in Seq(Nat) /\ Len(s) \in Nat \ {0}
      /\ Len(t) = Len(s) /\ \A i \in 1 .. Len(s) : s[i] \in p .. e /\ t[i] = d + s[i]
  BY <1>1 DEF Along
<1>2. ParseFace(b, d + p)
        = Parsed([Nothing EXCEPT !.kind = "f", !.whole = (b[x] = NewLine), !.corners = g],
                 IF b[x] = NewLine THEN x ELSE ParseCorner(b, x).next)
  BY DEF ParseFace, FaceAlong, FaceNext
<1>3. ParseFace(c, p)
        = Parsed([Nothing EXCEPT !.kind = "f", !.whole = (c[y] = NewLine), !.corners = f],
                 IF c[y] = NewLine THEN y ELSE ParseCorner(c, y).next)
  BY DEF ParseFace, FaceAlong, FaceNext
<1>4. Last(s) \in p .. e /\ Last(t) = d + Last(s)
  <2>1. Len(s) \in 1 .. Len(s)
    BY <1>0
  <2> QED
    BY <1>0, <2>1 DEF Last
<1>5. f = g
  <2> HIDE DEF s, t
  <2>1. ASSUME NEW k \in 1 .. Len(s) - 1 PROVE CornerAt(c, s[k]).val = CornerAt(b, t[k]).val
    <3>1. s[k] \in p .. e /\ t[k] = d + s[k]
      BY <1>0
    <3>2. Same(b, c, d, s[k], e)
      BY <3>1, SameOn
    <3> QED
      BY <3>1, <3>2, SameCornerAt DEF SameResult
  <2> QED
    BY <1>0, <2>1
<1> HIDE DEF f, g
<1> DEFINE l == Last(s)
<1>6. l \in p .. e /\ Last(t) = d + l /\ y = SkipBlanks(c, l) /\ x = SkipBlanks(b, d + l)
  BY <1>4
<1> HIDE DEF s, t, l, x, y
<1>7. Same(b, c, d, l, e)
  BY <1>6, SameOn
<1>8. Moves(x, y, d, p, e)
  <2>1. Moves(x, y, d, l, e)
    BY <1>6, <1>7, SameBlanks
  <2>2. Moves(d + l, l, d, p, e)
    BY <1>6 DEF Moves
  <2> QED
    BY <2>1, <2>2, MovesOn
<1>9. x = d + y /\ Same(b, c, d, y, e)
  BY <1>8, Onward
<1>10. b[x] = c[y]
  BY <1>9, SameFacts
<1>11. Moves(ParseCorner(b, x).next, ParseCorner(c, y).next, d, p, e)
  <2>1. Moves(ParseCorner(b, x).next, ParseCorner(c, y).next, d, y, e)
    BY <1>9, SameCorner DEF SameResult
  <2> QED
    BY <1>8, <2>1, Onward
<1> QED
  BY <1>2, <1>3, <1>5, <1>8, <1>10, <1>11 DEF SameResult, Parsed

SixLetters(word) == word = [i \in 1 .. 6 |-> word[i]]

\* A keyword, with a blank behind it, ends in front of the newline.
LEMMA SameKeyword ==
    ASSUME NEW b, NEW c, NEW d, NEW p, NEW e, Same(b, c, d, p, e),
           NEW word, SixLetters(word), Len(word) = 6, \A i \in 1 .. 6 : word[i] # NewLine
    PROVE  /\ Starts(b, d + p, word) <=> Starts(c, p, word)
           /\ Starts(c, p, word) => p + 6 \in p .. e
<1>0. /\ b \in Seq(Char) /\ c \in Seq(Char) /\ p \in Nat \ {0} /\ p <= e /\ e <= Len(c)
      /\ d + e <= Len(b) /\ d \in Nat /\ e \in Nat /\ Len(b) \in Nat /\ Len(c) \in Nat
  BY SameFacts DEF Same
<1>1. NewLine \notin Blank
  BY Special
<1> DEFINE Fits == p + 6 <= e /\ (\A i \in 0 .. 5 : c[p + i] = word[i + 1]) /\ c[p + 6] \in Blank
<1>2. ASSUME NEW s \in Seq(Char), NEW q \in Nat \ {0}
      PROVE  Starts(s, q, word) <=>
               q + 6 <= Len(s) /\ (\A i \in 0 .. 5 : s[q + i] = word[i + 1]) /\ s[q + 6] \in Blank
  <2> SUFFICES ASSUME q + 6 <= Len(s)
               PROVE  SubSeq(s, q, q + 6 - 1) = word <=> \A i \in 0 .. 5 : s[q + i] = word[i + 1]
    BY DEF Starts
  <2>1. SubSeq(s, q, q + 6 - 1) = [i \in 1 .. 6 |-> s[q + i - 1]]
    BY <1>2
  <2>2. word = [i \in 1 .. 6 |-> word[i]]
    BY DEF SixLetters
  <2>3. ASSUME \A i \in 0 .. 5 : s[q + i] = word[i + 1]
        PROVE  \A i \in 1 .. 6 : s[q + i - 1] = word[i]
    <3> TAKE i \in 1 .. 6
    <3>1. i - 1 \in 0 .. 5 /\ q + (i - 1) = q + i - 1 /\ (i - 1) + 1 = i
      OBVIOUS
    <3> QED
      BY <2>3, <3>1
  <2>4. ASSUME \A i \in 1 .. 6 : s[q + i - 1] = word[i]
        PROVE  \A i \in 0 .. 5 : s[q + i] = word[i + 1]
    <3> TAKE i \in 0 .. 5
    <3>1. i + 1 \in 1 .. 6 /\ q + (i + 1) - 1 = q + i
      OBVIOUS
    <3> QED
      BY <2>4, <3>1
  <2>5. SubSeq(s, q, q + 6 - 1) = word => \A i \in 1 .. 6 : s[q + i - 1] = word[i]
    BY <2>1
  <2>6. (\A i \in 1 .. 6 : s[q + i - 1] = word[i]) => SubSeq(s, q, q + 6 - 1) = word
    BY <2>1, <2>2
  <2> QED
    BY <2>3, <2>4, <2>5, <2>6
<1>3. ASSUME \A i \in 0 .. 5 : i <= e - p => c[p + i] = word[i + 1]
      PROVE  p + 6 <= e
  <2>1. ASSUME e <= p + 5 PROVE FALSE
    <3>1. e - p \in 0 .. 5 /\ p + (e - p) = e
      BY <1>0, <2>1
    <3>2. c[e] = word[e - p + 1]
      BY <1>3, <3>1
    <3>3. e - p + 1 \in 1 .. 6
      BY <3>1
    <3>4. word[e - p + 1] # NewLine
      BY <3>3
    <3>5. c[e] = NewLine
      BY SameFacts
    <3> QED
      BY <3>2, <3>4, <3>5
  <2> QED
    BY <1>0, <2>1
<1>4. \A q \in p .. e : b[d + q] = c[q]
  BY SameFacts
<1>5. Starts(c, p, word) <=> Fits
  <2>1. ASSUME Starts(c, p, word) PROVE Fits
    <3>1. (\A i \in 0 .. 5 : c[p + i] = word[i + 1]) /\ c[p + 6] \in Blank
      BY <1>0, <1>2, <2>1
    <3>2. p + 6 <= e
      BY <1>3, <3>1
    <3> QED
      BY <3>1, <3>2
  <2>2. ASSUME Fits PROVE Starts(c, p, word)
    <3>1. p + 6 <= Len(c)
      BY <1>0, <2>2
    <3> QED
      BY <1>0, <1>2, <2>2, <3>1
  <2> QED
    BY <2>1, <2>2
<1>6. Starts(b, d + p, word) <=> Fits
  <2>0. d + p \in Nat \ {0}
    BY <1>0
  <2>1. ASSUME Starts(b, d + p, word) PROVE Fits
    <3>1. (\A i \in 0 .. 5 : b[d + p + i] = word[i + 1]) /\ b[d + p + 6] \in Blank
      BY <1>0, <1>2, <2>0, <2>1
    <3>2. \A i \in 0 .. 5 : i <= e - p => c[p + i] = word[i + 1]
      <4> TAKE i \in 0 .. 5
      <4> HAVE i <= e - p
      <4>1. p + i \in p .. e /\ d + p + i = d + (p + i)
        BY <1>0
      <4> QED
        BY <1>4, <3>1, <4>1
    <3>3. p + 6 <= e
      BY <1>3, <3>2
    <3>4. p + 6 \in p .. e /\ d + p + 6 = d + (p + 6) /\ \A i \in 0 .. 5 : i <= e - p
      BY <1>0, <3>3
    <3> QED
      BY <1>4, <3>1, <3>2, <3>3, <3>4
  <2>2. ASSUME Fits PROVE Starts(b, d + p, word)
    <3>1. d + p + 6 <= Len(b) /\ p + 6 \in p .. e /\ d + p + 6 = d + (p + 6)
      BY <1>0, <2>2
    <3>2. \A i \in 0 .. 5 : b[d + p + i] = word[i + 1]
      <4> TAKE i \in 0 .. 5
      <4>1. p + i \in p .. e /\ d + p + i = d + (p + i)
        BY <1>0, <2>2
      <4> QED
        BY <1>4, <2>2, <4>1
    <3>3. b[d + p + 6] \in Blank
      BY <1>4, <2>2, <3>1
    <3> QED
      BY <1>0, <1>2, <2>0, <3>1, <3>2, <3>3
  <2> QED
    BY <2>1, <2>2
<1> QED
  BY <1>0, <1>5, <1>6

\* The switch, case by case, for the character x with y behind it.
LEMMA Cases ==
    ASSUME NEW b, NEW p, NEW x, NEW y, b[p] = x, b[p + 1] = y
    PROVE  /\ x = "v" /\ y \in {" ", "\t"} => Dispatch(b, p) = ParseVertex(b, p + 2)
           /\ x = "v" /\ y = "t" =>
                Dispatch(b, p) = Parsed([Nothing EXCEPT !.kind = "vt"], ParseFloat(b, ParseFloat(b, p + 2)))
           /\ x = "v" /\ y = "n" =>
                Dispatch(b, p) = Parsed([Nothing EXCEPT !.kind = "vn"],
                                        ParseFloat(b, ParseFloat(b, ParseFloat(b, p + 2))))
           /\ x = "f" /\ y \in {" ", "\t"} => Dispatch(b, p) = ParseFace(b, p + 2)
           /\ x \in {"o", "g"} /\ y \in {" ", "\t"} => Dispatch(b, p) = ParseName(x, b, p + 2)
           /\ x \in {"v", "f", "o", "g"} /\ y \notin {" ", "\t"} /\ ~(x = "v" /\ y \in {"t", "n"}) =>
                Dispatch(b, p) = Parsed(Nothing, p + 1)
           /\ \A word \in {"m", "u"} : x = word =>
                Dispatch(b, p) = IF Starts(b, p, Keywords[word])
                                 THEN ParseName(word, b, p + 6) ELSE Parsed(Nothing, p)
           /\ x \notin {"v", "f", "o", "g", "m", "u"} => Dispatch(b, p) = Parsed(Nothing, p)
<1>1. DOMAIN Keywords = {"m", "u"}
  BY DEF Keywords
<1>2. CASE x = "v"
  BY <1>1, <1>2 DEF Dispatch, RollBack
<1>3. CASE x = "f"
  BY <1>1, <1>3 DEF Dispatch, RollBack
<1>4. CASE x \in {"o", "g"}
  BY <1>1, <1>4 DEF Dispatch, RollBack
<1>5. CASE x \in {"m", "u"}
  BY <1>1, <1>5 DEF Dispatch, RollBack
<1>6. CASE x \notin {"v", "f", "o", "g", "m", "u"}
  BY <1>1, <1>6 DEF Dispatch, RollBack
<1> QED
  BY <1>2, <1>3, <1>4, <1>5, <1>6

\* One case more, for the letter that the line keeps.
LEMMA NameCase ==
    ASSUME NEW b, NEW p, NEW x \in {"o", "g"}, NEW y \in {" ", "\t"}, b[p] = x, b[p + 1] = y
    PROVE  Dispatch(b, p) = ParseName(x, b, p + 2)
  BY DEF Dispatch, RollBack, Keywords

LEMMA TexcoordCase ==
    ASSUME NEW b, NEW p, b[p] = "v", b[p + 1] = "t"
    PROVE  Dispatch(b, p) = Parsed([Nothing EXCEPT !.kind = "vt"], ParseFloat(b, ParseFloat(b, p + 2)))
  BY DEF Dispatch, RollBack, Keywords

LEMMA NormalCase ==
    ASSUME NEW b, NEW p, b[p] = "v", b[p + 1] = "n"
    PROVE  Dispatch(b, p) = Parsed([Nothing EXCEPT !.kind = "vn"],
                                   ParseFloat(b, ParseFloat(b, ParseFloat(b, p + 2))))
  BY DEF Dispatch, RollBack, Keywords

LEMMA KeywordFacts ==
    \A word \in {"m", "u"} :
        /\ SixLetters(Keywords[word]) /\ Len(Keywords[word]) = 6
        /\ \A i \in 1 .. 6 : Keywords[word][i] # NewLine
<1> DEFINE mtllib == <<"m", "t", "l", "l", "i", "b">>
           usemtl == <<"u", "s", "e", "m", "t", "l">>
<1>1. Keywords["m"] = mtllib /\ Keywords["u"] = usemtl
  BY DEF Keywords
<1>5. Len(mtllib) = 6 /\ Len(usemtl) = 6
  OBVIOUS
<1>6. mtllib = [i \in 1 .. 6 |-> mtllib[i]]
  OBVIOUS
<1>7. usemtl = [i \in 1 .. 6 |-> usemtl[i]]
  OBVIOUS
<1>2. \A x \in {"m", "t", "l", "i", "b", "u", "s", "e"} : x # NewLine
  BY NewLineAssumption
<1>3. \A i \in 1 .. 6 : i = 1 \/ i = 2 \/ i = 3 \/ i = 4 \/ i = 5 \/ i = 6
  OBVIOUS
<1>4. \A i \in 1 .. 6 : mtllib[i] # NewLine /\ usemtl[i] # NewLine
  <2> TAKE i \in 1 .. 6
  <2> QED
    BY <1>2, <1>3
<1> HIDE DEF mtllib, usemtl
<1> QED
  BY <1>1, <1>4, <1>5, <1>6, <1>7 DEF SixLetters

LEMMA SameDispatch ==
    ASSUME NEW b, NEW c, NEW d, NEW p, NEW e, Same(b, c, d, p, e), Ended(b), Ended(c)
    PROVE  SameResult(Dispatch(b, d + p), Dispatch(c, p), d, p, e)
<1> DEFINE x == c[p]
           y == c[p + 1]
           P == d + p
           z == b[P + 1]
<1>1. b[P] = x /\ d \in Nat /\ p \in Nat /\ p \in p .. e /\ e \in Nat
  BY SameFacts
<1>2. ASSUME NEW r, NEW q \in p .. e, r = d + q PROVE SameResult(Parsed(Nothing, r), Parsed(Nothing, q), d, p, e)
  BY <1>2 DEF SameResult, Parsed, Moves
<1>3. CASE x \notin {"v", "f", "o", "g", "m", "u"}
  <2>1. Dispatch(c, p) = Parsed(Nothing, p)
    BY <1>3, Cases
  <2>2. Dispatch(b, P) = Parsed(Nothing, P)
    BY <1>1, <1>3, Cases
  <2> QED
    BY <1>1, <1>2, <2>1, <2>2
<1>4. CASE x \in {"v", "f", "o", "g", "m", "u"}
  <2>1. x # NewLine
    BY <1>4, Special
  <2>2. p + 1 \in p .. e /\ Same(b, c, d, p + 1, e) /\ z = y /\ P + 1 = d + (p + 1)
    BY <2>1, SameNext
  <2>3. P + 2 = d + (p + 2)
    BY <1>1
  <2>4. ASSUME y # NewLine PROVE Same(b, c, d, p + 2, e) /\ p + 2 \in p .. e
    <3> DEFINE q == p + 1
    <3>1. Same(b, c, d, q, e) /\ c[q] # NewLine /\ q \in p .. e /\ p + 2 = q + 1
      BY <1>1, <2>2, <2>4
    <3> HIDE DEF q
    <3>2. Same(b, c, d, q + 1, e) /\ q + 1 \in q .. e
      BY <3>1, SameNext
    <3>3. q + 1 \in p .. e
      BY <1>1, <3>1, <3>2
    <3> QED
      BY <3>1, <3>2, <3>3
  <2>5. ASSUME NEW u, NEW v, y # NewLine, Moves(u, v, d, p + 2, e) PROVE Moves(u, v, d, p, e)
    BY <1>1, <2>4, <2>5 DEF Moves
  <2>6. CASE x \in {"v", "f", "o", "g"} /\ y \notin {" ", "\t"} /\ ~(x = "v" /\ y \in {"t", "n"})
    <3>1. Dispatch(c, p) = Parsed(Nothing, p + 1)
      BY <2>6, Cases
    <3>2. Dispatch(b, P) = Parsed(Nothing, P + 1)
      BY <1>1, <2>2, <2>6, Cases
    <3> QED
      BY <1>2, <2>2, <3>1, <3>2
  <2>7. CASE x = "v" /\ y \in {" ", "\t"}
    <3>1. Dispatch(c, p) = ParseVertex(c, p + 2) /\ Dispatch(b, P) = ParseVertex(b, d + (p + 2))
      <4>1. Dispatch(c, p) = ParseVertex(c, p + 2)
        BY <2>7, Cases
      <4>2. Dispatch(b, P) = ParseVertex(b, P + 2)
        BY <1>1, <2>2, <2>7, Cases
      <4> QED
        BY <2>3, <4>1, <4>2
    <3>2. y # NewLine
      BY <2>7, Special
    <3>3. SameResult(ParseVertex(b, d + (p + 2)), ParseVertex(c, p + 2), d, p + 2, e)
      BY <2>4, <3>2, SameVertex
    <3> QED
      BY <2>5, <3>1, <3>2, <3>3 DEF SameResult
  <2>8. CASE x = "f" /\ y \in {" ", "\t"}
    <3>1. Dispatch(c, p) = ParseFace(c, p + 2) /\ Dispatch(b, P) = ParseFace(b, d + (p + 2))
      <4>1. Dispatch(c, p) = ParseFace(c, p + 2)
        BY <2>8, Cases
      <4>2. Dispatch(b, P) = ParseFace(b, P + 2)
        BY <1>1, <2>2, <2>8, Cases
      <4> QED
        BY <2>3, <4>1, <4>2
    <3>2. y # NewLine
      BY <2>8, Special
    <3>3. SameResult(ParseFace(b, d + (p + 2)), ParseFace(c, p + 2), d, p + 2, e)
      BY <2>4, <3>2, SameFace
    <3> QED
      BY <2>5, <3>1, <3>2, <3>3 DEF SameResult
  <2>9. CASE x \in {"o", "g"} /\ y \in {" ", "\t"}
    <3>1. Dispatch(c, p) = ParseName(x, c, p + 2) /\ Dispatch(b, P) = ParseName(x, b, d + (p + 2))
      <4>0. c[p] = x /\ c[p + 1] = y /\ b[P] = x /\ b[P + 1] = y /\ x \in {"o", "g"} /\ y \in {" ", "\t"}
        BY <1>1, <2>2, <2>9
      <4> HIDE DEF P, x, y
      <4>1. Dispatch(c, p) = ParseName(x, c, p + 2)
        BY <4>0, NameCase
      <4>2. Dispatch(b, P) = ParseName(x, b, P + 2)
        BY <4>0, NameCase
      <4> QED
        BY <2>3, <4>1, <4>2
    <3>2. y # NewLine
      BY <2>9, Special
    <3>3. SameResult(ParseName(x, b, d + (p + 2)), ParseName(x, c, p + 2), d, p + 2, e)
      BY <2>4, <3>2, SameNameLine
    <3> QED
      BY <2>5, <3>1, <3>2, <3>3 DEF SameResult
  <2>10. CASE x = "v" /\ y \in {"t", "n"}
    <3>1. y # NewLine
      BY <2>10, Special
    <3> DEFINE B0 == d + (p + 2)
               C0 == p + 2
               B1 == ParseFloat(b, B0)
               C1 == ParseFloat(c, C0)
               B2 == ParseFloat(b, B1)
               C2 == ParseFloat(c, C1)
               B3 == ParseFloat(b, B2)
               C3 == ParseFloat(c, C2)
    <3>2. CASE y = "t"
      <4>1. Dispatch(c, p) = Parsed([Nothing EXCEPT !.kind = "vt"], C2)
        BY <2>10, <3>2, TexcoordCase
      <4>2. Dispatch(b, P) = Parsed([Nothing EXCEPT !.kind = "vt"], B2)
        <5>1. b[P] = "v" /\ b[P + 1] = "t"
          BY <1>1, <2>2, <2>10, <3>2
        <5>2. P + 2 = B0
          BY <2>3
        <5> HIDE DEF P
        <5> QED
          BY <5>1, <5>2, TexcoordCase
      <4>3. Moves(B1, C1, d, C0, e)
        BY <2>4, <3>1, SameFloat
      <4> HIDE DEF B1, C1
      <4>4. B1 = d + C1 /\ Same(b, c, d, C1, e)
        BY <2>4, <3>1, <4>3, Onward
      <4>5. Moves(B2, C2, d, C1, e)
        BY <4>4, SameFloat
      <4>6. Moves(B2, C2, d, C0, e)
        BY <2>4, <3>1, <4>3, <4>5, Onward
      <4> HIDE DEF B2, C2
      <4>7. Moves(B2, C2, d, p, e)
        BY <2>5, <3>1, <4>6
      <4> QED
        BY <4>1, <4>2, <4>7 DEF SameResult, Parsed
    <3>3. CASE y = "n"
      <4>1. Dispatch(c, p) = Parsed([Nothing EXCEPT !.kind = "vn"], C3)
        BY <2>10, <3>3, NormalCase
      <4>2. Dispatch(b, P) = Parsed([Nothing EXCEPT !.kind = "vn"], B3)
        <5>1. b[P] = "v" /\ b[P + 1] = "n"
          BY <1>1, <2>2, <2>10, <3>3
        <5>2. P + 2 = B0
          BY <2>3
        <5> HIDE DEF P
        <5> QED
          BY <5>1, <5>2, NormalCase
      <4>3. Moves(B1, C1, d, C0, e)
        BY <2>4, <3>1, SameFloat
      <4> HIDE DEF B1, C1
      <4>4. B1 = d + C1 /\ Same(b, c, d, C1, e)
        BY <2>4, <3>1, <4>3, Onward
      <4>5. Moves(B2, C2, d, C1, e)
        BY <4>4, SameFloat
      <4>6. Moves(B2, C2, d, C0, e)
        BY <2>4, <3>1, <4>3, <4>5, Onward
      <4> HIDE DEF B2, C2
      <4>7. B2 = d + C2 /\ Same(b, c, d, C2, e)
        BY <2>4, <3>1, <4>6, Onward
      <4>8. Moves(B3, C3, d, C2, e)
        BY <4>7, SameFloat
      <4>9. Moves(B3, C3, d, C0, e)
        BY <2>4, <3>1, <4>6, <4>8, Onward
      <4> HIDE DEF B3, C3
      <4>10. Moves(B3, C3, d, p, e)
        BY <2>5, <3>1, <4>9
      <4> QED
        BY <4>1, <4>2, <4>10 DEF SameResult, Parsed
    <3> QED
      BY <2>10, <3>2, <3>3
  <2>11. CASE x \in {"m", "u"}
    <3> DEFINE word == Keywords[x]
    <3>1. Starts(b, P, word) <=> Starts(c, p, word)
      BY <2>11, KeywordFacts, SameKeyword
    <3>2. Starts(c, p, word) => p + 6 \in p .. e
      BY <2>11, KeywordFacts, SameKeyword
    <3>3. Dispatch(c, p) = IF Starts(c, p, word) THEN ParseName(x, c, p + 6) ELSE Parsed(Nothing, p)
      BY <2>11, Cases
    <3>4. Dispatch(b, P) = IF Starts(b, P, word) THEN ParseName(x, b, P + 6) ELSE Parsed(Nothing, P)
      BY <1>1, <2>11, Cases
    <3> HIDE DEF word
    <3>5. CASE Starts(c, p, word)
      <4>1. Same(b, c, d, p + 6, e) /\ P + 6 = d + (p + 6)
        BY <1>1, <3>2, <3>5, SameOn
      <4>2. SameResult(ParseName(x, b, d + (p + 6)), ParseName(x, c, p + 6), d, p + 6, e)
        BY <4>1, SameNameLine
      <4>3. \A u, v : Moves(u, v, d, p + 6, e) => Moves(u, v, d, p, e)
        BY <1>1, <3>2, <3>5 DEF Moves
      <4> QED
        BY <3>1, <3>3, <3>4, <3>5, <4>1, <4>2, <4>3 DEF SameResult
    <3>6. CASE ~Starts(c, p, word)
      BY <1>1, <1>2, <3>1, <3>3, <3>4, <3>6
    <3> QED
      BY <3>5, <3>6
  <2> QED
    BY <1>4, <2>6, <2>7, <2>8, <2>9, <2>10, <2>11
<1> QED
  BY <1>3, <1>4

LEMMA SameTurn ==
    ASSUME NEW b, NEW c, NEW d, NEW p, NEW e, Same(b, c, d, p, e), Ended(b), Ended(c)
    PROVE  SameResult(Turn(b, d + p), Turn(c, p), d, p, e)
<1> DEFINE x == SkipBlanks(b, d + p)
           y == SkipBlanks(c, p)
<1>1. Moves(x, y, d, p, e)
  BY SameBlanks
<1>2. Turn(b, d + p) = Dispatch(b, x) /\ Turn(c, p) = Dispatch(c, y)
  BY DEF Turn
<1> HIDE DEF x, y
<1>3. x = d + y /\ Same(b, c, d, y, e)
  BY <1>1, Onward
<1>4. SameResult(Dispatch(b, d + y), Dispatch(c, y), d, y, e)
  BY <1>3, SameDispatch
<1> QED
  BY <1>1, <1>2, <1>3, <1>4, Onward DEF SameResult

-----------------------------------------------------------------------------
(* The turns of a buffer: one for each of its lines.                        *)

TurnsNext(b) == [p \in Nat |-> IF p > Len(b) THEN p ELSE SkipLine(b, Turn(b, p).next)]
TurnsPath(b) == Path(TurnsNext(b), 1, Len(b))

\* A buffer without an unended line.
WholeLines(b) == b = <<>> \/ Ended(b)

LEMMA WholeLinesFacts ==
    ASSUME NEW b, WholeLines(b)
    PROVE  b \in Seq(Char) /\ Len(b) \in Nat /\ (Len(b) # 0 => Ended(b))
<1>1. CASE b = <<>>
  BY <1>1
<1>2. CASE Ended(b)
  BY <1>2 DEF Ended
<1> QED
  BY <1>1, <1>2 DEF WholeLines

LEMMA TurnToEnd ==
    ASSUME NEW b, NEW c, NEW d, NEW p, NEW e, Same(b, c, d, p, e), Ended(b), Ended(c)
    PROVE  /\ Turn(b, d + p).val = Turn(c, p).val
           /\ TurnsNext(c)[p] = e + 1 /\ TurnsNext(b)[d + p] = d + e + 1
<1> DEFINE x == Turn(b, d + p).next
           y == Turn(c, p).next
<1>1. Turn(b, d + p).val = Turn(c, p).val /\ Moves(x, y, d, p, e)
  BY SameTurn DEF SameResult
<1>2. p \in 1 .. Len(c) /\ d + p \in 1 .. Len(b) /\ Len(c) \in Nat /\ Len(b) \in Nat
  BY SameFacts
<1>3. TurnsNext(c)[p] = LineEnd(c, y) + 1 /\ TurnsNext(b)[d + p] = LineEnd(b, x) + 1
  BY <1>2 DEF TurnsNext, SkipLine
<1> HIDE DEF x, y
<1>4. x = d + y /\ Same(b, c, d, y, e)
  BY <1>1, Onward
<1>5. LineEnd(c, y) = e /\ LineEnd(b, x) = d + e
  BY <1>4, SameEnd
<1> QED
  BY <1>1, <1>3, <1>5

\* Every turn ends behind the newline of its line.
LEMMA OwnTurn ==
    ASSUME NEW b, WholeLines(b), NEW q \in 1 .. Len(b)
    PROVE  \E e \in q .. Len(b) : Same(b, b, 0, q, e) /\ TurnsNext(b)[q] = e + 1
<1>1. Ended(b) /\ Len(b) \in Nat
  BY WholeLinesFacts
<1>2. PICK e \in q .. Len(b) : Same(b, b, 0, q, e)
  BY <1>1, OwnLine
<1>3. TurnsNext(b)[q] = e + 1
  BY <1>1, <1>2, TurnToEnd
<1> QED
  BY <1>2, <1>3

LEMMA TurnsForward ==
    ASSUME NEW b, WholeLines(b)
    PROVE  /\ Forward(TurnsNext(b), Len(b) + 1) /\ TurnsNext(b)[Len(b) + 1] = Len(b) + 1
           /\ \A q \in 1 .. Len(b) : TurnsNext(b)[q] > q
<1>1. Len(b) \in Nat
  BY WholeLinesFacts
<1>2. TurnsNext(b)[Len(b) + 1] = Len(b) + 1
  BY <1>1 DEF TurnsNext
<1>3. ASSUME NEW q \in 1 .. Len(b) PROVE TurnsNext(b)[q] \in q + 1 .. Len(b) + 1
  <2>1. PICK e \in q .. Len(b) : TurnsNext(b)[q] = e + 1
    BY OwnTurn
  <2> QED
    BY <1>1, <2>1
<1>5. \A q \in 1 .. Len(b) + 1 : q \in 1 .. Len(b) \/ q = Len(b) + 1
  BY <1>1
<1>6. \A q \in 1 .. Len(b) + 1 : TurnsNext(b)[q] \in 1 .. Len(b) + 1 /\ TurnsNext(b)[q] >= q
  BY <1>1, <1>2, <1>3, <1>5
<1>8. \A q \in 1 .. Len(b) : TurnsNext(b)[q] > q
  BY <1>1, <1>3
<1> QED
  BY <1>2, <1>6, <1>8 DEF Forward

\* The turns start at the first character and end behind the last one.
LEMMA TurnsWalk ==
    ASSUME NEW b, WholeLines(b), NEW s, s = TurnsPath(b)
    PROVE  /\ s \in Seq(1 .. Len(b) + 1) /\ s \in Seq(Nat) /\ Len(s) \in Nat \ {0}
           /\ Walk(s, TurnsNext(b), 1) /\ Ends(s, TurnsNext(b))
           /\ s[1] = 1 /\ s[Len(s)] = Len(b) + 1
           /\ \A k \in 1 .. Len(s) - 1 : s[k] \in 1 .. Len(b)
<1> DEFINE n == Len(b) + 1
           next == TurnsNext(b)
<1>1. Len(b) \in Nat /\ n \in Nat /\ Forward(next, n) /\ 1 \in 1 .. n /\ Len(b) >= n - 1
  BY WholeLinesFacts, TurnsForward
<1>2. s = Path(next, 1, Len(b))
  BY DEF TurnsPath
<1>3. next[n] = n /\ \A q \in 1 .. Len(b) : next[q] > q
  BY TurnsForward
<1>0. n = Len(b) + 1
  OBVIOUS
<1> HIDE DEF n, next
<1>4. s \in Seq(1 .. n) /\ Walk(s, next, 1) /\ Ends(s, next)
  BY <1>1, <1>2, PathWalks
<1>5. s \in Seq(Nat) /\ Len(s) \in Nat \ {0} /\ s[1] = 1
  BY <1>1, <1>4 DEF Walk
<1>6. s[Len(s)] = n
  <2> DEFINE l == s[Len(s)]
  <2>3. Len(s) \in 1 .. Len(s)
    BY <1>5
  <2>0. s[Len(s)] \in 1 .. n
    BY <1>4, <2>3, ElementOfSeq
  <2>1. l \in 1 .. n /\ next[l] = l
    BY <1>4, <2>0 DEF Ends
  <2> HIDE DEF l
  <2>2. l \notin 1 .. Len(b)
    BY <1>1, <1>3, <2>1
  <2>4. l = n
    BY <1>0, <1>1, <2>1, <2>2
  <2> QED
    BY <2>4 DEF l
<1>7. ASSUME NEW k \in 1 .. Len(s) - 1 PROVE s[k] \in 1 .. Len(b)
  <2>1. s[k + 1] = next[s[k]] /\ s[k + 1] # s[k]
    BY <1>4 DEF Walk
  <2>2. s[k] # n
    BY <1>3, <2>1
  <2>0. k \in 1 .. Len(s)
    BY <1>5
  <2>3. s[k] \in 1 .. n
    BY <1>4, <2>0, ElementOfSeq
  <2> QED
    BY <1>0, <1>1, <2>2, <2>3
<1> QED
  BY <1>0, <1>4, <1>5, <1>6, <1>7 DEF next

\* A function over 1 .. n, as SMT knows it again.
Listed(x, n) == x = [k \in 1 .. n |-> x[k]]

LEMMA ListedType ==
    ASSUME NEW S, NEW n \in Nat, NEW x, Listed(x, n), \A k \in 1 .. n : x[k] \in S
    PROVE  x \in Seq(S) /\ Len(x) = n
<1>1. [k \in 1 .. n |-> x[k]] \in Seq(S) /\ Len([k \in 1 .. n |-> x[k]]) = n
  OBVIOUS
<1>2. x = [k \in 1 .. n |-> x[k]]
  BY DEF Listed
<1> QED
  BY <1>1, <1>2, Zenon

LEMMA TurnsIs == \A b : Turns(b) = ReadAt(b, TurnsPath(b))
  BY DEF Turns, TurnsPath, TurnsNext

LEMMA WholeLinesConcat ==
    ASSUME NEW a, WholeLines(a), NEW b, WholeLines(b)
    PROVE  WholeLines(a \o b)
<1> DEFINE c == a \o b
<1>1. /\ a \in Seq(Char) /\ b \in Seq(Char) /\ Len(a) \in Nat /\ Len(b) \in Nat
      /\ c \in Seq(Char) /\ Len(c) = Len(a) + Len(b) /\ \A i \in 1 .. Len(a) : c[i] = a[i]
      /\ \A i \in 1 .. Len(b) : c[Len(a) + i] = b[i]
  BY WholeLinesFacts, ConcatElements
<1> HIDE DEF c
<1>2. CASE Len(b) # 0
  <2>1. Ended(b)
    BY <1>2, WholeLinesFacts
  <2>2. c[Len(c)] = NewLine
    BY <1>1, <1>2, <2>1 DEF Ended
  <2> QED
    BY <1>1, <1>2, <2>2 DEF Ended, WholeLines, c
<1>3. CASE Len(b) = 0 /\ Len(a) # 0
  <2>1. Ended(a)
    BY <1>3, WholeLinesFacts
  <2>2. c[Len(c)] = NewLine
    BY <1>1, <1>3, <2>1 DEF Ended
  <2> QED
    BY <1>1, <1>3, <2>2 DEF Ended, WholeLines, c
<1>4. CASE Len(b) = 0 /\ Len(a) = 0
  <2>1. c = <<>>
    BY <1>1, <1>4
  <2> QED
    BY <2>1 DEF WholeLines, c
<1> QED
  BY <1>2, <1>3, <1>4

\* In the concatenation, the lines of the first part and those of the second.
LEMMA SameFirstPart ==
    ASSUME NEW a, WholeLines(a), NEW b, WholeLines(b), NEW c, c = a \o b, NEW q \in 1 .. Len(a)
    PROVE  Turn(c, q).val = Turn(a, q).val /\ TurnsNext(c)[q] = TurnsNext(a)[q]
<1>1. /\ a \in Seq(Char) /\ b \in Seq(Char) /\ Len(a) \in Nat /\ Len(b) \in Nat
      /\ c \in Seq(Char) /\ Len(c) = Len(a) + Len(b) /\ \A i \in 1 .. Len(a) : c[i] = a[i]
  BY WholeLinesFacts, ConcatElements
<1>2. PICK e \in q .. Len(a) : Same(a, a, 0, q, e)
  BY WholeLinesFacts, OwnLine
<1>3. /\ e \in Nat /\ q \in 1 .. e /\ e <= Len(a) /\ 0 + e <= Len(c) /\ a[e] = NewLine
      /\ \A i \in q .. e - 1 : a[i] # NewLine
  BY <1>1, <1>2, SameFacts
<1>4. \A i \in q .. e : c[0 + i] = a[i]
  <2> TAKE i \in q .. e
  <2>1. i \in 1 .. Len(a) /\ 0 + i = i
    BY <1>1, <1>3
  <2> QED
    BY <1>1, <2>1
<1>5. Same(c, a, 0, q, e)
  BY <1>1, <1>3, <1>4 DEF Same
<1>6. Ended(c) /\ Ended(a)
  <2>1. WholeLines(c) /\ Len(c) # 0 /\ Len(a) # 0
    BY <1>1, WholeLinesConcat
  <2> QED
    BY <2>1, WholeLinesFacts
<1>7. Turn(c, 0 + q).val = Turn(a, q).val /\ TurnsNext(a)[q] = e + 1 /\ TurnsNext(c)[0 + q] = 0 + e + 1
  BY <1>5, <1>6, TurnToEnd
<1> QED
  BY <1>1, <1>7

\* What b says is said in c behind the first n characters.
Behind(c, n, b) ==
    \A q \in 1 .. Len(b) :
        /\ Turn(c, n + q).val = Turn(b, q).val
        /\ TurnsNext(c)[n + q] = n + TurnsNext(b)[q]

LEMMA SameSecondPart ==
    ASSUME NEW a, WholeLines(a), NEW b, WholeLines(b), NEW c, c = a \o b,
           NEW n, n = Len(a)
    PROVE  Behind(c, n, b)
<1> SUFFICES ASSUME NEW q \in 1 .. Len(b)
             PROVE  /\ Turn(c, n + q).val = Turn(b, q).val
                    /\ TurnsNext(c)[n + q] = n + TurnsNext(b)[q]
  BY DEF Behind
<1>1. /\ a \in Seq(Char) /\ b \in Seq(Char) /\ n \in Nat /\ Len(b) \in Nat
      /\ c \in Seq(Char) /\ Len(c) = n + Len(b)
      /\ \A i \in 1 .. Len(b) : c[n + i] = b[i]
  BY WholeLinesFacts, ConcatElements
<1>2. PICK e \in q .. Len(b) : Same(b, b, 0, q, e)
  BY WholeLinesFacts, OwnLine
<1>0. b[e] = NewLine /\ \A i \in q .. e - 1 : b[i] # NewLine
  BY <1>2 DEF Same
<1>3. /\ e \in Nat /\ q \in 1 .. e /\ e <= Len(b) /\ n + e <= Len(c) /\ b[e] = NewLine
      /\ \A i \in q .. e - 1 : b[i] # NewLine
  BY <1>0, <1>1
<1>4. \A i \in q .. e : c[n + i] = b[i]
  <2> TAKE i \in q .. e
  <2>1. i \in 1 .. Len(b)
    BY <1>1, <1>3
  <2> QED
    BY <1>1, <2>1
<1>5. Same(c, b, n, q, e)
  BY <1>1, <1>3, <1>4 DEF Same
<1>6. Ended(c) /\ Ended(b)
  <2>1. WholeLines(c) /\ Len(c) # 0 /\ Len(b) # 0
    BY <1>1, WholeLinesConcat
  <2> QED
    BY <2>1, WholeLinesFacts
<1>7. /\ Turn(c, n + q).val = Turn(b, q).val
      /\ TurnsNext(b)[q] = e + 1 /\ TurnsNext(c)[n + q] = n + e + 1
  BY <1>5, <1>6, TurnToEnd
<1> DEFINE x == TurnsNext(b)[q]
           y == TurnsNext(c)[n + q]
<1>8. x = e + 1 /\ y = n + e + 1
  BY <1>7
<1> HIDE DEF x, y
<1>9. y = n + x
  BY <1>1, <1>3, <1>8
<1> QED
  BY <1>7, <1>9 DEF x, y

\* parse_buffer makes of two buffers of whole lines what it makes of both in one.
LEMMA TurnsConcat ==
    ASSUME NEW a, WholeLines(a), NEW b, WholeLines(b)
    PROVE  Turns(a \o b) = Turns(a) \o Turns(b)
<1> DEFINE c == a \o b
           s == TurnsPath(a)
           t == TurnsPath(b)
           l == Len(s)
           m == Len(t)
           n == Len(a)
           v == TurnsPath(c)
<1>0. c = a \o b /\ s = TurnsPath(a) /\ t = TurnsPath(b) /\ l = Len(s) /\ m = Len(t) /\ n = Len(a)
      /\ v = TurnsPath(c) /\ WholeLines(c)
  BY WholeLinesConcat
<1> HIDE DEF c, s, t, l, m, n, v
<1>1. /\ s \in Seq(Nat) /\ l \in Nat \ {0} /\ s[1] = 1 /\ s[l] = n + 1
      /\ \A k \in 1 .. l - 1 : s[k] \in 1 .. n
      /\ Walk(s, TurnsNext(a), 1)
  BY <1>0, TurnsWalk
<1>2. /\ t \in Seq(Nat) /\ m \in Nat \ {0} /\ t[1] = 1 /\ t[m] = Len(b) + 1
      /\ \A k \in 1 .. m - 1 : t[k] \in 1 .. Len(b)
      /\ Walk(t, TurnsNext(b), 1)
  BY <1>0, TurnsWalk
<1>3. n \in Nat /\ Len(b) \in Nat /\ Len(c) = n + Len(b)
  BY <1>0, WholeLinesFacts, ConcatElements
<1>14. \A q \in 1 .. n : Turn(c, q).val = Turn(a, q).val /\ TurnsNext(c)[q] = TurnsNext(a)[q]
  <2> TAKE q \in 1 .. n
  <2>1. q \in 1 .. Len(a) /\ c = a \o b
    BY <1>0
  <2> QED
    BY <2>1, SameFirstPart, Zenon
<1>15. \A q \in 1 .. Len(b) :
         Turn(c, n + q).val = Turn(b, q).val /\ TurnsNext(c)[n + q] = n + TurnsNext(b)[q]
  <2>1. Behind(c, n, b)
    BY <1>0, SameSecondPart
  <2> QED
    BY <2>1 DEF Behind
<1> DEFINE u == [k \in 1 .. l + m - 1 |-> IF k < l THEN s[k] ELSE n + t[k - l + 1]]
<1>4. /\ u \in Seq(Nat) /\ Len(u) = l + m - 1
      /\ \A k \in 1 .. l - 1 : u[k] = s[k]
      /\ \A k \in 1 .. m : u[l + k - 1] = n + t[k]
  <2>1. l + m - 1 \in Nat
    BY <1>1, <1>2
  <2>2. ASSUME NEW k \in 1 .. l + m - 1 PROVE (IF k < l THEN s[k] ELSE n + t[k - l + 1]) \in Nat
    <3>1. CASE k < l
      <4>1. k \in 1 .. Len(s)
        BY <1>0, <1>1, <1>2, <3>1
      <4> QED
        BY <1>1, <3>1, <4>1, ElementOfSeq
    <3>2. CASE ~(k < l)
      <4>1. k - l + 1 \in 1 .. Len(t)
        BY <1>0, <1>1, <1>2, <3>2
      <4>2. t[k - l + 1] \in Nat
        BY <1>2, <4>1, ElementOfSeq
      <4> QED
        BY <1>3, <3>2, <4>2
    <3> QED
      BY <3>1, <3>2
  <2>3. u \in Seq(Nat) /\ Len(u) = l + m - 1
    BY <2>1, <2>2
  <2>4. ASSUME NEW k \in 1 .. l - 1 PROVE u[k] = s[k]
    <3>1. k \in 1 .. l + m - 1 /\ k < l
      BY <1>1, <1>2
    <3> QED
      BY <3>1
  <2>5. ASSUME NEW k \in 1 .. m PROVE u[l + k - 1] = n + t[k]
    <3>1. l + k - 1 \in 1 .. l + m - 1 /\ ~(l + k - 1 < l) /\ (l + k - 1) - l + 1 = k
      BY <1>1, <1>2
    <3> QED
      BY <3>1
  <2> QED
    BY <2>3, <2>4, <2>5
<1> HIDE DEF u
<1>5. u[l] = n + 1 /\ u[1] = 1
  <2>1. u[l + 1 - 1] = n + t[1] /\ l + 1 - 1 = l
    BY <1>1, <1>2, <1>4
  <2>2. l # 1 => u[1] = s[1]
    BY <1>1, <1>4
  <2> QED
    BY <1>1, <1>2, <2>1, <2>2
<1>6. \A k \in 1 .. l - 1 : u[k + 1] = s[k + 1]
  <2> TAKE k \in 1 .. l - 1
  <2>1. CASE k + 1 = l
    BY <1>1, <1>5, <2>1
  <2>2. CASE k + 1 # l
    <3>1. k + 1 \in 1 .. l - 1
      BY <1>1, <2>2
    <3> QED
      BY <1>4, <3>1
  <2> QED
    BY <2>1, <2>2
<1>7. Walk(u, TurnsNext(c), 1)
  <2>1. ASSUME NEW k \in 1 .. l - 1 PROVE u[k + 1] = TurnsNext(c)[u[k]] /\ u[k + 1] # u[k]
    <3>1. s[k + 1] = TurnsNext(a)[s[k]] /\ s[k + 1] # s[k]
      BY <1>0, <1>1, <2>1 DEF Walk
    <3>2. TurnsNext(c)[s[k]] = TurnsNext(a)[s[k]]
      BY <1>1, <1>14
    <3> QED
      BY <1>4, <1>6, <2>1, <3>1, <3>2
  <2>2. ASSUME NEW k \in 1 .. m - 1
        PROVE  u[l + k - 1 + 1] = TurnsNext(c)[u[l + k - 1]] /\ u[l + k - 1 + 1] # u[l + k - 1]
    <3>1. t[k + 1] = TurnsNext(b)[t[k]] /\ t[k + 1] # t[k]
      BY <1>0, <1>2, <2>2 DEF Walk
    <3>2. TurnsNext(c)[n + t[k]] = n + TurnsNext(b)[t[k]]
      BY <1>2, <1>15
    <3>3. k \in 1 .. m /\ k + 1 \in 1 .. m /\ l + (k + 1) - 1 = l + k - 1 + 1
      BY <1>1, <1>2, <2>2
    <3>4. u[l + (k + 1) - 1] = n + t[k + 1] /\ u[l + k - 1] = n + t[k]
      BY <1>4, <3>3
    <3>5. t[k] \in Nat /\ t[k + 1] \in Nat
      BY <1>0, <1>2, <3>3, ElementOfSeq
    <3> QED
      BY <1>3, <3>1, <3>2, <3>3, <3>4, <3>5
  <2>3. ASSUME NEW k \in 1 .. Len(u) - 1 PROVE u[k + 1] = TurnsNext(c)[u[k]] /\ u[k + 1] # u[k]
    <3>1. CASE k \in 1 .. l - 1
      BY <2>1, <3>1
    <3>2. CASE ~(k \in 1 .. l - 1)
      <4> DEFINE j == k - l + 1
      <4>1. j \in 1 .. m - 1 /\ l + j - 1 = k
        BY <1>1, <1>2, <1>4, <2>3, <3>2
      <4> HIDE DEF j
      <4> QED
        BY <2>2, <4>1
    <3> QED
      BY <3>1, <3>2
  <2>4. Len(u) \in Nat \ {0}
    BY <1>1, <1>2, <1>4
  <2> QED
    BY <1>5, <2>3, <2>4 DEF Walk
<1>8. Ends(u, TurnsNext(c))
  <2>1. u[Len(u)] = Len(c) + 1
    <3>1. u[l + m - 1] = n + t[m]
      BY <1>2, <1>4
    <3> QED
      BY <1>2, <1>3, <1>4, <3>1
  <2>2. TurnsNext(c)[Len(c) + 1] = Len(c) + 1
    BY <1>0, TurnsForward
  <2> QED
    BY <2>1, <2>2 DEF Ends
<1>9. v = u
  <2>1. v \in Seq(Nat) /\ Walk(v, TurnsNext(c), 1) /\ Ends(v, TurnsNext(c))
    BY <1>0, TurnsWalk
  <2> QED
    BY <1>4, <1>7, <1>8, <2>1, OneWalk
<1> DEFINE x == Turns(a)
           y == Turns(b)
           z == Turns(c)
<1>10. x = [k \in 1 .. l - 1 |-> Turn(a, s[k]).val] /\ y = [k \in 1 .. m - 1 |-> Turn(b, t[k]).val]
       /\ z = [k \in 1 .. l + m - 2 |-> Turn(c, u[k]).val]
  <2>1. Len(v) - 1 = l + m - 2
    BY <1>1, <1>2, <1>4, <1>9
  <2>2. z = ReadAt(c, v) /\ x = ReadAt(a, s) /\ y = ReadAt(b, t)
    BY <1>0, TurnsIs
  <2> HIDE DEF x, y, z
  <2> QED
    BY <1>0, <1>9, <2>1, <2>2 DEF ReadAt
<1> HIDE DEF x, y, z
<1>11. \A k \in 1 .. l - 1 : z[k] = x[k]
  <2> TAKE k \in 1 .. l - 1
  <2>1. k \in 1 .. l + m - 2
    BY <1>1, <1>2
  <2>2. Turn(c, s[k]).val = Turn(a, s[k]).val
    BY <1>1, <1>14
  <2> QED
    BY <1>4, <1>10, <2>1, <2>2
<1>12. \A k \in 1 .. m - 1 : z[l - 1 + k] = y[k]
  <2> TAKE k \in 1 .. m - 1
  <2>1. l - 1 + k \in 1 .. l + m - 2 /\ l - 1 + k = l + k - 1 /\ k \in 1 .. m
    BY <1>1, <1>2
  <2>2. Turn(c, n + t[k]).val = Turn(b, t[k]).val
    BY <1>2, <1>15
  <2>3. u[l - 1 + k] = n + t[k]
    BY <1>4, <2>1
  <2> QED
    BY <1>10, <2>1, <2>2, <2>3
<1>13. z = x \o y
  <2> DEFINE V == {x[k] : k \in 1 .. l - 1} \cup {y[k] : k \in 1 .. m - 1}
  <2>1. l - 1 \in Nat /\ m - 1 \in Nat
    BY <1>1, <1>2
  <2>10. (\A k \in 1 .. l - 1 : x[k] \in V) /\ (\A k \in 1 .. m - 1 : y[k] \in V)
    OBVIOUS
  <2> HIDE DEF V
  <2>11. Listed(x, l - 1) /\ Listed(y, m - 1)
    BY <1>10 DEF Listed
  <2>2. x \in Seq(V) /\ Len(x) = l - 1
    BY <2>1, <2>10, <2>11, ListedType
  <2>3. y \in Seq(V) /\ Len(y) = m - 1
    BY <2>1, <2>10, <2>11, ListedType
  <2>4. /\ x \o y \in Seq(V) /\ Len(x \o y) = (l - 1) + (m - 1)
        /\ \A k \in 1 .. l - 1 : (x \o y)[k] = x[k]
        /\ \A k \in 1 .. m - 1 : (x \o y)[l - 1 + k] = y[k]
    BY <2>2, <2>3, ConcatElements
  <2>5. (l - 1) + (m - 1) = l + m - 2
    BY <1>1, <1>2
  <2> DEFINE w == x \o y
  <2>6. w \in Seq(V) /\ Len(w) = l + m - 2
        /\ (\A k \in 1 .. l - 1 : w[k] = x[k]) /\ (\A k \in 1 .. m - 1 : w[l - 1 + k] = y[k])
    BY <2>4, <2>5
  <2> HIDE DEF w
  <2>7. ASSUME NEW k \in 1 .. l + m - 2 PROVE w[k] = z[k]
    <3>1. CASE k \in 1 .. l - 1
      BY <1>11, <2>6, <3>1
    <3>2. CASE ~(k \in 1 .. l - 1)
      <4> DEFINE j == k - (l - 1)
      <4>1. j \in 1 .. m - 1 /\ l - 1 + j = k
        BY <1>1, <1>2, <2>7, <3>2
      <4> HIDE DEF j
      <4> QED
        BY <1>12, <2>6, <4>1
    <3> QED
      BY <3>1, <3>2
  <2>8. w = [k \in 1 .. l + m - 2 |-> w[k]]
    BY <2>6
  <2>9. z = [k \in 1 .. l + m - 2 |-> z[k]]
    BY <1>10
  <2>12. w = z
    BY <2>7, <2>8, <2>9
  <2> QED
    BY <2>12 DEF w
<1> QED
  BY <1>13 DEF x, y, z, c

-----------------------------------------------------------------------------
(* The lines of a text.                                                    *)

\* Numbers T[0] < T[1] < ... < T[n] and all of them.
Rising(T, n) == \A k \in 0 .. n : T[k] \in Int /\ (k # n => T[k] < T[k + 1])
Values(T, n) == {T[k] : k \in 0 .. n}

LEMMA RisingOrder ==
    ASSUME NEW n \in Nat, NEW T, Rising(T, n)
    PROVE  \A k \in 0 .. n : \A l \in 0 .. n : k < l => T[k] < T[l]
<1>1. \A k \in 0 .. n : T[k] \in Int /\ (k # n => T[k] < T[k + 1])
  BY DEF Rising
<1> DEFINE E == {m \in Nat : m <= n => \A k \in 0 .. m : k < m => T[k] < T[m]}
<1>2. 0 \in E
  OBVIOUS
<1>3. ASSUME NEW m \in E PROVE m + 1 \in E
  <2> SUFFICES ASSUME m + 1 <= n, NEW k \in 0 .. m PROVE T[k] < T[m + 1]
    OBVIOUS
  <2>1. m \in 0 .. n /\ m + 1 \in 0 .. n /\ k \in 0 .. n /\ m # n
    OBVIOUS
  <2>2. T[m] < T[m + 1] /\ T[m] \in Int /\ T[m + 1] \in Int /\ T[k] \in Int
    BY <1>1, <2>1
  <2>3. k = m \/ T[k] < T[m]
    BY <1>3
  <2> QED
    BY <2>2, <2>3
<1>4. E \in SUBSET Nat
  OBVIOUS
<1> HIDE DEF E
<1>5. E = Nat
  BY <1>2, <1>3, <1>4, SetInduction
<1>6. ASSUME NEW k \in 0 .. n, NEW l \in 0 .. n, k < l PROVE T[k] < T[l]
  <2>1. l \in E /\ k \in 0 .. l /\ l <= n
    BY <1>5, <1>6
  <2> QED
    BY <1>6, <2>1 DEF E
<1> QED
  BY <1>6

LEMMA RisingCount ==
    ASSUME NEW n \in Nat, NEW T, Rising(T, n)
    PROVE  \A k \in 0 .. n : IsFiniteSet(Values(T, k)) /\ Cardinality(Values(T, k)) = k + 1
<1>0. \A k \in 0 .. n : \A l \in 0 .. n : k < l => T[k] < T[l]
  BY RisingOrder
<1> DEFINE E == {m \in Nat : m <= n => IsFiniteSet(Values(T, m)) /\ Cardinality(Values(T, m)) = m + 1}
<1>1. 0 \in E
  <2>1. Values(T, 0) = {} \cup {T[0]}
    BY DEF Values
  <2>2. IsFiniteSet({} \cup {T[0]}) /\ Cardinality({} \cup {T[0]}) = 0 + 1
    BY FS_EmptySet, FS_AddElement
  <2> QED
    BY <2>1, <2>2
<1>2. ASSUME NEW m \in E PROVE m + 1 \in E
  <2> SUFFICES ASSUME m + 1 <= n
               PROVE  IsFiniteSet(Values(T, m + 1)) /\ Cardinality(Values(T, m + 1)) = m + 1 + 1
    OBVIOUS
  <2>1. IsFiniteSet(Values(T, m)) /\ Cardinality(Values(T, m)) = m + 1
    BY <1>2
  <2>2. Values(T, m + 1) = Values(T, m) \cup {T[m + 1]}
    <3>1. \A k \in 0 .. m + 1 : k \in 0 .. m \/ k = m + 1
      OBVIOUS
    <3>2. m + 1 \in 0 .. m + 1 /\ \A k \in 0 .. m : k \in 0 .. m + 1
      OBVIOUS
    <3> QED
      BY <3>1, <3>2 DEF Values
  <2>3. T[m + 1] \notin Values(T, m)
    <3> SUFFICES ASSUME NEW k \in 0 .. m, T[m + 1] = T[k] PROVE FALSE
      BY DEF Values
    <3>1. k \in 0 .. n /\ m + 1 \in 0 .. n /\ k < m + 1
      OBVIOUS
    <3>2. T[k] < T[m + 1] /\ T[k] \in Int
      BY <1>0, <3>1 DEF Rising
    <3> QED
      BY <3>2
  <2>4. /\ IsFiniteSet(Values(T, m) \cup {T[m + 1]})
        /\ Cardinality(Values(T, m) \cup {T[m + 1]}) = Cardinality(Values(T, m)) + 1
    BY <2>1, <2>3, FS_AddElement
  <2> QED
    BY <2>1, <2>2, <2>4
<1>3. E \in SUBSET Nat
  OBVIOUS
<1> HIDE DEF E
<1>4. E = Nat
  BY <1>1, <1>2, <1>3, SetInduction
<1> QED
  BY <1>4 DEF E

\* The k-th of them is the one with k smaller ones.
LEMMA RisingChoice ==
    ASSUME NEW n \in Nat, NEW T, Rising(T, n), NEW at, at = Values(T, n), NEW k \in 0 .. n
    PROVE  Nth(at, k) = T[k]
<1>0. \A l \in 0 .. n : \A m \in 0 .. n : l < m => T[l] < T[m]
  BY RisingOrder
<1>1. \A l \in 0 .. n : T[l] \in Int
  BY DEF Rising
<1>2. ASSUME NEW l \in 0 .. n PROVE Cardinality({j \in at : j < T[l]}) = l
  <2>1. CASE l = 0
    <3>1. {j \in at : j < T[l]} = {}
      <4> SUFFICES ASSUME NEW m \in 0 .. n, T[m] < T[l] PROVE FALSE
        BY DEF Values
      <4>1. m = 0 \/ T[0] < T[m]
        BY <1>0, <2>1
      <4> QED
        BY <1>1, <2>1, <4>1
    <3> QED
      BY <2>1, <3>1, FS_EmptySet
  <2>2. CASE l # 0
    <3>1. l - 1 \in 0 .. n /\ (l - 1) + 1 = l
      BY <2>2
    <3>2. ASSUME NEW m \in 0 .. n PROVE T[m] < T[l] <=> m \in 0 .. l - 1
      <4>1. m < l \/ m = l \/ l < m
        OBVIOUS
      <4>2. m < l <=> m \in 0 .. l - 1
        OBVIOUS
      <4>3. T[m] \in Int /\ T[l] \in Int /\ (m < l => T[m] < T[l]) /\ (l < m => T[l] < T[m])
        BY <1>0, <1>1
      <4> QED
        BY <4>1, <4>2, <4>3
    <3>3. \A m \in 0 .. l - 1 : m \in 0 .. n
      BY <2>2
    <3>4. {j \in at : j < T[l]} = Values(T, l - 1)
      BY <3>2, <3>3 DEF Values
    <3>5. Cardinality(Values(T, l - 1)) = (l - 1) + 1
      BY <3>1, RisingCount
    <3> QED
      BY <3>1, <3>4, <3>5
  <2> QED
    BY <2>1, <2>2
<1> DEFINE P(i) == Cardinality({j \in at : j < i}) = k
<1>3. T[k] \in at /\ P(T[k])
  BY <1>2 DEF Values
<1>4. ASSUME NEW i \in at, P(i) PROVE i = T[k]
  <2>1. PICK l \in 0 .. n : i = T[l]
    BY DEF Values
  <2>2. Cardinality({j \in at : j < T[l]}) = l
    BY <1>2
  <2>3. l = k
    BY <1>4, <2>1, <2>2
  <2> QED
    BY <2>1, <2>3
<1> HIDE DEF P
<1>5. (CHOOSE i \in at : P(i)) = T[k]
  BY <1>3, <1>4
<1> QED
  BY <1>5 DEF P, Nth

\* The k-th turn reads the k-th line.
LEMMA TurnLine ==
    ASSUME NEW b, WholeLines(b), NEW s, s = TurnsPath(b), NEW k \in 1 .. Len(s) - 1
    PROVE  \E e \in s[k] .. Len(b) : Same(b, b, 0, s[k], e) /\ s[k + 1] = e + 1
<1>1. s[k] \in 1 .. Len(b) /\ Walk(s, TurnsNext(b), 1)
  BY TurnsWalk
<1>2. s[k + 1] = TurnsNext(b)[s[k]]
  BY <1>1 DEF Walk
<1>3. PICK e \in s[k] .. Len(b) : Same(b, b, 0, s[k], e) /\ TurnsNext(b)[s[k]] = e + 1
  BY <1>1, OwnTurn
<1> QED
  BY <1>2, <1>3

\* Where the lines end, and the two ends of the text.
Cuts(b, s) == [k \in 0 .. Len(s) |-> IF k = Len(s) THEN Len(b) + 1 ELSE s[k + 1] - 1]

LEMMA CutsFacts ==
    ASSUME NEW b, WholeLines(b), NEW s, s = TurnsPath(b), NEW T, T = Cuts(b, s)
    PROVE  /\ Len(s) \in Nat \ {0} /\ Rising(T, Len(s))
           /\ \A k \in 0 .. Len(s) - 1 : T[k] = s[k + 1] - 1
           /\ {i \in DOMAIN b : b[i] \in {NewLine}} \cup {0, Len(b) + 1} = Values(T, Len(s))
<1> DEFINE l == Len(s)
           n == Len(b)
<1>1. /\ s \in Seq(Nat) /\ l \in Nat \ {0} /\ s[1] = 1 /\ s[l] = n + 1
      /\ \A k \in 1 .. l - 1 : s[k] \in 1 .. n
  BY TurnsWalk
<1>2. n \in Nat /\ DOMAIN b = 1 .. n
  BY WholeLinesFacts
<1>3. T = [k \in 0 .. l |-> IF k = l THEN n + 1 ELSE s[k + 1] - 1]
  BY DEF Cuts
<1>4. \A k \in 1 .. l - 1 : \E e \in s[k] .. n : Same(b, b, 0, s[k], e) /\ s[k + 1] = e + 1
  BY TurnLine
<1> HIDE DEF l, n
<1>5. T[l] = n + 1 /\ \A k \in 0 .. l - 1 : T[k] = s[k + 1] - 1
  BY <1>1, <1>3
<1>6. T[0] = 0 /\ T[l - 1] = n
  <2>1. 0 \in 0 .. l - 1 /\ l - 1 \in 0 .. l - 1 /\ (l - 1) + 1 = l
    BY <1>1
  <2>2. T[0] = s[0 + 1] - 1 /\ T[l - 1] = s[l] - 1
    BY <1>5, <2>1
  <2> QED
    BY <1>1, <1>2, <2>2
<1>7. ASSUME NEW k \in 1 .. l - 1
      PROVE  /\ T[k - 1] \in Int /\ T[k] \in Int /\ T[k - 1] < T[k]
             /\ T[k] \in 1 .. n /\ b[T[k]] = NewLine
             /\ \A i \in T[k - 1] + 1 .. T[k] - 1 : b[i] # NewLine
  <2>1. PICK e \in s[k] .. n : Same(b, b, 0, s[k], e) /\ s[k + 1] = e + 1
    BY <1>4
  <2>2. s[k] \in 1 .. n /\ k - 1 \in 0 .. l - 1 /\ k \in 0 .. l - 1 /\ (k - 1) + 1 = k
    BY <1>1
  <2>3. T[k - 1] = s[k] - 1 /\ T[k] = s[k + 1] - 1
    BY <1>5, <2>2
  <2>4. T[k - 1] + 1 = s[k] /\ T[k] = e
    BY <1>2, <2>1, <2>2, <2>3
  <2>5. b[e] = NewLine /\ \A i \in s[k] .. e - 1 : b[i] # NewLine
    BY <2>1, SameFacts
  <2> QED
    BY <1>2, <2>1, <2>2, <2>3, <2>4, <2>5
<1>8. Rising(T, l)
  <2> SUFFICES ASSUME NEW k \in 0 .. l PROVE T[k] \in Int /\ (k # l => T[k] < T[k + 1])
    BY DEF Rising
  <2>1. CASE k = l
    BY <1>2, <1>5, <2>1
  <2>2. CASE k = l - 1
    <3>1. k + 1 = l
      BY <1>1, <2>2
    <3> QED
      BY <1>2, <1>5, <1>6, <2>2, <3>1
  <2>3. CASE k # l /\ k # l - 1
    <3> DEFINE j == k + 1
    <3>1. j \in 1 .. l - 1 /\ j - 1 = k
      BY <1>1, <2>3
    <3> HIDE DEF j
    <3>2. T[j - 1] \in Int /\ T[j] \in Int /\ T[j - 1] < T[j]
      BY <1>7, <3>1
    <3> QED
      BY <3>1, <3>2 DEF j
  <2> QED
    BY <2>1, <2>2, <2>3
<1> DEFINE at == {i \in DOMAIN b : b[i] \in {NewLine}} \cup {0, n + 1}
<1>9. ASSUME NEW k \in 0 .. l PROVE T[k] \in at
  <2>1. CASE k = l
    BY <1>5, <2>1
  <2>2. CASE k = 0
    BY <1>6, <2>2
  <2>3. CASE k # l /\ k # 0
    <3>1. k \in 1 .. l - 1
      BY <1>1, <2>3
    <3> QED
      BY <1>2, <1>7, <3>1
  <2> QED
    BY <2>1, <2>2, <2>3
<1>10. ASSUME NEW i \in 1 .. n, b[i] = NewLine PROVE i \in Values(T, l)
  <2> DEFINE G == {k \in 0 .. l - 1 : i <= T[k]}
  <2>1. l - 1 \in G /\ G \in SUBSET Nat
    BY <1>1, <1>2, <1>6
  <2> HIDE DEF G
  <2>2. PICK k \in G : \A j \in G : k <= j
    BY <2>1, LeastNumber
  <2>3. k \in 0 .. l - 1 /\ i <= T[k] /\ k # 0
    BY <1>6, <2>2 DEF G
  <2>4. k \in 1 .. l - 1 /\ k - 1 \in 0 .. l - 1 /\ ~(k <= k - 1)
    BY <1>1, <2>3
  <2>5. ~(i <= T[k - 1])
    BY <2>2, <2>4 DEF G
  <2>6. i = T[k]
    <3>1. /\ T[k - 1] \in Int /\ T[k] \in Int
          /\ \A q \in T[k - 1] + 1 .. T[k] - 1 : b[q] # NewLine
      BY <1>7, <2>4
    <3>2. i \notin T[k - 1] + 1 .. T[k] - 1
      BY <1>10, <3>1
    <3> QED
      BY <1>2, <2>3, <2>5, <3>1, <3>2
  <2> QED
    BY <1>1, <2>4, <2>6 DEF Values
<1>11. at = Values(T, l)
  <2>1. \A x \in Values(T, l) : x \in at
    BY <1>9 DEF Values
  <2>2. 0 \in Values(T, l) /\ n + 1 \in Values(T, l)
    BY <1>1, <1>5, <1>6 DEF Values
  <2>3. \A x \in at : x \in Values(T, l)
    BY <1>2, <1>10, <2>2
  <2> HIDE DEF at
  <2> QED
    BY <2>1, <2>3
<1> QED
  BY <1>1, <1>5, <1>8, <1>11 DEF l, n

\* x has the lines that start at the places of s.
PiecesOf(x, b, s) ==
    /\ Len(x) = Len(s) - 1
    /\ \A k \in 1 .. Len(s) - 1 : x[k] = Piece(b, s[k], s[k + 1] - 2)

\* The lines are what stands between two cuts, without the last that is empty.
LEMMA LinesOf ==
    ASSUME NEW b, WholeLines(b), NEW s, s = TurnsPath(b), NEW x, x = Front(Split(b, {NewLine}))
    PROVE  PiecesOf(x, b, s)
<1> DEFINE T == Cuts(b, s)
           l == Len(s)
           at == {i \in DOMAIN b : b[i] \in {NewLine}} \cup {0, Len(b) + 1}
           Cut(k) == Nth(at, k)
           y == [k \in 1 .. Cardinality(at) - 1 |-> Piece(b, Cut(k - 1) + 1, Cut(k) - 1)]
<1>1. l \in Nat \ {0} /\ Rising(T, l) /\ at = Values(T, l) /\ \A k \in 0 .. l - 1 : T[k] = s[k + 1] - 1
  BY CutsFacts
<1>2. Split(b, {NewLine}) = y
  BY DEF Split, Piece
<1> HIDE DEF T, l, at
<1>3. \A k \in 0 .. l : Cut(k) = T[k]
  BY <1>1, RisingChoice
<1> HIDE DEF Cut
<1>4. Cardinality(at) = l + 1
  <2>1. l \in Nat /\ l \in 0 .. l
    BY <1>1
  <2>2. Cardinality(Values(T, l)) = l + 1
    BY <1>1, <2>1, RisingCount
  <2> QED
    BY <1>1, <2>2
<1>5. y = [k \in 1 .. l |-> Piece(b, Cut(k - 1) + 1, Cut(k) - 1)]
  <2>1. Cardinality(at) - 1 = l
    BY <1>1, <1>4
  <2> QED
    BY <2>1
<1> HIDE DEF y
<1>6. ASSUME NEW k \in 1 .. l - 1 PROVE y[k] = Piece(b, s[k], s[k + 1] - 2)
  <2>1. k \in 1 .. l /\ k - 1 \in 0 .. l /\ k \in 0 .. l /\ k - 1 \in 0 .. l - 1 /\ k \in 0 .. l - 1
        /\ (k - 1) + 1 = k
    BY <1>1
  <2>2. Cut(k - 1) = s[k] - 1 /\ Cut(k) = s[k + 1] - 1
    BY <1>1, <1>3, <2>1
  <2>3. s \in Seq(Nat) /\ k \in 1 .. Len(s) /\ k + 1 \in 1 .. Len(s)
    BY <1>1, TurnsWalk DEF l
  <2>4. s[k] \in Nat /\ s[k + 1] \in Nat
    BY <2>3, ElementOfSeq
  <2>5. Cut(k - 1) + 1 = s[k] /\ Cut(k) - 1 = s[k + 1] - 2
    BY <2>2, <2>4
  <2>6. y[k] = Piece(b, Cut(k - 1) + 1, Cut(k) - 1)
    BY <1>5, <2>1
  <2> QED
    BY <2>5, <2>6
<1>7. Len(x) = l - 1 /\ \A k \in 1 .. l - 1 : x[k] = y[k]
  <2> DEFINE V == {y[k] : k \in 1 .. l}
  <2>0. DOMAIN y = 1 .. l /\ y = [k \in 1 .. l |-> y[k]]
    BY <1>5
  <2>1. y \in Seq(V) /\ Len(y) = l
    BY <1>1, <2>0
  <2> HIDE DEF V
  <2>2. x = SubSeq(y, 1, l - 1)
    BY <1>2, <2>1 DEF Front
  <2>3. 1 \in Nat \ {0} /\ l - 1 \in Nat /\ 1 <= (l - 1) + 1 /\ l - 1 <= Len(y)
    BY <1>1, <2>1
  <2>4. /\ Len(SubSeq(y, 1, l - 1)) = (l - 1) - 1 + 1
        /\ \A i \in 1 .. (l - 1) - 1 + 1 : SubSeq(y, 1, l - 1)[i] = y[1 + i - 1]
    BY <2>1, <2>3, SubSeqFacts
  <2>5. (l - 1) - 1 + 1 = l - 1 /\ \A i \in 1 .. l - 1 : 1 + i - 1 = i
    BY <1>1
  <2> QED
    BY <2>2, <2>4, <2>5
<1> QED
  BY <1>6, <1>7 DEF l, PiecesOf

\* A line on its own is read in one turn.
LEMMA OneTurn ==
    ASSUME NEW c \in Seq(Char), NEW n \in Nat \ {0}, Len(c) = n, c[n] = NewLine,
           \A i \in 1 .. n - 1 : c[i] # NewLine
    PROVE  /\ Ended(c) /\ Same(c, c, 0, 1, n)
           /\ \A v : Turn(c, 1).val = v => Turns(c) = <<v>>
<1>1. Ended(c)
  BY DEF Ended
<1>2. Same(c, c, 0, 1, n)
  BY DEF Same
<1> DEFINE s == TurnsPath(c)
<1>3. /\ Len(s) \in Nat \ {0} /\ s[1] = 1 /\ s[Len(s)] = Len(c) + 1
      /\ \A k \in 1 .. Len(s) - 1 : s[k] \in 1 .. Len(c)
      /\ Walk(s, TurnsNext(c), 1)
  BY <1>1, TurnsWalk DEF WholeLines
<1>4. TurnsNext(c)[1] = n + 1
  BY <1>1, <1>2, TurnToEnd
<1> HIDE DEF s
<1>5. Len(s) = 2
  <2>1. Len(s) # 1
    BY <1>3
  <2>2. s[1 + 1] = TurnsNext(c)[s[1]]
    BY <1>3, <2>1 DEF Walk
  <2>3. s[2] = n + 1
    BY <1>3, <1>4, <2>2
  <2>4. ~(2 \in 1 .. Len(s) - 1)
    BY <1>3, <2>3
  <2> DEFINE l == Len(s)
  <2>5. l \in Nat \ {0} /\ l # 1 /\ ~(2 <= l - 1)
    BY <1>3, <2>1, <2>4
  <2> HIDE DEF l
  <2>6. l = 2
    BY <2>5
  <2> QED
    BY <2>6 DEF l
<1>6. Turns(c) = ReadAt(c, s)
  BY TurnsIs DEF s
<1>7. ASSUME NEW v, Turn(c, 1).val = v PROVE Turns(c) = <<v>>
  <2>1. ReadAt(c, s) = [k \in 1 .. 1 |-> Turn(c, s[k]).val]
    BY <1>5 DEF ReadAt
  <2>2. \A k \in 1 .. 1 : Turn(c, s[k]).val = v
    BY <1>3, <1>7
  <2> QED
    BY <1>6, <2>1, <2>2
<1> QED
  BY <1>1, <1>2, <1>7

IsLine(text) == text \in Seq(Char) /\ \A i \in 1 .. Len(text) : text[i] # NewLine

\* A line of a text, with a newline behind it, is read as it is there.
LEMMA LineAlone ==
    ASSUME NEW b, WholeLines(b), NEW s, s = TurnsPath(b), NEW k \in 1 .. Len(s) - 1
    PROVE  /\ IsLine(Piece(b, s[k], s[k + 1] - 2))
           /\ Ended(Append(Piece(b, s[k], s[k + 1] - 2), NewLine))
           /\ Turns(Append(Piece(b, s[k], s[k + 1] - 2), NewLine)) = <<Turn(b, s[k]).val>>
<1> DEFINE p == s[k]
<1>1. p \in 1 .. Len(b) /\ Len(b) \in Nat /\ b \in Seq(Char)
  BY WholeLinesFacts, TurnsWalk
<1>2. PICK e \in p .. Len(b) : Same(b, b, 0, p, e) /\ s[k + 1] = e + 1
  BY TurnLine
<1> HIDE DEF p
<1>3. e \in Nat /\ p \in Nat \ {0} /\ p <= e /\ e <= Len(b) /\ s[k + 1] - 2 = e - 1
  BY <1>1, <1>2
<1>4. b[e] = NewLine /\ \A i \in p .. e - 1 : b[i] # NewLine
  BY <1>2 DEF Same
<1> DEFINE n == e - p + 1
           text == SubSeq(b, p, e - 1)
           c == Append(text, NewLine)
<1>5. n \in Nat \ {0} /\ p + n - 1 = e /\ n - 1 = (e - 1) - p + 1
  BY <1>3
<1> HIDE DEF n
<1>6. /\ text \in Seq(Char) /\ Len(text) = n - 1
      /\ \A i \in 1 .. n - 1 : text[i] = b[p + i - 1]
  <2>1. e - 1 \in Nat /\ p <= (e - 1) + 1 /\ e - 1 <= Len(b)
    BY <1>3
  <2> QED
    BY <1>1, <1>3, <1>5, <2>1, SubSeqFacts
<1> HIDE DEF text
<1>7. /\ c \in Seq(Char) /\ Len(c) = n /\ c[n] = NewLine
      /\ \A i \in 1 .. n - 1 : c[i] = b[p + i - 1]
  <2>1. NewLine \in Char
    BY DEF Char
  <2> QED
    BY <1>5, <1>6, <2>1
<1> HIDE DEF c
<1>8. \A i \in 1 .. n : b[p - 1 + i] = c[i]
  <2> TAKE i \in 1 .. n
  <2>1. p - 1 + i = p + i - 1 /\ (i = n \/ i \in 1 .. n - 1)
    BY <1>3, <1>5
  <2>2. CASE i = n
    BY <1>4, <1>5, <1>7, <2>1, <2>2
  <2>3. CASE i \in 1 .. n - 1
    BY <1>7, <2>1, <2>3
  <2> QED
    BY <2>1, <2>2, <2>3
<1>9. \A i \in 1 .. n - 1 : c[i] # NewLine
  <2> TAKE i \in 1 .. n - 1
  <2>1. p + i - 1 \in p .. e - 1
    BY <1>3, <1>5
  <2> QED
    BY <1>4, <1>7, <2>1
<1>10. Same(b, c, p - 1, 1, n)
  <2>1. p - 1 \in Nat /\ n \in Nat /\ 1 \in 1 .. n /\ n <= Len(c) /\ p - 1 + n <= Len(b)
    BY <1>3, <1>5, <1>7
  <2> QED
    BY <1>1, <1>7, <1>8, <1>9, <2>1 DEF Same
<1>11. Ended(c) /\ \A v : Turn(c, 1).val = v => Turns(c) = <<v>>
  BY <1>5, <1>7, <1>9, OneTurn
<1>12. Ended(b)
  <2>1. Len(b) # 0
    BY <1>1
  <2> QED
    BY <2>1, WholeLinesFacts
<1>13. Turn(c, 1).val = Turn(b, p).val
  <2>1. Turn(b, p - 1 + 1).val = Turn(c, 1).val
    BY <1>10, <1>11, <1>12, TurnToEnd
  <2>2. p - 1 + 1 = p
    BY <1>3
  <2> QED
    BY <2>1, <2>2
<1>14. Turns(c) = <<Turn(b, p).val>>
  BY <1>11, <1>13
<1>15. IsLine(text)
  <2>1. ASSUME NEW i \in 1 .. n - 1 PROVE text[i] # NewLine
    BY <1>6, <1>7, <1>9, <2>1
  <2> QED
    BY <1>6, <2>1 DEF IsLine
<1> QED
  BY <1>3, <1>11, <1>14, <1>15 DEF c, text, p, Piece

\* There is one turn for each line, and it reads what it would read from that
\* line alone.
Apart(read, x) ==
    /\ Len(read) = Len(x)
    /\ \A i \in DOMAIN read :
         IsLine(x[i]) /\ Ended(Append(x[i], NewLine)) /\ Turns(Append(x[i], NewLine)) = <<read[i]>>

LEMMA ReadApart ==
    ASSUME NEW b, WholeLines(b), NEW read, read = Turns(b), NEW x, x = Front(Split(b, {NewLine}))
    PROVE  Apart(read, x)
<1> DEFINE s == TurnsPath(b)
           l == Len(s) - 1
<1>0. s = TurnsPath(b)
  OBVIOUS
<1> HIDE DEF s
<1>1. l \in Nat /\ Len(x) = l /\ \A k \in 1 .. l : x[k] = Piece(b, s[k], s[k + 1] - 2)
  <2>0. PiecesOf(x, b, s)
    BY <1>0, LinesOf
  <2>1. Len(x) = Len(s) - 1 /\ \A k \in 1 .. Len(s) - 1 : x[k] = Piece(b, s[k], s[k + 1] - 2)
    BY <2>0, Zenon DEF PiecesOf
  <2>2. Len(s) \in Nat \ {0}
    BY <1>0, TurnsWalk
  <2>3. l \in Nat
    BY <2>2
  <2> QED
    BY <2>1, <2>3, Zenon
<1>2. \A k \in 1 .. l : /\ IsLine(Piece(b, s[k], s[k + 1] - 2))
                      /\ Ended(Append(Piece(b, s[k], s[k + 1] - 2), NewLine))
                      /\ Turns(Append(Piece(b, s[k], s[k + 1] - 2), NewLine)) = <<Turn(b, s[k]).val>>
  BY <1>0, LineAlone
<1>3. read = ReadAt(b, s)
  BY <1>0, TurnsIs
<1>4. read = [k \in 1 .. l |-> Turn(b, s[k]).val]
  BY <1>3 DEF ReadAt
<1> HIDE DEF l
<1>5. Len(read) = l /\ DOMAIN read = 1 .. l /\ \A k \in 1 .. l : read[k] = Turn(b, s[k]).val
  BY <1>1, <1>4
<1> QED
  BY <1>1, <1>2, <1>5 DEF Apart

-----------------------------------------------------------------------------
(* The blocks.                                                             *)

\* What parse_buffer has been given ends with a newline, and it has read from it
\* what it would have read from all of it in one buffer.
Seamless == WholeLines(parsed) /\ lines = Turns(parsed)

TextInv == rest \in Seq(Char) /\ buffer \in Seq(Char) /\ Seamless

\* What follows the first letters of a text is what it holds from there on.
LEMMA TailIs ==
    ASSUME NEW S, NEW r \in Seq(S), NEW q \in Seq(S), NEW m \in Nat \ {0},
           Len(r) = m - 1 + Len(q), \A k \in 1 .. Len(q) : r[m + k - 1] = q[k]
    PROVE  SubSeq(r, m, Len(r)) = q
<1> DEFINE n == Len(r)
           x == SubSeq(r, m, n)
<1>1. n \in Nat /\ Len(q) \in Nat /\ n = m - 1 + Len(q)
  OBVIOUS
<1>0. n = Len(r)
  OBVIOUS
<1> HIDE DEF n
<1>2. m <= n + 1 /\ n <= Len(r) /\ n - m + 1 = Len(q)
  BY <1>0, <1>1
<1>3. x \in Seq(S) /\ Len(x) = n - m + 1 /\ \A i \in 1 .. n - m + 1 : x[i] = r[m + i - 1]
  BY <1>1, <1>2, SubSeqFacts
<1> HIDE DEF x
<1>4. \A i \in 1 .. Len(q) : x[i] = q[i]
  BY <1>2, <1>3
<1>5. x = q
  BY <1>2, <1>3, <1>4, SeqEqual
<1> QED
  BY <1>0, <1>5 DEF x

LEMMA BehindConcat ==
    ASSUME NEW S, NEW p \in Seq(S), NEW q \in Seq(S), NEW r, r = p \o q
    PROVE  SubSeq(r, Len(p) + 1, Len(r)) = q
<1> DEFINE m == Len(p) + 1
<1>1. /\ r \in Seq(S) /\ Len(r) = Len(p) + Len(q) /\ Len(p) \in Nat /\ Len(q) \in Nat
      /\ \A k \in 1 .. Len(q) : r[Len(p) + k] = q[k]
  BY ConcatElements
<1>2. m \in Nat \ {0} /\ Len(r) = m - 1 + Len(q)
  BY <1>1
<1>3. ASSUME NEW k \in 1 .. Len(q) PROVE r[m + k - 1] = q[k]
  <2>1. m + k - 1 = Len(p) + k
    BY <1>1
  <2> QED
    BY <1>1, <2>1
<1> HIDE DEF m
<1>4. SubSeq(r, m, Len(r)) = q
  BY <1>1, <1>2, <1>3, TailIs
<1> QED
  BY <1>4 DEF m

LEMMA NoTurns == Turns(<<>>) = <<>>
<1> DEFINE b == <<>>
           s == TurnsPath(b)
<1>1. WholeLines(b) /\ Len(b) = 0
  BY DEF WholeLines
<1>2. Len(s) \in Nat \ {0} /\ \A k \in 1 .. Len(s) - 1 : s[k] \in 1 .. Len(b)
  BY <1>1, TurnsWalk
<1>3. Turns(b) = ReadAt(b, s)
  BY TurnsIs
<1> HIDE DEF b, s
<1>4. Len(s) = 1
  <2>1. 1 \notin 1 .. Len(s) - 1
    BY <1>1, <1>2
  <2> DEFINE l == Len(s)
  <2>2. l \in Nat \ {0} /\ ~(1 <= l - 1)
    BY <1>2, <2>1
  <2> HIDE DEF l
  <2>3. l = 1
    BY <2>2
  <2> QED
    BY <2>3 DEF l
<1>5. ReadAt(b, s) = <<>>
  BY <1>4 DEF ReadAt
<1> QED
  BY <1>3, <1>5 DEF b

LEMMA FilesType == ShortFiles \subseteq Seq(Char) /\ LongFiles \subseteq Seq(Char)
<1>1. ASSUME NEW texts \in BoundedSeq(LineTexts, LineLimit)
      PROVE  FlattenSeq([i \in DOMAIN texts |-> Append(texts[i], NewLine)]) \in Seq(Char)
  <2>1. PICK n \in 0 .. LineLimit : texts \in [1 .. n -> LineTexts]
    BY DEF BoundedSeq, SeqOf
  <2>2. n \in Nat /\ DOMAIN texts = 1 .. n
    BY <2>1, LineAssumption
  <2>3. ASSUME NEW i \in 1 .. n PROVE Append(texts[i], NewLine) \in Seq(Char)
    <3> DEFINE text == texts[i]
    <3>1. text \in LineTexts
      BY <2>1
    <3> HIDE DEF text
    <3>2. text \in Seq(Letters) /\ Letters \subseteq Char /\ NewLine \in Char
      BY <3>1, LineAssumption DEF Char
    <3>3. Append(text, NewLine) \in Seq(Char)
      BY <3>2
    <3> QED
      BY <3>3 DEF text
  <2> DEFINE seqs == [i \in DOMAIN texts |-> Append(texts[i], NewLine)]
  <2>4. seqs \in Seq(Seq(Char))
    BY <2>2, <2>3
  <2> HIDE DEF seqs
  <2>5. FlattenSeq(seqs) \in Seq(Char)
    BY <2>4, FlattenType
  <2> QED
    BY <2>5 DEF seqs
<1>2. ASSUME NEW s \in Seq(Char) PROVE Front(s) \in Seq(Char)
  <2>1. CASE Len(s) = 0
    <3>1. Front(s) = <<>>
      BY <2>1 DEF Front
    <3> QED
      BY <3>1
  <2>2. CASE Len(s) # 0
    <3>1. 1 \in Nat \ {0} /\ Len(s) - 1 \in Nat /\ 1 <= (Len(s) - 1) + 1 /\ Len(s) - 1 <= Len(s)
      BY <2>2
    <3>2. SubSeq(s, 1, Len(s) - 1) \in Seq(Char)
      BY <3>1, SubSeqFacts
    <3> QED
      BY <3>2 DEF Front
  <2> QED
    BY <2>1, <2>2
<1>3. ASSUME NEW n \in 0 .. FileLimit, NEW f \in [1 .. n -> FileLetters \cup {NewLine}]
      PROVE  f \in Seq(Char)
  <2>1. n \in Nat /\ FileLetters \cup {NewLine} \subseteq Char
    BY FileAssumption DEF Char
  <2> QED
    BY <2>1
<1> QED
  BY <1>1, <1>2, <1>3 DEF LongFiles, ShortFiles

LEMMA TextInvInit == TextInit => Init /\ TextInv
<1> SUFFICES ASSUME TextInit PROVE Init /\ TextInv
  OBVIOUS
<1>1. Init /\ lines = <<>>
  BY FilesType DEF TextInit, Init, Start
<1>2. rest \in Seq(Char) /\ buffer = <<>> /\ parsed = <<>>
  BY <1>1 DEF Init, Start
<1> QED
  BY <1>1, <1>2, NoTurns DEF TextInv, Seamless, WholeLines

LEMMA TextInvStep == TextInv /\ [TextNext]_<<vars, lines>> => TextInv'
<1> SUFFICES ASSUME TextInv, [TextNext]_<<vars, lines>> PROVE TextInv'
  OBVIOUS
<1>0. rest \in Seq(Char) /\ buffer \in Seq(Char) /\ WholeLines(parsed) /\ lines = Turns(parsed)
      /\ Len(rest) \in Nat /\ Len(buffer) \in Nat /\ DOMAIN buffer = 1 .. Len(buffer)
  BY DEF TextInv, Seamless
<1>1. CASE HandOver
  <2>1. PICK k \in DOMAIN buffer : /\ IsLastNewLine(k)
                                   /\ parsed' = parsed \o SubSeq(buffer, 1, k)
                                   /\ buffer' = SubSeq(buffer, k + 1, Len(buffer))
    BY <1>1 DEF HandOver, ParseBuffer, Carry
  <2>2. rest' = rest /\ lines' = lines \o Turns(SubSeq(parsed', Len(parsed) + 1, Len(parsed')))
    BY <1>1 DEF HandOver, ParseBuffer
  <2> DEFINE X == SubSeq(buffer, 1, k)
             Y == SubSeq(buffer, k + 1, Len(buffer))
  <2>3. k \in 0 .. Len(buffer) /\ k \in Nat \ {0}
    BY <1>0, <2>1
  <2>4. X \in Seq(Char) /\ Y \in Seq(Char) /\ Len(X) = k /\ \A i \in 1 .. k : X[i] = buffer[i]
    BY <1>0, <2>3, CutFacts
  <2>5. parsed' = parsed \o X /\ buffer' = Y
    BY <2>1
  <2> HIDE DEF X, Y
  <2>6. Ended(X) /\ WholeLines(X)
    <3>1. X[k] = NewLine
      BY <2>1, <2>3, <2>4 DEF IsLastNewLine
    <3> QED
      BY <2>3, <2>4, <3>1 DEF Ended, WholeLines
  <2>7. WholeLines(parsed')
    BY <1>0, <2>5, <2>6, WholeLinesConcat
  <2>8. SubSeq(parsed', Len(parsed) + 1, Len(parsed')) = X
    BY <1>0, <2>4, <2>5, WholeLinesFacts, BehindConcat
  <2>9. Turns(parsed') = Turns(parsed) \o Turns(X)
    BY <1>0, <2>5, <2>6, TurnsConcat
  <2>10. lines' = Turns(parsed')
    BY <1>0, <2>2, <2>8, <2>9
  <2> QED
    BY <1>0, <2>2, <2>4, <2>5, <2>7, <2>10 DEF TextInv, Seamless
<1>2. CASE ReadFile /\ UNCHANGED lines
  <2>1. PICK n \in ReadSizes :
           IF Finished(n)
           THEN BreakLoop /\ UNCHANGED <<rest, buffer>>
           ELSE /\ buffer' = buffer \o EnsureNewLine(SubSeq(rest, 1, n))
                /\ rest' = SubSeq(rest, n + 1, Len(rest))
                /\ pc' = "parse"
    BY <1>2 DEF ReadFile
  <2>2. UNCHANGED <<parsed, lines>>
    BY <1>2 DEF ReadFile
  <2>3. n \in 0 .. Len(rest)
    BY <1>0 DEF ReadSizes
  <2>4. rest' \in Seq(Char) /\ buffer' \in Seq(Char)
    <3>1. CASE Finished(n)
      BY <1>0, <2>1, <3>1
    <3>2. CASE ~Finished(n)
      <4> DEFINE X == SubSeq(rest, 1, n)
                 Y == SubSeq(rest, n + 1, Len(rest))
      <4>1. X \in Seq(Char) /\ Y \in Seq(Char)
        BY <1>0, <2>3, CutFacts
      <4>2. buffer' = buffer \o EnsureNewLine(X) /\ rest' = Y
        BY <2>1, <3>2
      <4> HIDE DEF X, Y
      <4>3. NewLine \in Char
        BY DEF Char
      <4>4. EnsureNewLine(X) \in Seq(Char)
        BY <4>1, <4>3 DEF EnsureNewLine
      <4> QED
        BY <1>0, <4>1, <4>2, <4>4
    <3> QED
      BY <3>1, <3>2
  <2> QED
    BY <1>0, <2>2, <2>4 DEF TextInv, Seamless
<1>3. CASE ((LineTooLong \/ Done) /\ UNCHANGED lines) \/ UNCHANGED <<vars, lines>>
  <2>1. UNCHANGED <<rest, buffer, parsed, lines>>
    BY <1>3 DEF LineTooLong, Done, vars
  <2> QED
    BY <1>0, <2>1 DEF TextInv, Seamless
<1> QED
  BY <1>1, <1>2, <1>3 DEF TextNext

\* Whatever the blocks, parse_buffer makes of their lines what it would make of
\* all the text it was given if that stood in one buffer.
THEOREM SeamlessTheorem == TextSpec => []Seamless
<1>1. TextInv => Seamless
  BY DEF TextInv
<1> QED
  BY <1>1, TextInvInit, TextInvStep, PTL DEF TextSpec

\* No handler of parse_buffer reads on over the newline of its line, for every
\* file, every block size and every sequence of block sizes a callback returns.
THEOREM LinesApartTheorem == TextSpec => []LinesApart
<1>1. TextInv => LinesApart
  <2> SUFFICES ASSUME TextInv PROVE LinesApart
    OBVIOUS
  <2>1. WholeLines(parsed) /\ lines = Turns(parsed)
    BY DEF TextInv, Seamless
  <2> DEFINE x == Lines
  <2>2. x = Front(Split(parsed, {NewLine}))
    BY DEF Lines
  <2> HIDE DEF x
  <2>3. Apart(lines, x)
    BY <2>1, <2>2, ReadApart
  <2> QED
    BY <2>3, Zenon DEF LinesApart, Apart, x
<1> QED
  BY <1>1, TextInvInit, TextInvStep, PTL DEF TextSpec

\* With parse_buffer behind it, the block reader does what it does without: what
\* is proved of ObjReader holds of ObjText.
THEOREM TextReaderTheorem == TextSpec => Spec
<1>1. TextInit => Init
  BY TextInvInit
<1>2. [TextNext]_<<vars, lines>> => [Next]_vars
  BY DEF TextNext, HandOver, Next, vars
<1> QED
  BY <1>1, <1>2, PTL DEF TextSpec, Spec

\* The lines of a file that has been read to its end.
WholeFile == pc = "done" /\ LinesFit /\ ~shortReads => lines = Turns(Completed(file))

\* For every block size that the lines of the file fit in, what is made of the
\* file is what parse_buffer would make of all of it, its last line ended, in one
\* buffer: the size of the blocks makes no difference.
THEOREM WholeFileTheorem == TextSpec => []WholeFile
<1>1. CompleteWhenLinesFit /\ Seamless => WholeFile
  BY DEF CompleteWhenLinesFit, Seamless, WholeFile
<1> QED
  BY <1>1, TextReaderTheorem, CompleteTheorem, SeamlessTheorem, PTL
-----------------------------------------------------------------------------
(* Numbers and corners, as they are written.                                *)

LEMMA DigitValue == ASSUME NEW digit \in Digit PROVE ValueOf(digit) \in 0 .. 9
<1>1. PICK i \in 1 .. 10 : Digits[i] = digit
  BY DEF Digit, Digits, Range
<1>2. i - 1 \in 0 .. 9 /\ (i - 1) + 1 = i
  OBVIOUS
<1>3. \E d \in 0 .. 9 : Digits[d + 1] = digit
  BY <1>1, <1>2
<1> QED
  BY <1>3 DEF ValueOf

\* A function on 0 .. n that starts with v and goes on from each value to the next.
Counted(g, n, V, v, step) ==
    /\ g = [k \in 0 .. n |-> g[k]] /\ g[0] = v
    /\ \A k \in 1 .. n : k - 1 \in 0 .. n /\ g[k - 1] \in V /\ g[k] = step[k - 1][g[k - 1]]

LEMMA CountedFunction ==
    ASSUME NEW V, NEW v \in V, NEW step, IsStep(step, V), NEW n \in Nat
    PROVE  \E g : Counted(g, n, V, v, step)
<1>1. PICK h : IsRecursive(h, V, v, step)
  BY Recursion
<1>2. h[0] = v /\ \A k \in Nat : h[k] \in V /\ h[k + 1] = step[k][h[k]]
  BY <1>1 DEF IsRecursive
<1> DEFINE g == [k \in 0 .. n |-> h[k]]
<1>3. ASSUME NEW k \in 1 .. n
      PROVE  k - 1 \in 0 .. n /\ g[k - 1] \in V /\ g[k] = step[k - 1][g[k - 1]]
  <2>1. k - 1 \in Nat /\ k - 1 \in 0 .. n /\ (k - 1) + 1 = k
    OBVIOUS
  <2>2. h[k] = step[k - 1][h[k - 1]] /\ h[k - 1] \in V
    BY <1>2, <2>1
  <2>3. g[k - 1] = h[k - 1] /\ g[k] = h[k]
    BY <2>1
  <2> QED
    BY <2>1, <2>2, <2>3
<1>4. g = [k \in 0 .. n |-> g[k]] /\ g[0] = v
  BY <1>2
<1> HIDE DEF g
<1>5. Counted(g, n, V, v, step)
  BY <1>3, <1>4 DEF Counted
<1> QED
  BY <1>5

IsDecimal(g, digits) ==
    g = [k \in 0 .. Len(digits) |-> IF k = 0 THEN 0 ELSE 10 * g[k - 1] + ValueOf(digits[k])]
IsValue(g, digits) ==
    g = [k \in 0 .. Len(digits) |->
            IF k = 0 THEN 0 ELSE (10 * g[k - 1] + ValueOf(digits[k])) % IntModulus]

\* What num holds behind each digit.
LEMMA DecimalFacts ==
    ASSUME NEW digits \in Seq(Digit)
    PROVE  \E g : /\ Decimal(digits) \in Nat
                  /\ IsDecimal(g, digits) /\ Decimal(digits) = g[Len(digits)] /\ g[0] = 0
                  /\ \A k \in 1 .. Len(digits) :
                       g[k - 1] \in Nat /\ g[k] = 10 * g[k - 1] + ValueOf(digits[k])
<1> DEFINE n == Len(digits)
           step == [k \in Nat |-> [x \in Nat |-> IF k < n THEN 10 * x + ValueOf(digits[k + 1]) ELSE x]]
<1>1. n \in Nat /\ \A k \in 1 .. n : ValueOf(digits[k]) \in 0 .. 9
  BY DigitValue
<1>0. n = Len(digits)
  OBVIOUS
<1> HIDE DEF n
<1>2. ASSUME NEW k \in Nat, NEW x \in Nat
      PROVE  (IF k < n THEN 10 * x + ValueOf(digits[k + 1]) ELSE x) \in Nat
  <2>1. CASE k < n
    <3>1. ValueOf(digits[k + 1]) \in 0 .. 9
      BY <1>1, <2>1
    <3> QED
      BY <2>1, <3>1
  <2> QED
    BY <2>1
<1>3. IsStep(step, Nat)
  BY <1>2 DEF IsStep
<1>4. \A k \in Nat : \A x \in Nat : step[k][x] = IF k < n THEN 10 * x + ValueOf(digits[k + 1]) ELSE x
  OBVIOUS
<1> HIDE DEF step
<1>5. PICK h : Counted(h, n, Nat, 0, step)
  BY <1>1, <1>3, CountedFunction
<1>6. ASSUME NEW k \in 1 .. n
      PROVE  h[k - 1] \in Nat /\ h[k] = 10 * h[k - 1] + ValueOf(digits[k])
  <2>1. k - 1 \in Nat /\ k - 1 < n /\ (k - 1) + 1 = k
    BY <1>1
  <2>2. h[k - 1] \in Nat /\ h[k] = step[k - 1][h[k - 1]]
    BY <1>5 DEF Counted
  <2>3. step[k - 1][h[k - 1]] = 10 * h[k - 1] + ValueOf(digits[(k - 1) + 1])
    BY <1>4, <2>1, <2>2
  <2> QED
    BY <2>1, <2>2, <2>3
<1>7. IsDecimal(h, digits)
  <2>1. h = [k \in 0 .. n |-> h[k]] /\ h[0] = 0
    BY <1>5 DEF Counted
  <2>2. ASSUME NEW k \in 0 .. n PROVE h[k] = IF k = 0 THEN 0 ELSE 10 * h[k - 1] + ValueOf(digits[k])
    <3>1. k # 0 => k \in 1 .. n
      BY <1>1
    <3> QED
      BY <1>5, <1>6, <2>1, <3>1
  <2>3. h = [k \in 0 .. n |-> IF k = 0 THEN 0 ELSE 10 * h[k - 1] + ValueOf(digits[k])]
    BY <2>1, <2>2, Zenon
  <2> QED
    BY <1>0, <2>3 DEF IsDecimal
<1> DEFINE g == CHOOSE g : IsDecimal(g, digits)
<1>8. IsDecimal(g, digits)
  BY <1>7
<1>9. Decimal(digits) = g[n]
  BY <1>0 DEF Decimal, IsDecimal
<1> HIDE DEF g
<1>10. \A k \in 0 .. n : g[k] = IF k = 0 THEN 0 ELSE 10 * g[k - 1] + ValueOf(digits[k])
  BY <1>0, <1>8 DEF IsDecimal
<1>11. 0 \in 0 .. n /\ g[0] = 0
  BY <1>1, <1>10
<1> DEFINE E == {k \in Nat : k <= n => g[k] \in Nat}
<1>12. E = Nat
  <2>1. 0 \in E
    BY <1>11
  <2>2. ASSUME NEW k \in E PROVE k + 1 \in E
    <3>1. CASE k + 1 <= n
      <4>1. k + 1 \in 0 .. n /\ k + 1 # 0 /\ (k + 1) - 1 = k /\ k + 1 \in 1 .. n /\ g[k] \in Nat
        BY <1>1, <3>1
      <4>2. g[k + 1] = 10 * g[k] + ValueOf(digits[k + 1]) /\ ValueOf(digits[k + 1]) \in 0 .. 9
        BY <1>1, <1>10, <4>1
      <4>3. k + 1 \in Nat /\ g[k + 1] \in Nat
        BY <4>1, <4>2
      <4> QED
        BY <4>3
    <3>2. CASE ~ k + 1 <= n
      BY <3>2
    <3> QED
      BY <3>1, <3>2
  <2>3. E \in SUBSET Nat
    OBVIOUS
  <2> HIDE DEF E
  <2> QED
    BY <2>1, <2>2, <2>3, SetInduction
<1>13. ASSUME NEW k \in 1 .. n PROVE g[k - 1] \in Nat /\ g[k] = 10 * g[k - 1] + ValueOf(digits[k])
  <2>1. k \in 0 .. n /\ k # 0 /\ k - 1 \in Nat /\ k - 1 <= n
    BY <1>1
  <2> QED
    BY <1>10, <1>12, <2>1
<1>14. g[n] \in Nat
  <2>1. n \in Nat /\ n <= n
    BY <1>1
  <2> QED
    BY <1>12, <2>1
<1> QED
  BY <1>0, <1>8, <1>9, <1>11, <1>13, <1>14

LEMMA SmallRemainder ==
    ASSUME NEW n \in Nat \ {0}, NEW a \in 0 .. n - 1
    PROVE  a % n = a
  OBVIOUS

\* parse_int computes the number that the digits stand for if int can hold it.
LEMMA ValueIsDecimal ==
    ASSUME NEW digits \in Seq(Digit), Decimal(digits) < IntModulus
    PROVE  Decimal(digits) \in Nat /\ Value(digits) = Decimal(digits)
<1> DEFINE n == Len(digits)
<1>1. n \in Nat /\ \A k \in 1 .. n : ValueOf(digits[k]) \in 0 .. 9
  BY DigitValue
<1>2. PICK d : /\ IsDecimal(d, digits) /\ Decimal(digits) = d[n] /\ d[0] = 0
               /\ \A k \in 1 .. n : d[k - 1] \in Nat /\ d[k] = 10 * d[k - 1] + ValueOf(digits[k])
  BY DecimalFacts
<1>0. n = Len(digits) /\ IntModulus \in Nat \ {0}
  BY IntAssumption
<1> HIDE DEF n
<1>3. ASSUME NEW k \in 0 .. n PROVE d[k] \in Nat
  <2>1. CASE k = 0
    BY <1>2, <2>1
  <2>2. CASE k # 0
    <3>1. k \in 1 .. n
      BY <1>1, <2>2
    <3>2. d[k - 1] \in Nat /\ d[k] = 10 * d[k - 1] + ValueOf(digits[k])
      BY <1>2, <3>1
    <3>3. ValueOf(digits[k]) \in 0 .. 9
      BY <1>1, <3>1
    <3> QED
      BY <3>2, <3>3
  <2> QED
    BY <2>1, <2>2
<1>4. ASSUME NEW k \in 1 .. n PROVE d[k - 1] <= d[k]
  <2>1. d[k - 1] \in Nat /\ d[k] = 10 * d[k - 1] + ValueOf(digits[k]) /\ ValueOf(digits[k]) \in 0 .. 9
    BY <1>1, <1>2
  <2> QED
    BY <2>1
<1>5. \A k \in 0 .. n : d[k] <= d[n]
  <2> DEFINE E == {k \in Nat : k <= n => d[n - k] <= d[n]}
  <2>1. 0 \in E
    BY <1>1, <1>3
  <2>2. ASSUME NEW k \in E PROVE k + 1 \in E
    <3>1. CASE k + 1 <= n
      <4>1. n - k \in 1 .. n /\ n - k - 1 = n - (k + 1) /\ n - (k + 1) \in 0 .. n /\ n - k \in 0 .. n /\ n \in 0 .. n
        BY <1>1, <3>1
      <4>2. d[n - (k + 1)] <= d[n - k] /\ d[n - k] <= d[n]
        BY <1>1, <1>4, <3>1, <4>1
      <4>3. d[n - (k + 1)] \in Nat /\ d[n - k] \in Nat /\ d[n] \in Nat
        BY <1>3, <4>1
      <4> QED
        BY <4>2, <4>3
    <3> QED
      BY <3>1
  <2>3. E \in SUBSET Nat
    OBVIOUS
  <2> HIDE DEF E
  <2>4. E = Nat
    BY <2>1, <2>2, <2>3, SetInduction
  <2> TAKE k \in 0 .. n
  <2>5. n - k \in E /\ n - k <= n /\ n - (n - k) = k
    BY <1>1, <2>4
  <2> QED
    BY <2>5 DEF E
<1>6. ASSUME NEW k \in 0 .. n PROVE d[k] % IntModulus = d[k]
  <2>1. d[k] \in Nat /\ d[n] \in Nat /\ d[k] <= d[n] /\ d[n] < IntModulus
    <3>1. n \in 0 .. n
      BY <1>1
    <3> QED
      BY <1>2, <1>3, <1>5, <3>1
  <2>2. d[k] \in 0 .. IntModulus - 1
    BY <1>0, <2>1
  <2> QED
    BY <1>0, <2>2, SmallRemainder
<1>7. IsValue(d, digits)
  <2>1. d = [k \in 0 .. n |-> d[k]]
    BY <1>0, <1>2 DEF IsDecimal
  <2>2. ASSUME NEW k \in 0 .. n
        PROVE  d[k] = IF k = 0 THEN 0 ELSE (10 * d[k - 1] + ValueOf(digits[k])) % IntModulus
    <3>1. CASE k = 0
      BY <1>2, <3>1
    <3>2. CASE k # 0
      <4>1. k \in 1 .. n
        BY <1>1, <3>2
      <4>2. d[k] = 10 * d[k - 1] + ValueOf(digits[k]) /\ d[k] % IntModulus = d[k]
        BY <1>2, <1>6, <4>1
      <4> QED
        BY <3>2, <4>2
    <3> QED
      BY <3>1, <3>2
  <2>3. d = [k \in 0 .. n |-> IF k = 0 THEN 0 ELSE (10 * d[k - 1] + ValueOf(digits[k])) % IntModulus]
    BY <2>1, <2>2, Zenon
  <2> QED
    BY <1>0, <2>3 DEF IsValue
<1> DEFINE g == CHOOSE g : IsValue(g, digits)
<1>8. IsValue(g, digits)
  BY <1>7
<1>9. Value(digits) = g[n]
  BY <1>0 DEF Value, IsValue
<1> HIDE DEF g
<1>10. \A k \in 0 .. n : g[k] = IF k = 0 THEN 0 ELSE (10 * g[k - 1] + ValueOf(digits[k])) % IntModulus
  BY <1>0, <1>8 DEF IsValue
<1> DEFINE E == {k \in Nat : k <= n => g[k] = d[k]}
<1>11. E = Nat
  <2>1. 0 \in E
    BY <1>1, <1>2, <1>10
  <2>2. ASSUME NEW k \in E PROVE k + 1 \in E
    <3>1. CASE k + 1 <= n
      <4>1. k + 1 \in 0 .. n /\ k + 1 # 0 /\ (k + 1) - 1 = k /\ k + 1 \in 1 .. n /\ g[k] = d[k]
        BY <1>1, <3>1
      <4>2. g[k + 1] = (10 * d[k] + ValueOf(digits[k + 1])) % IntModulus
        BY <1>10, <4>1
      <4>3. d[k + 1] = 10 * d[k] + ValueOf(digits[k + 1])
        BY <1>2, <4>1
      <4> QED
        BY <1>6, <4>1, <4>2, <4>3
    <3> QED
      BY <3>1
  <2>3. E \in SUBSET Nat
    OBVIOUS
  <2> HIDE DEF E
  <2> QED
    BY <2>1, <2>2, <2>3, SetInduction
<1>12. g[n] = d[n] /\ d[n] \in Nat
  <2>1. n \in 0 .. n /\ n \in Nat /\ n <= n
    BY <1>1
  <2> QED
    BY <1>3, <1>11, <2>1
<1> QED
  BY <1>2, <1>9, <1>12

LEMMA NegativeRemainder ==
    ASSUME NEW n \in Nat \ {0}, NEW a \in 1 .. n - 1
    PROVE  (-a) % n = n - a
  OBVIOUS

\* The number n stands in b from p up to e, with a sign or without, and int can
\* hold it.
NumberAt(b, p, e, n) ==
    LET start == SkipOne(b, p, {"-"})
        size == Decimal(SubSeq(b, start, e - 1))
    IN  /\ e \in start .. Len(b)
        /\ b[e] \notin Digit /\ \A q \in start .. e - 1 : b[q] \in Digit
        /\ size < IntModulus \div 2
        /\ n = IF b[p] = "-" THEN -size ELSE size

\* parse_int reads it, and stops behind its last digit.
LEMMA NumberRead ==
    ASSUME NEW b \in Seq(Char), NEW p \in Nat \ {0}, NEW e, NEW n, NumberAt(b, p, e, n)
    PROVE  ParseInt(b, p) = Parsed(n, e) /\ n \in Int
<1> DEFINE start == SkipOne(b, p, {"-"})
           digits == SubSeq(b, start, e - 1)
           size == Decimal(digits)
           half == IntModulus \div 2
<1>1. /\ e \in start .. Len(b) /\ b[e] \notin Digit /\ \A q \in start .. e - 1 : b[q] \in Digit
      /\ size < half /\ n = IF b[p] = "-" THEN -size ELSE size
  BY DEF NumberAt
<1>2. start \in Nat \ {0} /\ (start = p <=> b[p] # "-")
  BY DEF SkipOne
<1>3. SkipWhile(b, start, Digit) = e
  <2>1. Range(b) = {b[q] : q \in 1 .. Len(b)} /\ Len(b) \in Nat
    BY DEF Range
  <2>2. b[e] \in Range(b) \ Digit /\ \A q \in start .. e - 1 : b[q] \notin Range(b) \ Digit
    BY <1>1, <1>2, <2>1
  <2> HIDE DEF start
  <2> QED
    BY <1>1, <1>2, <2>2, FirstIs DEF SkipWhile
<1>4. digits \in Seq(Digit)
  <2>1. /\ digits \in Seq(Char) /\ Len(digits) = e - 1 - start + 1
        /\ \A i \in 1 .. e - 1 - start + 1 : digits[i] = b[start + i - 1]
    <3>1. start <= e - 1 + 1 /\ e - 1 <= Len(b) /\ e - 1 \in Nat
      BY <1>1, <1>2
    <3> HIDE DEF start
    <3> QED
      BY <1>2, <3>1, SubSeqFacts
  <2>2. ASSUME NEW i \in 1 .. e - start PROVE digits[i] \in Digit
    <3>1. start + i - 1 \in start .. e - 1 /\ i \in 1 .. e - 1 - start + 1
      BY <1>1, <1>2
    <3> HIDE DEF start, digits
    <3> QED
      BY <1>1, <2>1, <3>1
  <2>3. e - start \in Nat /\ e - 1 - start + 1 = e - start
    BY <1>1, <1>2
  <2> HIDE DEF digits, start
  <2>4. Listed(digits, e - start)
    BY <2>1, <2>3 DEF Listed
  <2> QED
    BY <2>2, <2>3, <2>4, ListedType
<1>5. half \in Nat /\ IntModulus = 2 * half /\ IntModulus \in Nat \ {0}
  BY IntAssumption
<1> HIDE DEF half
<1>6. size \in Nat /\ Value(digits) = size /\ size < IntModulus
  <2> HIDE DEF digits
  <2>1. size < IntModulus
    <3>1. size \in Nat
      BY <1>4, DecimalFacts
    <3> HIDE DEF size
    <3> QED
      BY <1>1, <1>5, <3>1
  <2> QED
    BY <1>4, <2>1, ValueIsDecimal
<1>7. ParseInt(b, p) = Parsed(Signed((IF start = p THEN size ELSE -size) % IntModulus), e)
  BY <1>3, <1>6 DEF ParseInt
<1> HIDE DEF size, digits, start
<1>8. CASE b[p] # "-"
  <2>1. size % IntModulus = size
    BY <1>5, <1>6, SmallRemainder
  <2>2. Signed(size) = size
    BY <1>1, <1>5, <1>6 DEF Signed, half
  <2> QED
    BY <1>1, <1>2, <1>6, <1>7, <1>8, <2>1, <2>2
<1>9. CASE b[p] = "-"
  <2>1. Signed((-size) % IntModulus) = -size
    <3>1. CASE size = 0
      <4>1. 0 % IntModulus = 0
        <5>1. 0 \in 0 .. IntModulus - 1 /\ IntModulus \in Nat \ {0}
          BY <1>5
        <5> QED
          BY <5>1, SmallRemainder, Zenon
      <4>3. -size = 0
        <5>1. size \in Int /\ size <= 0 /\ size >= 0
          BY <1>6, <3>1
        <5> QED
          BY <5>1
      <4>2. Signed(0) = 0
        <5>1. half # 0
          BY <1>5
        <5> QED
          BY <1>5, <5>1 DEF Signed, half
      <4> QED
        BY <4>1, <4>2, <4>3
    <3>2. CASE size # 0
      <4>1. (-size) % IntModulus = IntModulus - size
        <5>1. size \in 1 .. IntModulus - 1
          BY <1>5, <1>6, <3>2
        <5> QED
          BY <1>5, <5>1, NegativeRemainder
      <4>2. ~(IntModulus - size < half)
        BY <1>1, <1>5, <1>6
      <4>3. Signed(IntModulus - size) = IntModulus - size - IntModulus
        BY <4>2 DEF Signed, half
      <4> QED
        BY <1>5, <1>6, <4>1, <4>3
    <3> QED
      BY <3>1, <3>2
  <2> QED
    BY <1>1, <1>2, <1>6, <1>7, <1>9, <2>1
<1> QED
  BY <1>8, <1>9

\* The corner c stands in b from p up to e, and nothing belongs to it there.
CornerWritten(b, p, e, c) ==
    /\ c = [p |-> c.p, t |-> c.t, n |-> c.n] /\ c.p # 0
    /\ b[e] \in Blank \cup {NewLine}
    /\ \/ NumberAt(b, p, e, c.p) /\ c.t = 0 /\ c.n = 0
       \/ \E f \in Nat : /\ NumberAt(b, p, f, c.p) /\ b[f] = "/" /\ b[f + 1] # "/"
                        /\ NumberAt(b, f + 1, e, c.t) /\ c.n = 0
       \/ \E f \in Nat : /\ NumberAt(b, p, f, c.p) /\ b[f] = "/" /\ b[f + 1] = "/"
                        /\ NumberAt(b, f + 2, e, c.n) /\ c.t = 0
       \/ \E f, g \in Nat : /\ NumberAt(b, p, f, c.p) /\ b[f] = "/" /\ b[f + 1] # "/"
                           /\ NumberAt(b, f + 1, g, c.t) /\ b[g] = "/"
                           /\ NumberAt(b, g + 1, e, c.n)

LEMMA NotSlash == "/" \notin Blank \cup {NewLine}
  BY Special DEF Blank

\* The fields of a corner, one after the other.
LEMMA CornerFields ==
    ASSUME NEW b, NEW p
    PROVE  LET v == ParseInt(b, p)
               t == IF b[v.next] = "/" THEN Texcoord(b, v.next + 1) ELSE Parsed(0, v.next)
               n == IF b[v.next] = "/" /\ b[t.next] = "/"
                    THEN ParseInt(b, t.next + 1) ELSE Parsed(0, t.next)
           IN  ParseCorner(b, p) = Parsed([p |-> v.val, t |-> t.val, n |-> n.val], n.next)
  BY DEF ParseCorner

\* parse_face reads a corner as it is written.
LEMMA CornerRead ==
    ASSUME NEW b \in Seq(Char), NEW p \in Nat \ {0}, NEW e, NEW c, CornerWritten(b, p, e, c)
    PROVE  ParseCorner(b, p) = Parsed(c, e)
<1> DEFINE v == ParseInt(b, p)
           t == IF b[v.next] = "/" THEN Texcoord(b, v.next + 1) ELSE Parsed(0, v.next)
           n == IF b[v.next] = "/" /\ b[t.next] = "/"
                THEN ParseInt(b, t.next + 1) ELSE Parsed(0, t.next)
<1>1. ParseCorner(b, p) = Parsed([p |-> v.val, t |-> t.val, n |-> n.val], n.next)
  BY CornerFields
<1>2. c = [p |-> c.p, t |-> c.t, n |-> c.n] /\ b[e] # "/"
  BY NotSlash DEF CornerWritten
<1>3. SUFFICES v.val = c.p /\ t.val = c.t /\ n.val = c.n /\ n.next = e
  BY <1>1, <1>2
<1> HIDE DEF v
<1>4. ASSUME NEW f, NumberAt(b, p, f, c.p) PROVE v.val = c.p /\ v.next = f
  BY <1>4, NumberRead DEF v, Parsed
<1>5. CASE NumberAt(b, p, e, c.p) /\ c.t = 0 /\ c.n = 0
  BY <1>2, <1>4, <1>5 DEF Parsed
<1>6. ASSUME NEW f \in Nat, NumberAt(b, p, f, c.p), b[f] = "/", b[f + 1] # "/",
             NumberAt(b, f + 1, e, c.t), c.n = 0
      PROVE  v.val = c.p /\ t.val = c.t /\ n.val = c.n /\ n.next = e
  <2>1. v.val = c.p /\ v.next = f
    BY <1>4, <1>6
  <2>2. ParseInt(b, f + 1) = Parsed(c.t, e)
    BY <1>6, NumberRead
  <2>3. t = Parsed(c.t, e)
    BY <1>6, <2>1, <2>2 DEF Texcoord
  <2> HIDE DEF t
  <2> QED
    BY <1>2, <1>6, <2>1, <2>3 DEF Parsed
<1>7. ASSUME NEW f \in Nat, NumberAt(b, p, f, c.p), b[f] = "/", b[f + 1] = "/",
             NumberAt(b, f + 2, e, c.n), c.t = 0
      PROVE  v.val = c.p /\ t.val = c.t /\ n.val = c.n /\ n.next = e
  <2>1. v.val = c.p /\ v.next = f
    BY <1>4, <1>7
  <2>2. ParseInt(b, f + 2) = Parsed(c.n, e) /\ (f + 1) + 1 = f + 2
    BY <1>7, NumberRead
  <2>3. t = Parsed(0, f + 1)
    BY <1>7, <2>1 DEF Texcoord
  <2> HIDE DEF t
  <2>4. t.val = 0 /\ t.next = f + 1
    BY <2>3 DEF Parsed
  <2>5. n = Parsed(c.n, e)
    BY <1>7, <2>1, <2>2, <2>4
  <2> QED
    BY <1>7, <2>1, <2>4, <2>5 DEF Parsed
<1>8. ASSUME NEW f \in Nat, NEW g \in Nat, NumberAt(b, p, f, c.p), b[f] = "/", b[f + 1] # "/",
             NumberAt(b, f + 1, g, c.t), b[g] = "/", NumberAt(b, g + 1, e, c.n)
      PROVE  v.val = c.p /\ t.val = c.t /\ n.val = c.n /\ n.next = e
  <2>1. v.val = c.p /\ v.next = f
    BY <1>4, <1>8
  <2>2. ParseInt(b, f + 1) = Parsed(c.t, g) /\ ParseInt(b, g + 1) = Parsed(c.n, e)
    BY <1>8, NumberRead
  <2>3. t = Parsed(c.t, g)
    BY <1>8, <2>1, <2>2 DEF Texcoord
  <2> HIDE DEF t
  <2>4. t.val = c.t /\ t.next = g
    BY <2>3 DEF Parsed
  <2>5. n = Parsed(c.n, e)
    BY <1>8, <2>1, <2>2, <2>4
  <2> QED
    BY <2>1, <2>4, <2>5 DEF Parsed
<1> HIDE DEF t, n
<1> QED
  BY <1>5, <1>6, <1>7, <1>8 DEF CornerWritten

LEMMA NoDigits == Decimal(<<>>) = 0
<1>1. <<>> \in Seq(Digit) /\ Len(<<>>) = 0
  OBVIOUS
<1> QED
  BY <1>1, DecimalFacts

\* A number that is not 0 has a digit.
LEMMA NumberSize ==
    ASSUME NEW b \in Seq(Char), NEW p \in Nat \ {0}, NEW e, NEW n, NumberAt(b, p, e, n)
    PROVE  e \in p .. Len(b) /\ (n # 0 => e # p /\ b[p] # NewLine)
<1> DEFINE start == SkipOne(b, p, {"-"})
           digits == SubSeq(b, start, e - 1)
<1>1. /\ e \in start .. Len(b) /\ \A q \in start .. e - 1 : b[q] \in Digit
      /\ n = IF b[p] = "-" THEN -Decimal(digits) ELSE Decimal(digits)
  BY DEF NumberAt
<1>2. start \in Nat /\ start >= p /\ (b[p] # "-" => start = p) /\ (b[p] = "-" => start = p + 1)
  BY DEF SkipOne
<1>3. ASSUME n # 0, e = p PROVE FALSE
  <2>1. start = p /\ b[p] # "-"
    BY <1>1, <1>2, <1>3
  <2>2. digits = <<>>
    <3>1. digits \in Seq(Char) /\ Len(digits) = e - 1 - start + 1
      <4>1. start \in Nat \ {0} /\ e - 1 \in Nat /\ start <= e - 1 + 1 /\ e - 1 <= Len(b)
        BY <1>1, <1>3, <2>1
      <4> HIDE DEF start
      <4> QED
        BY <4>1, SubSeqFacts
    <3> HIDE DEF digits, start
    <3>2. Len(digits) = 0
      BY <1>3, <2>1, <3>1
    <3> QED
      BY <3>1, <3>2
  <2> HIDE DEF digits, start
  <2> QED
    BY <1>1, <1>3, <2>1, <2>2, NoDigits
<1> HIDE DEF digits, start
<1>4. ASSUME n # 0, b[p] = NewLine PROVE FALSE
  <2>1. b[p] # "-" /\ e # p
    BY <1>3, <1>4, Special
  <2>2. p \in start .. e - 1
    BY <1>1, <1>2, <2>1
  <2> QED
    BY <1>1, <1>4, <2>2, Special
<1>5. e \in p .. Len(b)
  BY <1>1, <1>2
<1> QED
  BY <1>3, <1>4, <1>5

LEMMA CornerSize ==
    ASSUME NEW b \in Seq(Char), NEW p \in Nat \ {0}, NEW e, NEW c, CornerWritten(b, p, e, c)
    PROVE  e \in p + 1 .. Len(b) /\ b[p] # NewLine
<1>0. c.p # 0
  BY DEF CornerWritten
<1>1. ASSUME NEW f, NumberAt(b, p, f, c.p) PROVE f \in p + 1 .. Len(b) /\ b[p] # NewLine
  <2>1. f \in p .. Len(b) /\ f # p /\ b[p] # NewLine
    BY <1>0, <1>1, NumberSize
  <2> QED
    BY <2>1
<1>2. CASE NumberAt(b, p, e, c.p)
  BY <1>1, <1>2
<1>3. ASSUME NEW f, NumberAt(b, p, f, c.p), NEW d \in Nat \ {0}, NEW n, NumberAt(b, f + d, e, n)
      PROVE  e \in f .. Len(b) /\ e \in p + 1 .. Len(b) /\ b[p] # NewLine
  <2>1. f \in p + 1 .. Len(b) /\ b[p] # NewLine
    BY <1>1, <1>3
  <2>2. f + d \in Nat \ {0}
    BY <2>1
  <2>3. e \in f + d .. Len(b)
    BY <1>3, <2>2, NumberSize
  <2> QED
    BY <2>1, <2>3
<1>4. ASSUME NEW f, NumberAt(b, p, f, c.p), NEW g, NumberAt(b, f + 1, g, c.t), NumberAt(b, g + 1, e, c.n)
      PROVE  e \in p + 1 .. Len(b) /\ b[p] # NewLine
  <2>1. f \in p + 1 .. Len(b) /\ b[p] # NewLine
    BY <1>1, <1>4
  <2>2. f + 1 \in Nat \ {0}
    BY <2>1
  <2>3. g \in f + 1 .. Len(b)
    BY <1>4, <2>2, NumberSize
  <2>4. g + 1 \in Nat \ {0}
    BY <2>1, <2>3
  <2>5. e \in g + 1 .. Len(b)
    BY <1>4, <2>4, NumberSize
  <2> QED
    BY <2>1, <2>3, <2>5
<1>5. \/ NumberAt(b, p, e, c.p)
      \/ \E f, d : d \in {1, 2} /\ NumberAt(b, p, f, c.p)
                   /\ (NumberAt(b, f + d, e, c.t) \/ NumberAt(b, f + d, e, c.n))
      \/ \E f, g : /\ NumberAt(b, p, f, c.p) /\ NumberAt(b, f + 1, g, c.t)
                  /\ NumberAt(b, g + 1, e, c.n)
  BY Zenon DEF CornerWritten
<1> QED
  BY <1>1, <1>3, <1>4, <1>5

\* Nothing but blanks stands in b from p up to x.
BlankUpTo(b, p, x) == x \in p .. Len(b) /\ b[x] \notin Blank /\ \A q \in p .. x - 1 : b[q] \in Blank

LEMMA BlanksSkipped ==
    ASSUME NEW b \in Seq(Char), NEW p \in Nat \ {0}, NEW x, BlankUpTo(b, p, x)
    PROVE  SkipBlanks(b, p) = x
<1>1. Range(b) = {b[q] : q \in 1 .. Len(b)} /\ Len(b) \in Nat
  BY DEF Range
<1>2. x \in p .. Len(b) /\ b[x] \notin Blank /\ \A q \in p .. x - 1 : b[q] \in Blank
  BY DEF BlankUpTo
<1>3. b[x] \in Range(b) \ Blank /\ \A q \in p .. x - 1 : b[q] \notin Range(b) \ Blank
  BY <1>1, <1>2
<1> QED
  BY <1>2, <1>3, FirstIs DEF SkipBlanks, SkipWhile

\* From p to the newline, b holds the corners and blanks around them: the k-th
\* stands, behind blanks, between s[k] and s[k + 1].
FaceWritten(b, p, s, corners) ==
    /\ s \in Seq(Nat) /\ Len(corners) \in Nat /\ Len(s) = Len(corners) + 1 /\ s[1] = p
    /\ Listed(corners, Len(corners))
    /\ \A k \in 1 .. Len(corners) :
         \E x \in Nat : BlankUpTo(b, s[k], x) /\ CornerWritten(b, x, s[k + 1], corners[k])
    /\ \E x \in Nat : BlankUpTo(b, s[Len(s)], x) /\ b[x] = NewLine

LEMMA FaceStep ==
    ASSUME NEW b, Ended(b), NEW p \in 1 .. Len(b), NEW x \in Nat, BlankUpTo(b, p, x),
           NEW e, NEW c, CornerWritten(b, x, e, c)
    PROVE  /\ e \in p + 1 .. Len(b) /\ CornerAt(b, p).val = c
           /\ FaceNext(b)[p] = e
<1>1. b \in Seq(Char) /\ Len(b) \in Nat /\ DOMAIN b = 1 .. Len(b)
  BY DEF Ended
<1>2. x \in p .. Len(b) /\ x \in Nat \ {0}
  BY DEF BlankUpTo
<1>3. SkipBlanks(b, p) = x
  BY <1>1, BlanksSkipped
<1>4. ParseCorner(b, x) = Parsed(c, e)
  BY <1>1, <1>2, CornerRead
<1>5. e \in x + 1 .. Len(b) /\ b[x] # NewLine
  BY <1>1, <1>2, CornerSize
<1>6. CornerAt(b, p) = Parsed(c, e) /\ c.p # 0
  BY <1>3, <1>4 DEF CornerAt, CornerWritten
<1>7. CornerAt(b, p).val = c /\ CornerAt(b, p).next = e
  BY <1>6 DEF Parsed
<1>8. ~NoCornerAt(b, p)
  BY <1>3, <1>5, <1>6, <1>7 DEF NoCornerAt
<1>9. FaceNext(b)[p] = e
  BY <1>1, <1>7, <1>8 DEF FaceNext
<1> QED
  BY <1>1, <1>2, <1>5, <1>7, <1>9

\* parse_face reads the corners of such a line, all of them and no others.
LEMMA FaceRead ==
    ASSUME NEW b, Ended(b), NEW p \in 1 .. Len(b), NEW s, NEW corners, FaceWritten(b, p, s, corners)
    PROVE  ParseFace(b, p).val = [Nothing EXCEPT !.kind = "f", !.whole = TRUE, !.corners = corners]
<1> DEFINE n == Len(b)
           m == Len(corners)
           next == FaceNext(b)
           path == Path(next, p, n)
<1>0. n = Len(b) /\ m = Len(corners) /\ next = FaceNext(b) /\ path = Path(next, p, n)
  OBVIOUS
<1>1. b \in Seq(Char) /\ n \in Nat /\ DOMAIN b = 1 .. n
  BY DEF Ended
<1>2. Forward(next, n)
  BY FaceForward
<1> HIDE DEF n, m, next, path
<1>3. /\ s \in Seq(Nat) /\ m \in Nat /\ Len(s) = m + 1 /\ s[1] = p /\ Listed(corners, m)
      /\ \A k \in 1 .. m :
           \E x \in Nat : BlankUpTo(b, s[k], x) /\ CornerWritten(b, x, s[k + 1], corners[k])
  BY <1>0 DEF FaceWritten
<1>4. PICK z \in Nat : BlankUpTo(b, s[m + 1], z) /\ b[z] = NewLine
  BY <1>3 DEF FaceWritten
<1>5. ASSUME NEW k \in 1 .. m, s[k] \in 1 .. n
      PROVE  s[k + 1] \in s[k] + 1 .. n /\ CornerAt(b, s[k]).val = corners[k] /\ next[s[k]] = s[k + 1]
  <2>1. PICK x \in Nat : BlankUpTo(b, s[k], x) /\ CornerWritten(b, x, s[k + 1], corners[k])
    BY <1>3
  <2> DEFINE q == s[k]
             e == s[k + 1]
             c == corners[k]
  <2>2. q \in 1 .. Len(b) /\ BlankUpTo(b, q, x) /\ CornerWritten(b, x, e, c)
    BY <1>0, <1>5, <2>1
  <2> HIDE DEF q, e, c
  <2>3. e \in q + 1 .. Len(b) /\ CornerAt(b, q).val = c /\ FaceNext(b)[q] = e
    BY <2>2, FaceStep
  <2> QED
    BY <1>0, <2>3 DEF q, e, c
<1>6. \A k \in 1 .. m + 1 : s[k] \in 1 .. n
  <2> DEFINE E == {k \in Nat : k <= m => s[k + 1] \in 1 .. n}
  <2>1. 0 \in E
    BY <1>0, <1>3
  <2>2. ASSUME NEW k \in E PROVE k + 1 \in E
    <3>1. CASE k + 1 <= m
      <4>1. k + 1 \in 1 .. m /\ s[k + 1] \in 1 .. n
        BY <1>3, <3>1
      <4>2. s[k + 1 + 1] \in s[k + 1] + 1 .. n
        BY <1>5, <4>1
      <4> QED
        BY <1>1, <4>1, <4>2
    <3> QED
      BY <3>1
  <2>3. E \in SUBSET Nat
    OBVIOUS
  <2> HIDE DEF E
  <2>4. E = Nat
    BY <2>1, <2>2, <2>3, SetInduction
  <2> TAKE k \in 1 .. m + 1
  <2>5. k - 1 \in E /\ k - 1 <= m /\ (k - 1) + 1 = k
    BY <1>3, <2>4
  <2> QED
    BY <2>5 DEF E
<1>7. ASSUME NEW k \in 1 .. m
      PROVE  /\ CornerAt(b, s[k]).val = corners[k] /\ next[s[k]] = s[k + 1] /\ s[k + 1] # s[k]
  <2>1. s[k] \in 1 .. n
    BY <1>3, <1>6
  <2>2. s[k + 1] \in s[k] + 1 .. n /\ CornerAt(b, s[k]).val = corners[k] /\ next[s[k]] = s[k + 1]
    BY <1>5, <2>1
  <2> QED
    BY <1>1, <2>1, <2>2
<1>8. Walk(s, next, p)
  <2>1. Len(s) \in Nat \ {0} /\ Len(s) - 1 = m
    BY <1>3
  <2> QED
    BY <1>3, <1>7, <2>1 DEF Walk
<1>9. s[m + 1] \in 1 .. n /\ SkipBlanks(b, s[m + 1]) = z
  <2>1. s[m + 1] \in 1 .. n
    BY <1>3, <1>6
  <2>2. s[m + 1] \in Nat \ {0}
    BY <2>1
  <2> QED
    BY <1>1, <1>4, <2>1, <2>2, BlanksSkipped
<1>10. Ends(s, next)
  <2>1. NoCornerAt(b, s[m + 1])
    BY <1>4, <1>9 DEF NoCornerAt
  <2>2. next[s[m + 1]] = s[m + 1]
    BY <1>0, <1>1, <1>9, <2>1 DEF FaceNext
  <2> QED
    BY <1>3, <2>2 DEF Ends
<1>11. path \in Seq(Nat) /\ Walk(path, next, p) /\ Ends(path, next)
  <2>1. p \in 1 .. n /\ n >= n - 1
    BY <1>0, <1>1
  <2>2. path \in Seq(1 .. n) /\ Walk(path, next, p) /\ Ends(path, next)
    BY <1>0, <1>1, <1>2, <2>1, PathWalks
  <2>3. path \in Seq(Nat)
    BY <1>1, <2>2
  <2> QED
    BY <2>2, <2>3
<1>12. path = s
  BY <1>3, <1>8, <1>10, <1>11, OneWalk
<1>13. Last(path) = s[m + 1] /\ Len(path) - 1 = m
  BY <1>3, <1>12 DEF Last
<1>14. [k \in 1 .. Len(path) - 1 |-> CornerAt(b, path[k]).val] = corners
  <2>1. [k \in 1 .. m |-> CornerAt(b, s[k]).val] = [k \in 1 .. m |-> corners[k]]
    BY <1>7
  <2>2. [k \in 1 .. m |-> corners[k]] = corners
    BY <1>3 DEF Listed
  <2> QED
    BY <1>12, <1>13, <2>1, <2>2
<1>15. b[SkipBlanks(b, Last(path))] = NewLine
  BY <1>4, <1>9, <1>13
<1> DEFINE f == [k \in 1 .. Len(path) - 1 |-> CornerAt(b, path[k]).val]
           y == SkipBlanks(b, Last(path))
<1>16. ParseFace(b, p)
         = Parsed([Nothing EXCEPT !.kind = "f", !.whole = (b[y] = NewLine), !.corners = f],
                  IF b[y] = NewLine THEN y ELSE ParseCorner(b, y).next)
  BY DEF ParseFace, FaceAlong, FaceNext, path, next, n
<1> DEFINE whole == b[y] = NewLine
           end == IF whole THEN y ELSE ParseCorner(b, y).next
<1>17. f = corners /\ whole = TRUE
  BY <1>14, <1>15
<1>18. ParseFace(b, p)
         = Parsed([Nothing EXCEPT !.kind = "f", !.whole = whole, !.corners = f], end)
  BY <1>16
<1> HIDE DEF f, y, whole, end
<1>19. ParseFace(b, p)
         = Parsed([Nothing EXCEPT !.kind = "f", !.whole = TRUE, !.corners = corners], end)
  BY <1>17, <1>18, Zenon
<1> QED
  BY <1>19 DEF Parsed

LEMMA FaceCase ==
    ASSUME NEW b, NEW p, b[p] = "f", b[p + 1] \in {" ", "\t"}
    PROVE  Dispatch(b, p) = ParseFace(b, p + 2)
  BY DEF Dispatch, RollBack, Keywords

\* b is read in one turn, and that makes l of it.
ReadAs(b, l) == Turns(b) = <<l>>

LEMMA FirstTurn ==
    ASSUME NEW b, Ended(b), NEW l, ReadAs(b, l)
    PROVE  l = Turn(b, 1).val
<1> DEFINE t == TurnsPath(b)
<1>1. WholeLines(b)
  BY DEF WholeLines
<1>2. t[1] = 1
  BY <1>1, TurnsWalk
<1>3. Turns(b) = [k \in 1 .. Len(t) - 1 |-> Turn(b, t[k]).val]
  BY TurnsIs DEF ReadAt
<1> HIDE DEF t
<1>4. 1 \in 1 .. Len(t) - 1 /\ Turns(b)[1] = l
  <2> DEFINE x == <<l>>
             y == Turns(b)
  <2>1. DOMAIN x = 1 .. 1 /\ x[1] = l
    OBVIOUS
  <2>2. DOMAIN y = 1 .. Len(t) - 1
    BY <1>3
  <2>3. y = x
    BY DEF ReadAs
  <2> HIDE DEF x, y
  <2>4. 1 \in 1 .. Len(t) - 1 /\ y[1] = l
    BY <2>1, <2>2, <2>3
  <2> QED
    BY <2>4 DEF y
<1>5. Turns(b)[1] = Turn(b, t[1]).val
  BY <1>3, <1>4
<1> QED
  BY <1>2, <1>4, <1>5

\* The face line b holds these corners, behind blanks, the letter and a separator.
FaceLineWritten(b, corners) ==
    \E p \in Nat : /\ BlankUpTo(b, 1, p) /\ b[p] = "f" /\ b[p + 1] \in {" ", "\t"}
                  /\ \E s : FaceWritten(b, p + 2, s, corners)

LEMMA FaceLine ==
    ASSUME NEW b, Ended(b), NEW l, ReadAs(b, l), NEW corners, FaceLineWritten(b, corners)
    PROVE  l = [Nothing EXCEPT !.kind = "f", !.whole = TRUE, !.corners = corners]
<1>1. b \in Seq(Char) /\ Len(b) \in Nat
  BY DEF Ended
<1>2. PICK p \in Nat : /\ BlankUpTo(b, 1, p) /\ b[p] = "f" /\ b[p + 1] \in {" ", "\t"}
                      /\ \E s : FaceWritten(b, p + 2, s, corners)
  BY DEF FaceLineWritten
<1>3. PICK s : FaceWritten(b, p + 2, s, corners)
  BY <1>2
<1>4. p \in 1 .. Len(b) /\ SkipBlanks(b, 1) = p
  <2>1. p \in 1 .. Len(b)
    BY <1>2 DEF BlankUpTo
  <2>2. SkipBlanks(b, 1) = p
    <3> DEFINE q == 1
    <3>1. q \in Nat \ {0}
      OBVIOUS
    <3>2. BlankUpTo(b, q, p)
      BY <1>2
    <3> HIDE DEF q
    <3>3. SkipBlanks(b, q) = p
      BY <1>1, <3>1, <3>2, BlanksSkipped
    <3> QED
      BY <3>3 DEF q
  <2> QED
    BY <2>1, <2>2
<1>5. l = Turn(b, 1).val
  BY FirstTurn
<1>6. Turn(b, 1) = ParseFace(b, p + 2)
  BY <1>2, <1>4, FaceCase DEF Turn
<1>7. p + 2 \in 1 .. Len(b)
  <2>1. PICK x \in Nat : BlankUpTo(b, p + 2, x)
    <3>1. CASE Len(corners) = 0
      BY <1>3, <3>1 DEF FaceWritten
    <3>2. CASE Len(corners) # 0
      <4>1. Len(corners) \in Nat /\ s[1] = p + 2
        BY <1>3 DEF FaceWritten
      <4>2. 1 \in 1 .. Len(corners)
        BY <3>2, <4>1
      <4> QED
        BY <1>3, <4>1, <4>2 DEF FaceWritten
    <3> QED
      BY <3>1, <3>2
  <2>2. x \in p + 2 .. Len(b)
    BY <2>1 DEF BlankUpTo
  <2> QED
    BY <1>1, <2>2
<1>8. ParseFace(b, p + 2).val = [Nothing EXCEPT !.kind = "f", !.whole = TRUE, !.corners = corners]
  <2> DEFINE q == p + 2
  <2>1. q \in 1 .. Len(b) /\ FaceWritten(b, q, s, corners)
    BY <1>3, <1>7
  <2> HIDE DEF q
  <2>2. ParseFace(b, q).val = [Nothing EXCEPT !.kind = "f", !.whole = TRUE, !.corners = corners]
    BY <2>1, FaceRead
  <2> QED
    BY <2>2 DEF q
<1> QED
  BY <1>5, <1>6, <1>8, Zenon

-----------------------------------------------------------------------------
(* Words and fields, as AsWritten reads them.                               *)

\* The numbers of a set, from the least to the greatest.
LEMMA Enumerated ==
    ASSUME NEW m \in Nat, NEW at \in SUBSET (0 .. m), at # {}
    PROVE  \E n \in Nat : \E T : Rising(T, n) /\ at = Values(T, n)
<1> DEFINE Upto(l) == {i \in at : i <= l}
           Ordered(S) == S = {} \/ \E n \in Nat : \E T : Rising(T, n) /\ S = Values(T, n)
           E == {l \in Nat : Ordered(Upto(l))}
<1>0. \A i \in at : i \in Nat /\ i <= m
  OBVIOUS
<1>1. \A i \in Nat : Ordered({i})
  <2> TAKE i \in Nat
  <2> DEFINE T == [k \in {0} |-> i]
  <2>1. T[0] = i /\ 0 .. 0 = {0}
    OBVIOUS
  <2> HIDE DEF T
  <2>2. Rising(T, 0) /\ {i} = Values(T, 0)
    BY <2>1 DEF Rising, Values
  <2> QED
    BY <2>2
<1>2. ASSUME NEW S \in SUBSET Nat, Ordered(S), NEW i \in Nat, \A j \in S : j < i
      PROVE  Ordered(S \cup {i})
  <2>1. CASE S = {}
    BY <1>1, <2>1
  <2>2. ASSUME NEW n \in Nat, NEW T, Rising(T, n), S = Values(T, n) PROVE Ordered(S \cup {i})
    <3> DEFINE U == [k \in 0 .. n + 1 |-> IF k = n + 1 THEN i ELSE T[k]]
    <3>1. U[n + 1] = i /\ \A k \in 0 .. n : U[k] = T[k] /\ T[k] \in S /\ T[k] \in Int
      BY <2>2 DEF Values, Rising
    <3> HIDE DEF U
    <3>2. ASSUME NEW k \in 0 .. n + 1 PROVE k = n + 1 \/ (k \in 0 .. n /\ (k # n => k + 1 \in 0 .. n))
      OBVIOUS
    <3>3. ASSUME NEW k \in 0 .. n + 1 PROVE U[k] \in Int /\ (k # n + 1 => U[k] < U[k + 1])
      <4>1. CASE k = n + 1
        BY <3>1, <4>1
      <4>2. CASE k = n
        BY <1>2, <3>1, <4>2
      <4>3. CASE k # n /\ k # n + 1
        <5>1. k \in 0 .. n /\ k + 1 \in 0 .. n
          BY <3>2, <4>3
        <5>2. T[k] < T[k + 1]
          BY <2>2, <4>3, <5>1 DEF Rising
        <5> QED
          BY <3>1, <5>1, <5>2
      <4> QED
        BY <4>1, <4>2, <4>3
    <3>4. S \cup {i} = Values(U, n + 1)
      <4>1. n + 1 \in 0 .. n + 1 /\ \A k \in 0 .. n : k \in 0 .. n + 1
        OBVIOUS
      <4> QED
        BY <2>2, <3>1, <3>2, <4>1 DEF Values
    <3>5. Rising(U, n + 1) /\ n + 1 \in Nat
      BY <3>3 DEF Rising
    <3> QED
      BY <3>4, <3>5
  <2> QED
    BY <1>2, <2>1, <2>2
<1> HIDE DEF Ordered
<1>3. 0 \in E
  <2>0. \A i \in Upto(0) : i = 0
    BY <1>0
  <2>1. Upto(0) = {} \/ Upto(0) = {0}
    BY <2>0
  <2>2. Ordered({})
    BY DEF Ordered
  <2> QED
    BY <1>1, <2>1, <2>2
<1>9. ASSUME NEW l \in Nat
      PROVE  /\ Upto(l) \in SUBSET Nat /\ \A j \in Upto(l) : j < l + 1
             /\ Upto(l + 1) = IF l + 1 \in at THEN Upto(l) \cup {l + 1} ELSE Upto(l)
  <2>1. \A i \in at : i <= l + 1 <=> i <= l \/ i = l + 1
    BY <1>0
  <2>4. \A i \in at : i \in Nat /\ (i <= l => i < l + 1)
    BY <1>0
  <2>2. Upto(l) \in SUBSET Nat /\ \A j \in Upto(l) : j < l + 1
    BY <2>4, Zenon
  <2>3. \A i : i \in Upto(l + 1) <=> i \in Upto(l) \/ (i = l + 1 /\ i \in at)
    BY <2>1
  <2> HIDE DEF Upto
  <2> QED
    BY <2>2, <2>3
<1>4. ASSUME NEW l \in E PROVE l + 1 \in E
  <2>1. l \in Nat /\ Ordered(Upto(l)) /\ l + 1 \in Nat
    OBVIOUS
  <2> HIDE DEF Upto
  <2>2. Ordered(Upto(l + 1))
    <3>1. CASE l + 1 \in at
      <4>1. Upto(l + 1) = Upto(l) \cup {l + 1}
        BY <1>9, <2>1, <3>1
      <4>2. Upto(l) \in SUBSET Nat /\ \A j \in Upto(l) : j < l + 1
        BY <1>9, <2>1, Zenon
      <4>3. Ordered(Upto(l) \cup {l + 1})
        BY <1>2, <2>1, <4>2, Zenon
      <4> QED
        BY <4>1, <4>3, Zenon
    <3>2. CASE l + 1 \notin at
      <4>1. Upto(l + 1) = Upto(l)
        BY <1>9, <2>1, <3>2
      <4> QED
        BY <2>1, <4>1, Zenon
    <3> QED
      BY <3>1, <3>2
  <2> QED
    BY <2>1, <2>2
<1>5. E \in SUBSET Nat
  OBVIOUS
<1> HIDE DEF E
<1>6. E = Nat
  BY <1>3, <1>4, <1>5, SetInduction
<1>7. Upto(m) = at
  BY <1>0
<1>8. Ordered(at)
  BY <1>6, <1>7 DEF E
<1> QED
  BY <1>8 DEF Ordered

\* First finds the first, or the end.
LEMMA FirstFacts ==
    ASSUME NEW b \in Seq(Char), NEW p \in 1 .. Len(b) + 1, NEW S
    PROVE  /\ First(b, p, S) \in p .. Len(b) + 1
           /\ First(b, p, S) # Len(b) + 1 => b[First(b, p, S)] \in S
           /\ \A q \in p .. First(b, p, S) - 1 : b[q] \notin S
<1> DEFINE found == {q \in p .. Len(b) : b[q] \in S} \cup {Len(b) + 1}
           x == CHOOSE x \in found : \A y \in found : x <= y
<1>1. Len(b) \in Nat
  OBVIOUS
<1>2. found \in SUBSET Nat /\ found # {}
  BY <1>1
<1> HIDE DEF found
<1>3. \E y \in found : \A z \in found : y <= z
  BY <1>2, LeastNumber
<1>4. x \in found /\ \A y \in found : x <= y
  BY <1>3
<1>5. First(b, p, S) = x
  BY DEF First, Min, found
<1> HIDE DEF x
<1>6. x \in p .. Len(b) + 1 /\ (x # Len(b) + 1 => b[x] \in S)
  BY <1>1, <1>4 DEF found
<1>7. ASSUME NEW q \in p .. x - 1 PROVE b[q] \notin S
  <2>1. q \in p .. Len(b) /\ ~(x <= q)
    BY <1>1, <1>6
  <2>2. q \notin found
    BY <1>4, <2>1
  <2> QED
    BY <2>1, <2>2 DEF found
<1> QED
  BY <1>5, <1>6, <1>7

\* A word stands in text from i up to j.
InWord(text, i, j) ==
    /\ j \in i + 1 .. Len(text) + 1
    /\ \A q \in i .. j - 1 : text[q] \notin Blank
    /\ j # Len(text) + 1 => text[j] \in Blank
AllBlank(text, i, j) == j \in i .. Len(text) + 1 /\ \A q \in i .. j - 1 : text[q] \in Blank

\* The n words of text: the k-th from s[k] up to e[k], with blanks between them.
WordsAt(text, words, n, s, e) ==
    /\ n \in Nat /\ words = [k \in 1 .. n |-> Piece(text, s[k], e[k] - 1)]
    /\ e[0] = 1 /\ s[n + 1] = Len(text) + 1
    /\ \A k \in 1 .. n : s[k] \in 1 .. Len(text) /\ InWord(text, s[k], e[k])
    /\ \A k \in 0 .. n : AllBlank(text, e[k], s[k + 1])

\* Behind a blank, what is not blank until the next word starts.
LEMMA NoWordStarts ==
    ASSUME NEW text \in Seq(Char), NEW i \in 1 .. Len(text) + 1, NEW j \in i .. Len(text) + 1,
           i = 1 \/ (i # Len(text) + 1 => text[i] \in Blank),
           \A q \in i .. j - 1 : q \notin WordStarts(text)
    PROVE  AllBlank(text, i, j)
<1> DEFINE T == {q \in i .. j - 1 : text[q] \notin Blank}
<1>0. Len(text) \in Nat /\ DOMAIN text = 1 .. Len(text)
  OBVIOUS
<1>1. ASSUME T # {} PROVE FALSE
  <2>0. T \in SUBSET Nat
    BY <1>0
  <2> HIDE DEF T
  <2>1. PICK q \in T : \A r \in T : q <= r
    BY <1>1, <2>0, LeastNumber
  <2>2. q \in i .. j - 1 /\ text[q] \notin Blank /\ q \in DOMAIN text
    BY <1>0, <2>1 DEF T
  <2>3. q > 1 => text[q - 1] \in Blank
    <3> SUFFICES ASSUME q > 1 PROVE text[q - 1] \in Blank
      OBVIOUS
    <3>1. q # i
      BY <1>0, <2>2
    <3>2. q - 1 \in i .. j - 1 /\ ~(q <= q - 1)
      BY <1>0, <2>2, <3>1
    <3>3. q - 1 \notin T
      BY <2>1, <3>2
    <3> QED
      BY <3>2, <3>3 DEF T
  <2>4. q \in WordStarts(text)
    BY <2>2, <2>3 DEF WordStarts
  <2> QED
    BY <2>2, <2>4
<1> QED
  BY <1>1 DEF AllBlank

LEMMA WordsAre ==
    ASSUME NEW text \in Seq(Char)
    PROVE  \E n, s, e : WordsAt(text, Words(text), n, s, e)
<1> DEFINE l == Len(text)
           at == WordStarts(text)
           Begin(k) == Nth(at, k - 1)
           y == [k \in 1 .. Cardinality(at) |-> Piece(text, Begin(k), First(text, Begin(k), Blank) - 1)]
<1>1. l \in Nat /\ l = Len(text) /\ DOMAIN text = 1 .. l
  OBVIOUS
<1>2. Words(text) = y
  BY DEF Words, Piece
<1>3. /\ at \in SUBSET (0 .. l)
      /\ \A i \in at : i \in 1 .. l /\ text[i] \notin Blank /\ (i > 1 => text[i - 1] \in Blank)
      /\ at = WordStarts(text)
  BY <1>1 DEF WordStarts
<1> HIDE DEF l, at
<1>4. CASE at = {}
  <2> DEFINE s == [k \in {1} |-> l + 1]
             e == [k \in {0} |-> 1]
  <2>1. s[0 + 1] = l + 1 /\ e[0] = 1 /\ 0 .. 0 = {0} /\ 1 .. 0 = {}
    OBVIOUS
  <2> HIDE DEF s, e
  <2>2. Cardinality(at) = 0
    BY <1>4, FS_EmptySet
  <2>3. y = [k \in 1 .. 0 |-> Piece(text, s[k], e[k] - 1)]
    BY <2>1, <2>2
  <2> DEFINE i == 1
             j == l + 1
  <2>5. i \in 1 .. Len(text) + 1 /\ j \in i .. Len(text) + 1 /\ i = 1
    BY <1>1
  <2>6. \A q \in i .. j - 1 : q \notin WordStarts(text)
    BY <1>3, <1>4
  <2> HIDE DEF i, j
  <2>7. AllBlank(text, i, j)
    BY <2>5, <2>6, NoWordStarts
  <2>8. AllBlank(text, 1, l + 1)
    BY <2>7 DEF i, j
  <2>9. \A k \in 0 .. 0 : AllBlank(text, e[k], s[k + 1])
    BY <2>1, <2>8
  <2>10. WordsAt(text, y, 0, s, e)
    BY <1>1, <2>1, <2>3, <2>9 DEF WordsAt
  <2> QED
    BY <1>2, <2>10
<1>5. CASE at # {}
  <2>1. PICK m \in Nat : \E T : Rising(T, m) /\ at = Values(T, m)
    BY <1>1, <1>3, <1>5, Enumerated
  <2>2. PICK T : Rising(T, m) /\ at = Values(T, m)
    BY <2>1
  <2>3. \A k \in 0 .. m : Nth(at, k) = T[k] /\ T[k] \in at
    BY <2>2, RisingChoice DEF Values
  <2>4. \A k \in 0 .. m : \A j \in 0 .. m : k < j => T[k] < T[j]
    BY <2>2, RisingOrder
  <2>5. Cardinality(at) = m + 1
    <3>1. m \in 0 .. m
      OBVIOUS
    <3> QED
      BY <2>2, <3>1, RisingCount
  <2> DEFINE n == m + 1
             s == [k \in 1 .. n + 1 |-> IF k = n + 1 THEN l + 1 ELSE T[k - 1]]
             e == [k \in 0 .. n |-> IF k = 0 THEN 1 ELSE First(text, T[k - 1], Blank)]
  <2>6. n \in Nat \ {0} /\ \A k \in 1 .. n : k - 1 \in 0 .. m
    OBVIOUS
  <2>7. s[n + 1] = l + 1 /\ \A k \in 1 .. n : s[k] = T[k - 1]
    OBVIOUS
  <2>8. e[0] = 1 /\ \A k \in 1 .. n : e[k] = First(text, T[k - 1], Blank)
    OBVIOUS
  <2>9. Cardinality(at) = n /\ n = m + 1
    BY <2>5
  <2> HIDE DEF n, s, e
  <2>10. ASSUME NEW k \in 1 .. n
         PROVE  /\ s[k] \in at /\ s[k] \in 1 .. l /\ Begin(k) = s[k]
                /\ e[k] = First(text, s[k], Blank) /\ e[k] \in 1 .. l + 1
                /\ InWord(text, s[k], e[k])
    <3>1. s[k] \in at /\ Begin(k) = s[k] /\ e[k] = First(text, s[k], Blank)
      BY <2>3, <2>6, <2>7, <2>8
    <3>2. s[k] \in 1 .. l /\ text[s[k]] \notin Blank
      BY <1>3, <3>1
    <3>3. s[k] \in 1 .. Len(text) + 1
      BY <1>1, <3>2
    <3>4. /\ e[k] \in s[k] .. l + 1 /\ (e[k] # l + 1 => text[e[k]] \in Blank)
          /\ \A q \in s[k] .. e[k] - 1 : text[q] \notin Blank
      BY <1>1, <3>1, <3>3, FirstFacts
    <3>5. e[k] # s[k]
      BY <1>1, <3>2, <3>4
    <3>6. e[k] \in s[k] + 1 .. l + 1 /\ e[k] \in 1 .. l + 1
      BY <1>1, <3>2, <3>4, <3>5
    <3> QED
      BY <1>1, <3>1, <3>2, <3>4, <3>6 DEF InWord
  <2>11. y = [k \in 1 .. n |-> Piece(text, s[k], e[k] - 1)]
    <3>1. \A k \in 1 .. n : Begin(k) = s[k] /\ First(text, Begin(k), Blank) = e[k]
      BY <2>10
    <3>2. y = [k \in 1 .. n |-> Piece(text, Begin(k), First(text, Begin(k), Blank) - 1)]
      BY <2>9
    <3> HIDE DEF Start, y
    <3> QED
      BY <3>1, <3>2
  <2>12. ASSUME NEW k \in 0 .. n PROVE AllBlank(text, e[k], s[k + 1])
    <3>1. e[k] \in 1 .. l + 1 /\ (e[k] = 1 \/ (e[k] # l + 1 => text[e[k]] \in Blank))
      <4>1. CASE k = 0
        BY <1>1, <2>8, <4>1
      <4>2. CASE k # 0
        <5>1. k \in 1 .. n
          BY <4>2
        <5> QED
          BY <1>1, <2>10, <5>1 DEF InWord
      <4> QED
        BY <4>1, <4>2
    <3>2. s[k + 1] \in 1 .. l + 1
      <4>1. CASE k = n
        BY <1>1, <2>7, <4>1
      <4>2. CASE k # n
        <5>1. k + 1 \in 1 .. n
          BY <2>6, <4>2
        <5> QED
          BY <1>1, <2>10, <5>1
      <4> QED
        BY <4>1, <4>2
    <3>3. e[k] <= s[k + 1]
      <4>1. CASE k = n
        BY <1>1, <2>7, <3>1, <4>1
      <4>2. CASE k = 0
        BY <2>8, <3>2, <4>2
      <4>3. CASE k # 0 /\ k # n
        <5>1. k \in 1 .. n /\ k + 1 \in 1 .. n /\ (k + 1) - 1 = k /\ k - 1 \in 0 .. m /\ k \in 0 .. m
          BY <2>6, <2>9, <4>3
        <5>2. s[k] = T[k - 1] /\ s[k + 1] = T[k] /\ T[k - 1] < T[k]
          BY <2>4, <2>7, <5>1
        <5>3. s[k] \in 1 .. l /\ s[k + 1] \in 1 .. l /\ s[k + 1] \in at /\ s[k] < s[k + 1]
          BY <2>10, <5>1, <5>2
        <5>4. text[s[k + 1] - 1] \in Blank
          BY <1>1, <1>3, <5>3
        <5>5. s[k + 1] - 1 \notin s[k] .. e[k] - 1
          BY <2>10, <5>1, <5>4 DEF InWord
        <5> QED
          BY <1>1, <3>1, <5>3, <5>5
      <4> QED
        BY <4>1, <4>2, <4>3
    <3>4. ASSUME NEW q \in e[k] .. s[k + 1] - 1, q \in at PROVE FALSE
      <4>1. PICK j \in 0 .. m : q = T[j]
        BY <2>2, <3>4 DEF Values
      <4>2. j + 1 \in 1 .. n /\ (j + 1) - 1 = j
        BY <2>9
      <4>3. s[j + 1] = q
        BY <2>7, <4>1, <4>2
      <4>4. CASE k <= j
        <5>1. k + 1 \in 1 .. n /\ (k + 1) - 1 = k /\ k \in 0 .. m
          BY <2>9, <4>4
        <5>2. s[k + 1] = T[k] /\ (k = j \/ T[k] < T[j])
          BY <2>4, <2>7, <4>4, <5>1
        <5> QED
          BY <1>1, <3>1, <3>2, <4>1, <5>2
      <4>5. CASE j < k
        <5>1. k \in 1 .. n /\ k - 1 \in 0 .. m
          BY <2>6, <4>5
        <5>2. s[k] = T[k - 1] /\ (k - 1 = j \/ T[j] < T[k - 1])
          BY <2>4, <2>7, <4>5, <5>1
        <5>3. s[k] \in 1 .. l /\ e[k] \in s[k] + 1 .. l + 1
          BY <1>1, <2>10, <5>1 DEF InWord
        <5>4. q \in 1 .. l
          BY <1>3, <3>4
        <5> QED
          BY <1>1, <3>2, <4>1, <5>2, <5>3, <5>4
      <4> QED
        BY <2>6, <4>4, <4>5
    <3>5. s[k + 1] \in e[k] .. l + 1
      BY <1>1, <3>1, <3>2, <3>3
    <3> DEFINE i == e[k]
               j == s[k + 1]
    <3>6. i \in 1 .. Len(text) + 1 /\ j \in i .. Len(text) + 1
      BY <1>1, <3>1, <3>5
    <3>7. i = 1 \/ (i # Len(text) + 1 => text[i] \in Blank)
      BY <1>1, <3>1
    <3>8. \A q \in i .. j - 1 : q \notin WordStarts(text)
      BY <1>3, <3>4
    <3> HIDE DEF i, j
    <3>9. AllBlank(text, i, j)
      BY <3>6, <3>7, <3>8, NoWordStarts
    <3> QED
      BY <3>9 DEF i, j
  <2> HIDE DEF y
  <2>13. \A k \in 1 .. n : s[k] \in 1 .. Len(text) /\ InWord(text, s[k], e[k])
    BY <1>1, <2>10
  <2>14. WordsAt(text, y, n, s, e)
    BY <1>1, <2>6, <2>7, <2>8, <2>11, <2>12, <2>13 DEF WordsAt
  <2> QED
    BY <1>2, <2>14
<1> QED
  BY <1>4, <1>5

\* The n fields of text: the k-th stands between the separators at T[k - 1] and T[k].
FieldsAt(text, S, n, T) ==
    /\ n \in Nat \ {0} /\ T[0] = 0 /\ T[n] = Len(text) + 1
    /\ Split(text, S) = [k \in 1 .. n |-> Piece(text, T[k - 1] + 1, T[k] - 1)]
    /\ \A k \in 1 .. n : /\ T[k - 1] \in 0 .. Len(text) /\ T[k] \in T[k - 1] + 1 .. Len(text) + 1
                         /\ \A q \in T[k - 1] + 1 .. T[k] - 1 : text[q] \notin S
                         /\ k # n => T[k] \in 1 .. Len(text) /\ text[T[k]] \in S

LEMMA FieldsAre ==
    ASSUME NEW text \in Seq(Char), NEW S
    PROVE  \E n, T : FieldsAt(text, S, n, T)
<1> DEFINE l == Len(text)
           at == {i \in DOMAIN text : text[i] \in S} \cup {0, Len(text) + 1}
           Cut(k) == Nth(at, k)
           y == [k \in 1 .. Cardinality(at) - 1 |-> Piece(text, Cut(k - 1) + 1, Cut(k) - 1)]
<1>1. l \in Nat /\ l = Len(text) /\ DOMAIN text = 1 .. l
  OBVIOUS
<1>2. Split(text, S) = y
  BY DEF Split, Piece
<1>3. /\ at \in SUBSET (0 .. l + 1) /\ at # {} /\ 0 \in at /\ l + 1 \in at
      /\ \A i \in 1 .. l : i \in at <=> text[i] \in S
  BY <1>1
<1> HIDE DEF l, at
<1>4. PICK n \in Nat : \E T : Rising(T, n) /\ at = Values(T, n)
  <2>1. l + 1 \in Nat
    BY <1>1
  <2> QED
    BY <1>3, <2>1, Enumerated
<1>5. PICK T : Rising(T, n) /\ at = Values(T, n)
  BY <1>4
<1>6. \A k \in 0 .. n : Cut(k) = T[k] /\ T[k] \in at /\ T[k] \in 0 .. l + 1
  BY <1>3, <1>5, RisingChoice DEF Values
<1>7. \A k \in 0 .. n : \A j \in 0 .. n : k < j => T[k] < T[j]
  BY <1>5, RisingOrder
<1>8. Cardinality(at) = n + 1
  <2>1. n \in 0 .. n
    OBVIOUS
  <2> QED
    BY <1>5, <2>1, RisingCount
<1>9. 0 \in 0 .. n /\ n \in 0 .. n
  OBVIOUS
<1>10. T[0] = 0
  <2>1. PICK k \in 0 .. n : T[k] = 0
    BY <1>3, <1>5 DEF Values
  <2>2. ~(T[0] < T[k])
    BY <1>6, <1>9, <2>1
  <2>3. k = 0
    BY <1>7, <1>9, <2>2
  <2> QED
    BY <2>1, <2>3
<1>11. T[n] = l + 1
  <2>1. PICK k \in 0 .. n : T[k] = l + 1
    BY <1>3, <1>5 DEF Values
  <2>2. ~(T[k] < T[n])
    BY <1>1, <1>6, <1>9, <2>1
  <2>3. k = n
    BY <1>7, <1>9, <2>2
  <2> QED
    BY <2>1, <2>3
<1>12. n # 0
  BY <1>1, <1>10, <1>11
<1>13. y = [k \in 1 .. n |-> Piece(text, T[k - 1] + 1, T[k] - 1)]
  <2>1. \A k \in 1 .. n : k \in 0 .. n /\ k - 1 \in 0 .. n
    OBVIOUS
  <2>2. \A k \in 1 .. n : Cut(k - 1) = T[k - 1] /\ Cut(k) = T[k]
    BY <1>6, <2>1
  <2>3. Cardinality(at) - 1 = n
    BY <1>8
  <2>4. y = [k \in 1 .. n |-> Piece(text, Cut(k - 1) + 1, Cut(k) - 1)]
    BY <2>3
  <2> HIDE DEF Cut, y
  <2> QED
    BY <2>2, <2>4
<1> HIDE DEF y, Cut
<1>14. ASSUME NEW k \in 1 .. n
       PROVE  /\ T[k - 1] \in 0 .. l /\ T[k] \in T[k - 1] + 1 .. l + 1
              /\ \A q \in T[k - 1] + 1 .. T[k] - 1 : text[q] \notin S
              /\ k # n => T[k] \in 1 .. l /\ text[T[k]] \in S
  <2>1. k \in 0 .. n /\ k - 1 \in 0 .. n /\ k - 1 < k
    OBVIOUS
  <2>2. /\ T[k - 1] \in 0 .. l + 1 /\ T[k] \in 0 .. l + 1 /\ T[k - 1] < T[k] /\ T[k] \in at
        /\ k # n => T[k] < T[n]
    <3>1. k # n => k < n
      OBVIOUS
    <3> QED
      BY <1>6, <1>7, <1>9, <2>1, <3>1
  <2>3. T[k - 1] \in 0 .. l /\ T[k] \in T[k - 1] + 1 .. l + 1
    BY <1>1, <2>2
  <2>4. k # n => T[k] \in 1 .. l /\ text[T[k]] \in S
    BY <1>1, <1>3, <1>11, <2>2
  <2>5. ASSUME NEW q \in T[k - 1] + 1 .. T[k] - 1, text[q] \in S PROVE FALSE
    <3>1. q \in 1 .. l /\ T[k - 1] < q /\ q < T[k]
      BY <1>1, <2>2
    <3>2. PICK j \in 0 .. n : q = T[j]
      BY <1>3, <1>5, <2>5, <3>1 DEF Values
    <3>3. ~(T[j] < T[k - 1]) /\ ~(T[k] < T[j]) /\ j # k - 1 /\ j # k
      BY <2>2, <3>1, <3>2
    <3>4. ~(j < k - 1) /\ ~(k < j)
      BY <1>7, <2>1, <3>3
    <3> QED
      BY <3>3, <3>4
  <2> QED
    BY <2>3, <2>4, <2>5
<1>15. FieldsAt(text, S, n, T)
  BY <1>1, <1>2, <1>10, <1>11, <1>12, <1>13, <1>14 DEF FieldsAt
<1> QED
  BY <1>15

\* word stands in b from p up to e, and its pieces with it.
PieceOf(word, b, p, e) ==
    /\ word = Piece(b, p, e - 1) /\ word \in Seq(Char) /\ Len(word) = e - p
    /\ \A i \in 1 .. e - p : word[i] = b[p + i - 1]
    /\ \A i \in Nat \ {0} : \A j \in i - 1 .. e - p :
         Piece(word, i, j) = Piece(b, p + i - 1, p + j - 1)

LEMMA PieceIs ==
    ASSUME NEW b \in Seq(Char), NEW p \in Nat \ {0}, NEW e \in p .. Len(b) + 1,
           NEW word, word = Piece(b, p, e - 1)
    PROVE  PieceOf(word, b, p, e)
<1>1. Len(b) \in Nat /\ e - 1 \in Nat /\ p <= (e - 1) + 1 /\ e - 1 <= Len(b) /\ (e - 1) - p + 1 = e - p
  OBVIOUS
<1>2. /\ word \in Seq(Char) /\ Len(word) = e - p
      /\ \A i \in 1 .. e - p : word[i] = b[p + i - 1]
  BY <1>1, SubSeqFacts DEF Piece
<1>3. ASSUME NEW i \in Nat \ {0}, NEW j \in i - 1 .. e - p
      PROVE  Piece(word, i, j) = Piece(b, p + i - 1, p + j - 1)
  <2> DEFINE m == j - i + 1
             x == SubSeq(word, i, j)
             y == SubSeq(b, p + i - 1, p + j - 1)
  <2>1. /\ j \in Nat /\ i <= j + 1 /\ j <= Len(word)
        /\ p + i - 1 \in Nat \ {0} /\ p + j - 1 \in Nat
        /\ p + i - 1 <= (p + j - 1) + 1 /\ p + j - 1 <= Len(b) /\ (p + j - 1) - (p + i - 1) + 1 = m
        /\ m \in Nat
    BY <1>1, <1>2
  <2>2. x \in Seq(Char) /\ Len(x) = m /\ \A k \in 1 .. m : x[k] = word[i + k - 1]
    BY <1>2, <2>1, SubSeqFacts
  <2>3. y \in Seq(Char) /\ Len(y) = m /\ \A k \in 1 .. m : y[k] = b[p + i - 1 + k - 1]
    BY <2>1, SubSeqFacts
  <2>4. \A k \in 1 .. m : i + k - 1 \in 1 .. e - p /\ p + (i + k - 1) - 1 = p + i - 1 + k - 1
    BY <2>1
  <2> HIDE DEF m, x, y
  <2>5. ASSUME NEW k \in 1 .. m PROVE x[k] = y[k]
    <3>1. i + k - 1 \in 1 .. e - p /\ p + (i + k - 1) - 1 = p + i - 1 + k - 1
      BY <2>4
    <3>2. word[i + k - 1] = b[p + (i + k - 1) - 1]
      BY <1>2, <3>1, Zenon
    <3>3. x[k] = word[i + k - 1] /\ y[k] = b[p + i - 1 + k - 1]
      BY <2>2, <2>3, Zenon
    <3> QED
      BY <3>1, <3>2, <3>3
  <2>6. x = y
    BY <2>1, <2>2, <2>3, <2>5
  <2> QED
    BY <2>6 DEF x, y, Piece
<1> QED
  BY <1>2, <1>3 DEF PieceOf

LEMMA DigitLetters == Digit = {"0", "1", "2", "3", "4", "5", "6", "7", "8", "9"}
<1>1. \A i \in 1 .. 10 : i = 1 \/ i = 2 \/ i = 3 \/ i = 4 \/ i = 5 \/ i = 6 \/ i = 7 \/ i = 8 \/ i = 9 \/ i = 10
  OBVIOUS
<1>2. DOMAIN Digits = 1 .. 10
  BY DEF Digits
<1>3. /\ Digits[1] = "0" /\ Digits[2] = "1" /\ Digits[3] = "2" /\ Digits[4] = "3" /\ Digits[5] = "4"
      /\ Digits[6] = "5" /\ Digits[7] = "6" /\ Digits[8] = "7" /\ Digits[9] = "8" /\ Digits[10] = "9"
  BY DEF Digits
<1>4. \A i \in 1 .. 10 : Digits[i] \in {"0", "1", "2", "3", "4", "5", "6", "7", "8", "9"}
  BY <1>1, <1>3
<1>5. \A c \in {"0", "1", "2", "3", "4", "5", "6", "7", "8", "9"} : \E i \in 1 .. 10 : Digits[i] = c
  BY <1>3
<1> QED
  BY <1>2, <1>4, <1>5 DEF Digit, Range

LEMMA NoDigit ==
    /\ \A c \in Blank \cup {NewLine} : c \notin Digit /\ c # "-" /\ c # "/" /\ c # "." /\ c \notin {"e", "E"}
    /\ "/" \notin Digit /\ "-" \notin Digit
  BY DigitLetters, NewLineAssumption DEF Blank

LEMMA NumberInWord ==
    ASSUME NEW b \in Seq(Char), NEW p \in Nat \ {0}, NEW e \in p .. Len(b),
           NEW word, word = Piece(b, p, e - 1), IsNumber(word), b[e] \notin Digit
    PROVE  NumberAt(b, p, e, Number(word))
<1> DEFINE start == SkipOne(b, p, {"-"})
           digits == Unsigned(word)
<1>0. PieceOf(word, b, p, e)
  <2>1. e \in p .. Len(b) + 1
    OBVIOUS
  <2> QED
    BY <2>1, PieceIs
<1>1. /\ word \in Seq(Char) /\ Len(word) = e - p
      /\ \A i \in 1 .. e - p : word[i] = b[p + i - 1]
      /\ \A i \in Nat \ {0} : \A j \in i - 1 .. e - p :
           Piece(word, i, j) = Piece(b, p + i - 1, p + j - 1)
  BY <1>0, Zenon DEF PieceOf
<1>2. e - p \in Nat \ {0}
  <2>1. Len(b) \in Nat /\ e - p \in Nat
    OBVIOUS
  <2>2. Len(word) # 0
    BY <1>1 DEF IsNumber
  <2> QED
    BY <1>1, <2>1, <2>2
<1>3. word[1] = b[p]
  <2>1. 1 \in 1 .. e - p /\ p + 1 - 1 = p
    BY <1>2
  <2> QED
    BY <1>1, <2>1
<1>4. start \in p .. e /\ digits = Piece(b, start, e - 1)
  <2>1. CASE b[p] = "-"
    <3>1. start = p + 1 /\ digits = Tail(word)
      BY <1>3, <2>1 DEF SkipOne, Unsigned
    <3>2. Tail(word) = Piece(word, 2, e - p)
      <4>1. Tail(word) = SubSeq(word, 2, Len(word))
        BY <1>1, <1>2
      <4> QED
        BY <1>1, <4>1 DEF Piece
    <3>3. Piece(word, 2, e - p) = Piece(b, p + 1, e - 1)
      <4>1. 2 \in Nat \ {0} /\ e - p \in 2 - 1 .. e - p /\ p + 2 - 1 = p + 1 /\ p + (e - p) - 1 = e - 1
        BY <1>2
      <4> QED
        BY <1>1, <4>1
    <3>4. p + 1 \in p .. e
      BY <1>2
    <3> QED
      BY <3>1, <3>2, <3>3, <3>4
  <2>2. CASE b[p] # "-"
    <3>1. start = p /\ digits = word
      BY <1>3, <2>2 DEF SkipOne, Unsigned
    <3>2. p \in p .. e
      OBVIOUS
    <3> QED
      BY <3>1, <3>2
  <2> QED
    BY <2>1, <2>2
<1>5. Range(digits) \subseteq Digit /\ Decimal(digits) < IntModulus \div 2
  BY DEF IsNumber
<1>6. Number(word) = IF b[p] = "-" THEN -Decimal(digits) ELSE Decimal(digits)
  BY <1>3 DEF Number
<1> HIDE DEF start, digits
<1>7. ASSUME NEW q \in start .. e - 1 PROVE b[q] \in Digit
  <2> DEFINE i == q - start + 1
  <2>0. Len(b) \in Nat
    OBVIOUS
  <2>1. start \in Nat \ {0} /\ e \in start .. Len(b) + 1 /\ i \in 1 .. e - start /\ start + i - 1 = q
    BY <1>4, <2>0
  <2>4. PieceOf(digits, b, start, e)
    BY <1>4, <2>1, PieceIs
  <2>2. Len(digits) = e - start /\ digits \in Seq(Char) /\ digits[i] = b[start + i - 1]
    BY <2>1, <2>4 DEF PieceOf
  <2>3. digits[i] \in Range(digits)
    BY <2>1, <2>2 DEF Range
  <2> HIDE DEF i
  <2> QED
    BY <1>5, <2>1, <2>2, <2>3
<1>8. e \in start .. Len(b)
  BY <1>4
<1> QED
  BY <1>4, <1>5, <1>6, <1>7, <1>8 DEF NumberAt, start, Piece

LEMMA NumberMissing ==
    ASSUME NEW b \in Seq(Char), NEW p \in 1 .. Len(b), b[p] \in Blank \cup {NewLine, "/"}
    PROVE  NumberAt(b, p, p, 0)
<1>1. b[p] \notin Digit /\ b[p] # "-"
  BY NoDigit
<1>2. SkipOne(b, p, {"-"}) = p
  BY <1>1 DEF SkipOne
<1>3. SubSeq(b, p, p - 1) = <<>>
  <2>1. p \in Nat \ {0} /\ p - 1 \in Nat /\ p <= (p - 1) + 1 /\ p - 1 <= Len(b) /\ (p - 1) - p + 1 = 0
    OBVIOUS
  <2>2. SubSeq(b, p, p - 1) \in Seq(Char) /\ Len(SubSeq(b, p, p - 1)) = 0
    BY <2>1, SubSeqFacts
  <2> QED
    BY <2>2
<1>4. 0 < IntModulus \div 2
  <2> DEFINE m == IntModulus
  <2>1. m \in Nat \ {0} /\ m % 2 = 0
    BY IntAssumption
  <2> HIDE DEF m
  <2>3. m # 1
    BY <2>1
  <2>2. 0 < m \div 2
    BY <2>1, <2>3
  <2> QED
    BY <2>2 DEF m
<1>5. p \in p .. Len(b) /\ p .. p - 1 = {}
  OBVIOUS
<1> QED
  BY <1>1, <1>2, <1>3, <1>4, <1>5, NoDigits DEF NumberAt

\* What AsWritten makes of a field stands there.
FieldValue(field) == IF field = <<>> THEN 0 ELSE Number(field)

LEMMA Within ==
    ASSUME NEW x \in Nat \ {0}, NEW e \in Nat, x <= e,
           NEW u \in 0 .. e - x, NEW v \in u + 1 .. e - x + 1
    PROVE  /\ x + u \in x .. e /\ x + v - 1 \in x + u .. e /\ (v = e - x + 1 => x + v - 1 = e)
           /\ u + 1 \in Nat \ {0} /\ v - 1 \in (u + 1) - 1 .. e - x
           /\ x + (u + 1) - 1 = x + u /\ x + (v - 1) - 1 = (x + v - 1) - 1
           /\ (x + v - 1) - 1 = x + v - 2
  OBVIOUS

LEMMA FieldRead ==
    ASSUME NEW b \in Seq(Char), NEW x \in Nat \ {0}, NEW e \in x .. Len(b), NEW word,
           PieceOf(word, b, x, e), b[e] \in Blank \cup {NewLine},
           NEW n, NEW T, FieldsAt(word, {"/"}, n, T), NEW k \in 1 .. n,
           NEW field, field = Split(word, {"/"})[k], field = <<>> \/ IsNumber(field)
    PROVE  /\ x + T[k - 1] \in x .. e /\ x + T[k] - 1 \in x + T[k - 1] .. e
           /\ k # n => b[x + T[k] - 1] = "/"
           /\ NumberAt(b, x + T[k - 1], x + T[k] - 1, FieldValue(field))
           /\ \A q \in x + T[k - 1] .. x + T[k] - 2 : b[q] # "/"
           /\ field = <<>> <=> x + T[k] - 1 = x + T[k - 1]
<1> DEFINE f == x + T[k - 1]
           g == x + T[k] - 1
<1>0. Len(b) \in Nat /\ Len(word) = e - x /\ e - x \in Nat
  BY DEF PieceOf
<1>1. /\ T[k - 1] \in 0 .. e - x /\ T[k] \in T[k - 1] + 1 .. e - x + 1
      /\ k # n => T[k] \in 1 .. e - x /\ word[T[k]] = "/"
      /\ \A q \in T[k - 1] + 1 .. T[k] - 1 : word[q] # "/"
  BY <1>0 DEF FieldsAt
<1>2. k = n => T[k] = e - x + 1
  BY <1>0 DEF FieldsAt
<1>20. e \in Nat /\ x <= e
  BY <1>0
<1>21. /\ f \in x .. e /\ g \in f .. e /\ (T[k] = e - x + 1 => g = e)
       /\ T[k - 1] + 1 \in Nat \ {0} /\ T[k] - 1 \in (T[k - 1] + 1) - 1 .. e - x
       /\ x + (T[k - 1] + 1) - 1 = f /\ x + (T[k] - 1) - 1 = g - 1
       /\ g - 1 = x + T[k] - 2
  <2> DEFINE u == T[k - 1]
             v == T[k]
  <2>1. u \in 0 .. e - x /\ v \in u + 1 .. e - x + 1
    BY <1>1
  <2> HIDE DEF u, v
  <2>2. /\ x + u \in x .. e /\ x + v - 1 \in x + u .. e /\ (v = e - x + 1 => x + v - 1 = e)
        /\ u + 1 \in Nat \ {0} /\ v - 1 \in (u + 1) - 1 .. e - x
        /\ x + (u + 1) - 1 = x + u /\ x + (v - 1) - 1 = (x + v - 1) - 1
        /\ (x + v - 1) - 1 = x + v - 2
    BY <1>20, <2>1, Within
  <2> QED
    BY <2>2 DEF u, v
<1>3. f \in x .. e /\ g \in f .. e /\ (k = n => g = e)
  BY <1>2, <1>21
<1>4. k # n => b[g] = "/"
  <2> SUFFICES ASSUME k # n PROVE b[g] = "/"
    OBVIOUS
  <2>1. T[k] \in 1 .. e - x /\ word[T[k]] = "/"
    BY <1>1
  <2> QED
    BY <2>1 DEF PieceOf
<1>5. b[g] \in Blank \cup {NewLine, "/"}
  <2>1. CASE k = n
    BY <1>3, <2>1
  <2>2. CASE k # n
    BY <1>4, <2>2
  <2> QED
    BY <2>1, <2>2
<1>6. field = Piece(word, T[k - 1] + 1, T[k] - 1)
  BY DEF FieldsAt
<1>7. Piece(word, T[k - 1] + 1, T[k] - 1) = Piece(b, f, g - 1)
  <2> DEFINE i == T[k - 1] + 1
             j == T[k] - 1
  <2>1. i \in Nat \ {0} /\ j \in i - 1 .. e - x /\ x + i - 1 = f /\ x + j - 1 = g - 1
    BY <1>21
  <2> HIDE DEF i, j, f, g
  <2>2. Piece(word, i, j) = Piece(b, x + i - 1, x + j - 1)
    BY <2>1 DEF PieceOf
  <2>3. Piece(word, i, j) = Piece(b, f, g - 1)
    BY <2>1, <2>2
  <2> QED
    BY <2>3 DEF i, j
<1>8. ASSUME NEW q \in f .. g - 1 PROVE b[q] # "/"
  <2> DEFINE i == q - x + 1
  <2>1. i \in T[k - 1] + 1 .. T[k] - 1 /\ i \in 1 .. e - x /\ x + i - 1 = q
    <3> DEFINE u == T[k - 1]
               v == T[k]
    <3>1. u \in 0 .. e - x /\ v \in u + 1 .. e - x + 1 /\ q \in x + u .. (x + v - 1) - 1
      BY <1>1
    <3> HIDE DEF u, v
    <3>2. i \in u + 1 .. v - 1 /\ i \in 1 .. e - x /\ x + i - 1 = q
      BY <1>20, <3>1
    <3> QED
      BY <3>2 DEF u, v
  <2> HIDE DEF i
  <2>2. word[i] # "/" /\ word[i] = b[x + i - 1]
    BY <1>1, <2>1 DEF PieceOf
  <2> QED
    BY <2>1, <2>2
<1>9. g - 1 = x + T[k] - 2
  BY <1>21
<1> HIDE DEF f, g
<1>10. f \in Nat \ {0} /\ g \in f .. Len(b) + 1 /\ g \in f .. Len(b) /\ g - f \in Nat
  BY <1>0, <1>3
<1>11. PieceOf(field, b, f, g)
  BY <1>6, <1>7, <1>10, PieceIs
<1>12. field \in Seq(Char) /\ Len(field) = g - f
  BY <1>11 DEF PieceOf
<1>13. field = <<>> <=> g = f
  <2>1. field = <<>> <=> Len(field) = 0
    BY <1>12
  <2> QED
    BY <1>10, <1>12, <2>1
<1>14. NumberAt(b, f, g, FieldValue(field))
  <2>1. CASE field = <<>>
    <3>1. f \in 1 .. Len(b) /\ f = g /\ b[f] \in Blank \cup {NewLine, "/"}
      BY <1>5, <1>10, <1>13, <2>1
    <3>2. FieldValue(field) = 0
      BY <2>1 DEF FieldValue
    <3>3. NumberAt(b, f, f, 0)
      BY <3>1, NumberMissing
    <3> QED
      BY <3>1, <3>2, <3>3
  <2>2. CASE field # <<>>
    <3>1. IsNumber(field) /\ FieldValue(field) = Number(field) /\ field = Piece(b, f, g - 1)
      BY <1>6, <1>7, <2>2 DEF FieldValue
    <3>2. b[g] \notin Digit
      BY <1>5, NoDigit
    <3>3. NumberAt(b, f, g, Number(field))
      BY <1>10, <3>1, <3>2, NumberInWord
    <3> QED
      BY <3>1, <3>3
  <2> QED
    BY <2>1, <2>2
<1> QED
  BY <1>3, <1>4, <1>8, <1>9, <1>13, <1>14 DEF f, g

LEMMA CornerInWord ==
    ASSUME NEW b \in Seq(Char), NEW x \in Nat \ {0}, NEW e \in x .. Len(b), NEW word,
           PieceOf(word, b, x, e), b[e] \in Blank \cup {NewLine}, IsCorner(word)
    PROVE  CornerWritten(b, x, e, Meant(word))
<1> DEFINE fields == Split(word, {"/"})
           c == Meant(word)
<1>0. word \in Seq(Char) /\ Len(word) = e - x /\ Len(b) \in Nat
  BY DEF PieceOf
<1>1. PICK n : \E T : FieldsAt(word, {"/"}, n, T)
  BY <1>0, FieldsAre
<1>2. PICK T : FieldsAt(word, {"/"}, n, T)
  BY <1>1
<1>3. n \in Nat \ {0} /\ Len(fields) = n /\ T[0] = 0 /\ T[n] = e - x + 1
  BY <1>0, <1>2 DEF FieldsAt
<1>4. /\ n <= 3 /\ IsNumber(fields[1]) /\ Number(fields[1]) # 0
      /\ \A k \in 2 .. n : fields[k] = <<>> \/ IsNumber(fields[k])
  BY <1>3 DEF IsCorner
<1>5. fields[1] # <<>>
  BY <1>4 DEF IsNumber
<1>6. c = [p |-> IF 1 > n THEN 0 ELSE FieldValue(fields[1]),
           t |-> IF 2 > n THEN 0 ELSE FieldValue(fields[2]),
           n |-> IF 3 > n THEN 0 ELSE FieldValue(fields[3])]
  BY <1>3 DEF Meant, FieldValue
<1>7. c = [p |-> c.p, t |-> c.t, n |-> c.n] /\ c.p = FieldValue(fields[1]) /\ c.p # 0
  <2>1. c.p = FieldValue(fields[1])
    BY <1>3, <1>6
  <2> QED
    BY <1>4, <1>5, <1>6, <2>1 DEF FieldValue
<1>8. /\ c.t = IF n = 1 THEN 0 ELSE FieldValue(fields[2])
      /\ c.n = IF n = 3 THEN FieldValue(fields[3]) ELSE 0
  BY <1>3, <1>4, <1>6
<1> HIDE DEF c, fields
<1>9. \A k \in 1 .. n : fields[k] = <<>> \/ IsNumber(fields[k])
  <2> TAKE k \in 1 .. n
  <2>1. k = 1 \/ k \in 2 .. n
    OBVIOUS
  <2> QED
    BY <1>4, <2>1
<1>10. ASSUME NEW k \in 1 .. n
       PROVE  /\ x + T[k - 1] \in x .. e /\ x + T[k] - 1 \in x + T[k - 1] .. e
              /\ k # n => b[x + T[k] - 1] = "/"
              /\ NumberAt(b, x + T[k - 1], x + T[k] - 1, FieldValue(fields[k]))
              /\ \A q \in x + T[k - 1] .. x + T[k] - 2 : b[q] # "/"
              /\ fields[k] = <<>> <=> x + T[k] - 1 = x + T[k - 1]
  BY <1>2, <1>9, FieldRead DEF fields
<1>11. b[e] # "/"
  BY NoDigit
<1>12. CASE n = 1
  <2>1. 1 \in 1 .. n /\ T[1 - 1] = 0 /\ T[1] = e - x + 1
    BY <1>3, <1>12
  <2>2. NumberAt(b, x + T[1 - 1], x + T[1] - 1, FieldValue(fields[1]))
    BY <1>10, <2>1
  <2>3. x + T[1 - 1] = x /\ x + T[1] - 1 = e
    BY <2>1
  <2>4. NumberAt(b, x, e, c.p)
    BY <1>7, <2>2, <2>3
  <2> QED
    BY <1>7, <1>8, <1>12, <2>4 DEF CornerWritten, c
<1>13. CASE n = 2
  <2> DEFINE f == x + T[1] - 1
  <2>1. 1 \in 1 .. n /\ 2 \in 1 .. n /\ T[1 - 1] = 0 /\ T[2 - 1] = T[1] /\ T[2] = e - x + 1
    BY <1>3, <1>13
  <2>2. /\ x + T[1 - 1] = x /\ x + T[1 - 1] \in x .. e /\ f \in x + T[1 - 1] .. e /\ b[f] = "/"
        /\ NumberAt(b, x + T[1 - 1], f, FieldValue(fields[1]))
    BY <1>10, <1>13, <2>1
  <2>3. /\ x + T[2 - 1] \in x .. e /\ x + T[2] - 1 = e
        /\ NumberAt(b, x + T[2 - 1], x + T[2] - 1, FieldValue(fields[2]))
        /\ \A q \in x + T[2 - 1] .. x + T[2] - 2 : b[q] # "/"
    BY <1>10, <2>1
  <2>7. T[1] \in Int
    BY <1>2, <2>1 DEF FieldsAt
  <2>4. f \in Nat /\ x + T[2 - 1] = f + 1 /\ x + T[2] - 2 = e - 1 /\ f + 1 \in x .. e
    BY <2>1, <2>2, <2>3, <2>7
  <2> HIDE DEF f
  <2>5. b[f + 1] # "/"
    <3>1. f + 1 = e \/ f + 1 \in f + 1 .. e - 1
      BY <2>4
    <3> QED
      BY <1>11, <2>3, <2>4, <3>1
  <2>6. NumberAt(b, x, f, c.p) /\ NumberAt(b, f + 1, e, c.t) /\ c.n = 0
    BY <1>7, <1>8, <1>13, <2>2, <2>3, <2>4
  <2> QED
    BY <1>7, <2>2, <2>4, <2>5, <2>6 DEF CornerWritten, c
<1>14. CASE n = 3
  <2> DEFINE f == x + T[1] - 1
             g == x + T[2] - 1
  <2>1. /\ 1 \in 1 .. n /\ 2 \in 1 .. n /\ 3 \in 1 .. n
        /\ T[1 - 1] = 0 /\ T[2 - 1] = T[1] /\ T[3 - 1] = T[2] /\ T[3] = e - x + 1
    BY <1>3, <1>14
  <2>2. /\ x + T[1 - 1] = x /\ f \in x + T[1 - 1] .. e /\ b[f] = "/"
        /\ NumberAt(b, x + T[1 - 1], f, FieldValue(fields[1]))
    BY <1>10, <1>14, <2>1
  <2>3. /\ x + T[2 - 1] \in x .. e /\ g \in x + T[2 - 1] .. e /\ b[g] = "/"
        /\ NumberAt(b, x + T[2 - 1], g, FieldValue(fields[2]))
        /\ \A q \in x + T[2 - 1] .. x + T[2] - 2 : b[q] # "/"
        /\ fields[2] = <<>> <=> g = x + T[2 - 1]
    BY <1>10, <1>14, <2>1
  <2>4. /\ x + T[3] - 1 = e /\ NumberAt(b, x + T[3 - 1], x + T[3] - 1, FieldValue(fields[3]))
    BY <1>10, <2>1
  <2>5. T[1] \in Int /\ T[2] \in Int
    BY <1>2, <2>1 DEF FieldsAt
  <2>10. x + T[2 - 1] = f + 1 /\ x + T[2] - 2 = g - 1 /\ x + T[3 - 1] = g + 1 /\ x + T[1 - 1] = x
    BY <2>1, <2>5
  <2>11. f \in x .. e
    BY <2>2, <2>10
  <2>12. g \in f + 1 .. e
    BY <2>3, <2>10
  <2>6. /\ f \in Nat /\ g \in Nat /\ x + T[2 - 1] = f + 1 /\ x + T[2] - 2 = g - 1 /\ x + T[3 - 1] = g + 1
        /\ g \in f + 1 .. e
    <3> HIDE DEF f, g
    <3> QED
      BY <2>10, <2>11, <2>12
  <2> HIDE DEF f, g
  <2>7. /\ NumberAt(b, x, f, c.p) /\ NumberAt(b, f + 1, g, c.t) /\ NumberAt(b, g + 1, e, c.n)
        /\ \A q \in f + 1 .. g - 1 : b[q] # "/"
        /\ fields[2] = <<>> <=> g = f + 1
    BY <1>7, <1>8, <1>14, <2>2, <2>3, <2>4, <2>6
  <2>8. CASE g = f + 1
    <3>1. g + 1 = f + 2 /\ b[f + 1] = "/" /\ c.t = 0
      BY <1>8, <1>14, <2>3, <2>6, <2>7, <2>8 DEF FieldValue
    <3>2. NumberAt(b, f + 2, e, c.n)
      BY <2>7, <3>1
    <3> QED
      BY <1>7, <2>2, <2>6, <2>7, <3>1, <3>2 DEF CornerWritten, c
  <2>9. CASE g # f + 1
    <3>1. f + 1 \in f + 1 .. g - 1
      BY <2>6, <2>9
    <3>2. b[f + 1] # "/"
      BY <2>7, <3>1
    <3> QED
      BY <1>7, <2>2, <2>3, <2>6, <2>7, <3>2 DEF CornerWritten, c
  <2> QED
    BY <2>8, <2>9
<1> QED
  BY <1>3, <1>4, <1>12, <1>13, <1>14

-----------------------------------------------------------------------------
(* What the handlers make of the words of a line.                           *)

\* b is the line text with its newline.
LineOf(b, text) ==
    /\ IsLine(text) /\ b \in Seq(Char) /\ Len(text) \in Nat /\ Len(b) = Len(text) + 1
    /\ b[Len(b)] = NewLine /\ \A i \in 1 .. Len(text) : b[i] = text[i]

LEMMA LineIs == ASSUME NEW text, IsLine(text) PROVE LineOf(Append(text, NewLine), text)
<1> DEFINE b == Append(text, NewLine)
<1>1. text \in Seq(Char) /\ NewLine \in Char
  BY DEF IsLine, Char
<1>2. /\ Len(text) \in Nat /\ b \in Seq(Char) /\ Len(b) = Len(text) + 1 /\ b[Len(text) + 1] = NewLine
      /\ \A i \in 1 .. Len(text) : b[i] = text[i]
  BY <1>1
<1> QED
  BY <1>2 DEF LineOf

\* The n words of the line b, with where they stand.
WordsIn(b, words, n, s, e) ==
    /\ n \in Nat \ {0} /\ Len(words) = n /\ words = [k \in 1 .. n |-> words[k]]
    /\ e[0] = 1 /\ s[n + 1] = Len(b)
    /\ \A k \in 1 .. n : /\ s[k] \in 1 .. Len(b) - 1 /\ e[k] \in s[k] + 1 .. Len(b)
                         /\ PieceOf(words[k], b, s[k], e[k])
                         /\ b[s[k]] \notin Blank \cup {NewLine} /\ b[e[k]] \in Blank \cup {NewLine}
                         /\ \A q \in s[k] .. e[k] - 1 : b[q] \notin Blank
    /\ \A k \in 0 .. n : BlankUpTo(b, e[k], s[k + 1])

LEMMA PieceOfLine ==
    ASSUME NEW b, NEW text, LineOf(b, text), NEW i \in Nat \ {0}, NEW j \in i - 1 .. Len(text)
    PROVE  Piece(text, i, j) = Piece(b, i, j)
<1> DEFINE x == SubSeq(text, i, j)
           y == SubSeq(b, i, j)
           m == j - i + 1
<1>0. /\ text \in Seq(Char) /\ b \in Seq(Char) /\ Len(text) \in Nat /\ Len(b) = Len(text) + 1
      /\ \A a \in 1 .. Len(text) : b[a] = text[a]
  BY DEF LineOf, IsLine
<1>1. j \in Nat /\ i <= j + 1 /\ j <= Len(text) /\ j <= Len(b) /\ m \in Nat
  BY <1>0
<1>2. x \in Seq(Char) /\ Len(x) = m /\ \A a \in 1 .. m : x[a] = text[i + a - 1]
  BY <1>0, <1>1, SubSeqFacts
<1>3. y \in Seq(Char) /\ Len(y) = m /\ \A a \in 1 .. m : y[a] = b[i + a - 1]
  BY <1>0, <1>1, SubSeqFacts
<1>4. \A a \in 1 .. m : i + a - 1 \in 1 .. Len(text)
  BY <1>1
<1> HIDE DEF x, y, m
<1>5. \A a \in 1 .. m : x[a] = y[a]
  BY <1>0, <1>2, <1>3, <1>4
<1>6. x = y
  BY <1>1, <1>2, <1>3, <1>5
<1> QED
  BY <1>6 DEF x, y, Piece

LEMMA WordsInLine ==
    ASSUME NEW b, NEW text, LineOf(b, text), NEW words, words = Words(text), words # <<>>
    PROVE  \E n, s, e : WordsIn(b, words, n, s, e)
<1> DEFINE l == Len(text)
<1>1. /\ text \in Seq(Char) /\ l \in Nat /\ b \in Seq(Char) /\ Len(b) = l + 1 /\ b[l + 1] = NewLine
      /\ \A i \in 1 .. l : b[i] = text[i] /\ text[i] # NewLine
  BY DEF LineOf, IsLine
<1>2. PICK n, s, e : WordsAt(text, words, n, s, e)
  BY <1>1, WordsAre
<1>3. /\ n \in Nat /\ words = [k \in 1 .. n |-> Piece(text, s[k], e[k] - 1)]
      /\ e[0] = 1 /\ s[n + 1] = l + 1
      /\ \A k \in 1 .. n : s[k] \in 1 .. l /\ InWord(text, s[k], e[k])
      /\ \A k \in 0 .. n : AllBlank(text, e[k], s[k + 1])
  BY <1>2 DEF WordsAt
<1> DEFINE V == {words[k] : k \in 1 .. n}
<1>4. Len(words) = n /\ words = [k \in 1 .. n |-> words[k]] /\ n # 0
  <2>1. words = [k \in 1 .. n |-> words[k]]
    BY <1>3
  <2>2. Len(words) = n /\ words \in Seq(V)
    <3>1. n \in Nat /\ Listed(words, n)
      BY <1>3, <2>1 DEF Listed
    <3>2. \A k \in 1 .. n : words[k] \in V
      OBVIOUS
    <3> HIDE DEF V
    <3> QED
      BY <3>1, <3>2, ListedType
  <2>3. n # 0
    <3> HIDE DEF V
    <3> QED
      BY <2>2
  <2> QED
    BY <2>1, <2>2, <2>3
<1>5. ASSUME NEW k \in 1 .. n
      PROVE  /\ s[k] \in 1 .. Len(b) - 1 /\ e[k] \in s[k] + 1 .. Len(b)
             /\ PieceOf(words[k], b, s[k], e[k])
             /\ b[s[k]] \notin Blank \cup {NewLine} /\ b[e[k]] \in Blank \cup {NewLine}
             /\ \A q \in s[k] .. e[k] - 1 : b[q] \notin Blank
  <2>1. /\ s[k] \in 1 .. l /\ e[k] \in s[k] + 1 .. l + 1 /\ (e[k] # l + 1 => text[e[k]] \in Blank)
        /\ \A q \in s[k] .. e[k] - 1 : text[q] \notin Blank
    BY <1>3 DEF InWord
  <2> DEFINE i == s[k]
             j == e[k]
  <2>2. i \in 1 .. l /\ j \in i + 1 .. l + 1 /\ (j # l + 1 => text[j] \in Blank) /\ text[i] \notin Blank
        /\ words[k] = Piece(text, i, j - 1)
        /\ \A q \in i .. j - 1 : text[q] \notin Blank
    BY <1>1, <1>3, <2>1
  <2> HIDE DEF i, j, l
  <2>3. i \in 1 .. Len(b) - 1 /\ j \in i + 1 .. Len(b) /\ i \in Nat \ {0} /\ j \in Nat /\ j - 1 \in Nat
        /\ i <= (j - 1) + 1 /\ j - 1 <= Len(b) /\ j - 1 <= Len(text) /\ (j - 1) - i + 1 = j - i
        /\ j \in i .. Len(b) + 1 /\ j - i \in Nat
    BY <1>1, <2>2 DEF l
  <2>4. b[i] \notin Blank \cup {NewLine}
    BY <1>1, <2>2
  <2>5. b[j] \in Blank \cup {NewLine}
    <3>1. CASE j = l + 1
      BY <1>1, <3>1
    <3>2. CASE j # l + 1
      <4>1. j \in 1 .. l
        BY <1>1, <2>2, <3>2
      <4> QED
        BY <1>1, <2>2, <3>2, <4>1
    <3> QED
      BY <3>1, <3>2
  <2>6. Piece(text, i, j - 1) = Piece(b, i, j - 1)
    <3> DEFINE m == j - 1
    <3>1. m \in i - 1 .. Len(text)
      BY <2>3
    <3> HIDE DEF m
    <3>2. Piece(text, i, m) = Piece(b, i, m)
      BY <2>3, <3>1, PieceOfLine
    <3> QED
      BY <3>2 DEF m
  <2>7. PieceOf(words[k], b, i, j)
    BY <1>1, <2>2, <2>3, <2>6, PieceIs
  <2>8. ASSUME NEW q \in i .. j - 1 PROVE b[q] \notin Blank
    <3>1. q \in 1 .. l
      BY <1>1, <2>2
    <3> QED
      BY <1>1, <2>2, <3>1
  <2> QED
    BY <2>3, <2>4, <2>5, <2>7, <2>8 DEF i, j
<1>6. ASSUME NEW k \in 0 .. n PROVE BlankUpTo(b, e[k], s[k + 1])
  <2>1. s[k + 1] \in e[k] .. l + 1 /\ \A q \in e[k] .. s[k + 1] - 1 : text[q] \in Blank
    BY <1>3 DEF AllBlank
  <2>2. e[k] \in Nat \ {0}
    <3>1. CASE k = 0
      BY <1>3, <3>1
    <3>2. CASE k # 0
      <4>1. k \in 1 .. n
        BY <3>2
      <4>2. s[k] \in 1 .. l /\ e[k] \in s[k] + 1 .. Len(b)
        BY <1>3, <1>5, <4>1
      <4> QED
        BY <1>1, <4>2
    <3> QED
      BY <3>1, <3>2
  <2>3. b[s[k + 1]] \notin Blank
    <3>1. CASE k = n
      BY <1>1, <1>3, <3>1, Special
    <3>2. CASE k # n
      <4>1. k + 1 \in 1 .. n
        BY <1>3, <3>2
      <4> QED
        BY <1>5, <4>1
    <3> QED
      BY <3>1, <3>2
  <2>4. ASSUME NEW q \in e[k] .. s[k + 1] - 1 PROVE b[q] \in Blank
    <3>1. q \in 1 .. l
      BY <1>1, <2>1, <2>2
    <3> QED
      BY <1>1, <2>1, <3>1
  <2>5. s[k + 1] \in e[k] .. Len(b)
    BY <1>1, <2>1
  <2> QED
    BY <2>3, <2>4, <2>5 DEF BlankUpTo
<1>7. n \in Nat \ {0}
  BY <1>3, <1>4
<1>8. WordsIn(b, words, n, s, e)
  BY <1>1, <1>3, <1>4, <1>5, <1>6, <1>7 DEF WordsIn
<1> QED
  BY <1>8

LEMMA LetterWord ==
    ASSUME NEW b, NEW words, NEW n, NEW s, NEW e, WordsIn(b, words, n, s, e),
           NEW c, words[1] = <<c>>
    PROVE  e[1] = s[1] + 1 /\ b[s[1]] = c
<1> DEFINE w == words[1]
           i == s[1]
           j == e[1]
<1>1. i \in 1 .. Len(b) - 1 /\ j \in i + 1 .. Len(b) /\ PieceOf(w, b, i, j)
  BY DEF WordsIn
<1>2. Len(w) = 1 /\ w[1] = c
  OBVIOUS
<1> HIDE DEF w, i, j
<1>3. i \in Nat /\ j \in Nat
  BY <1>1
<1>4. j - i = 1
  BY <1>1, <1>2 DEF PieceOf
<1>5. w[1] = b[i + 1 - 1]
  BY <1>1, <1>3, <1>4 DEF PieceOf
<1>6. j = i + 1 /\ b[i] = c
  BY <1>2, <1>3, <1>4, <1>5
<1> QED
  BY <1>6 DEF i, j

\* Behind the first word there is a separator, or nothing but the end of the line.
LEMMA Separator ==
    ASSUME NEW b, NEW text, LineOf(b, text), PlainLine(text),
           NEW words, NEW n, NEW s, NEW e, WordsIn(b, words, n, s, e)
    PROVE  \/ /\ b[e[1]] \in {" ", "\t"} /\ e[1] \in 1 .. Len(b) - 1
              /\ BlankUpTo(b, e[1] + 1, s[2])
           \/ n = 1 /\ b[e[1]] \in {"\r", NewLine}
<1> DEFINE l == Len(text)
           i == e[1]
           j == s[2]
<1>1. /\ l \in Nat /\ Len(b) = l + 1 /\ b[l + 1] = NewLine /\ DOMAIN text = 1 .. l
      /\ \A q \in 1 .. l : b[q] = text[q] /\ text[q] # NewLine
  BY DEF LineOf, IsLine
<1>2. i \in 1 .. l + 1 /\ b[i] \in Blank \cup {NewLine} /\ BlankUpTo(b, i, j)
  <2>1. n \in Nat \ {0} /\ 1 \in 1 .. n /\ 1 \in 0 .. n /\ 1 + 1 = 2
    BY DEF WordsIn
  <2>2. s[1] \in 1 .. l /\ e[1] \in s[1] + 1 .. l + 1
    BY <1>1, <2>1 DEF WordsIn
  <2>3. e[1] \in 1 .. l + 1
    BY <1>1, <2>2
  <2> QED
    BY <2>1, <2>3 DEF WordsIn
<1>3. n # 1 => j \in 1 .. l
  <2> SUFFICES ASSUME n # 1 PROVE j \in 1 .. l
    OBVIOUS
  <2>1. 2 \in 1 .. n
    BY DEF WordsIn
  <2>2. s[2] \in 1 .. Len(b) - 1
    BY <2>1 DEF WordsIn
  <2> QED
    BY <1>1, <2>2
<1> HIDE DEF l, i, j
<1>4. j \in i .. l + 1 /\ b[j] \notin Blank /\ \A q \in i .. j - 1 : b[q] \in Blank
  BY <1>1, <1>2 DEF BlankUpTo
<1>5. CASE b[i] \in {" ", "\t"}
  <2>1. b[i] \in Blank
    BY <1>5 DEF Blank
  <2>2. i # l + 1 /\ j # i
    BY <1>1, <1>4, <2>1, Special
  <2>3. i \in 1 .. Len(b) - 1 /\ j \in i + 1 .. Len(b) /\ \A q \in i + 1 .. j - 1 : q \in i .. j - 1
    BY <1>1, <1>2, <1>4, <2>2
  <2> QED
    BY <1>4, <1>5, <2>3 DEF BlankUpTo, i, j
<1>6. CASE b[i] = "\r"
  <2>1. b[i] \in Blank
    BY <1>6 DEF Blank
  <2>2. i # l + 1 /\ j # i
    BY <1>1, <1>4, <2>1, Special
  <2>3. i \in 1 .. l /\ text[i] = "\r"
    BY <1>1, <1>2, <1>6, <2>2
  <2>4. i = l
    BY <1>1, <2>3 DEF PlainLine, l
  <2>5. n = 1
    BY <1>1, <1>3, <1>4, <2>2, <2>4
  <2> QED
    BY <1>6, <2>5 DEF i
<1>7. CASE b[i] = NewLine
  <2>1. i = l + 1
    BY <1>1, <1>2, <1>7
  <2>2. n = 1
    BY <1>1, <1>3, <1>4, <2>1
  <2> QED
    BY <1>7, <2>2 DEF i
<1> QED
  BY <1>2, <1>5, <1>6, <1>7 DEF Blank

LEMMA TurnOfLine ==
    ASSUME NEW b, Ended(b), NEW l, ReadAs(b, l), NEW words, NEW n, NEW s, NEW e, WordsIn(b, words, n, s, e)
    PROVE  l = Dispatch(b, s[1]).val
<1> DEFINE p == 1
           x == s[1]
<1>1. b \in Seq(Char) /\ p \in Nat \ {0}
  BY DEF Ended
<1>2. BlankUpTo(b, p, x)
  <2>1. n \in Nat \ {0} /\ 0 \in 0 .. n /\ e[0] = 1 /\ 0 + 1 = 1
    BY DEF WordsIn
  <2>2. BlankUpTo(b, e[0], s[0 + 1])
    BY <2>1 DEF WordsIn
  <2> QED
    BY <2>1, <2>2
<1>3. l = Turn(b, p).val
  BY FirstTurn
<1> HIDE DEF p, x
<1>4. SkipBlanks(b, p) = x
  BY <1>1, <1>2, BlanksSkipped
<1> QED
  BY <1>3, <1>4 DEF Turn, x

\* A letter with nothing behind it is no line.
LEMMA LetterAlone ==
    ASSUME NEW b, NEW p, b[p] \in {"v", "f", "o", "g"}, b[p + 1] \in {"\r", NewLine}
    PROVE  Dispatch(b, p).val = Nothing
<1>1. b[p + 1] \notin {" ", "\t"} /\ b[p + 1] \notin {"t", "n"}
  BY Special
<1>2. Dispatch(b, p) = Parsed(Nothing, p + 1)
  BY <1>1, Cases
<1> QED
  BY <1>2 DEF Parsed

\* The face line of words that are corners.
LEMMA FaceOfWords ==
    ASSUME NEW b, Ended(b), NEW l, ReadAs(b, l), NEW text, LineOf(b, text), PlainLine(text),
           NEW words, NEW n, NEW s, NEW e, WordsIn(b, words, n, s, e),
           words[1] = <<"f">>, \A k \in 2 .. n : IsCorner(words[k])
    PROVE  l.whole /\ l.corners = [k \in 1 .. n - 1 |-> Meant(words[k + 1])]
<1> DEFINE p == s[1]
           corners == [k \in 1 .. n - 1 |-> Meant(words[k + 1])]
<1>1. e[1] = p + 1 /\ b[p] = "f" /\ l = Dispatch(b, p).val
  BY LetterWord, TurnOfLine
<1>2. b \in Seq(Char) /\ Len(b) \in Nat /\ n \in Nat \ {0} /\ p \in 1 .. Len(b) - 1 /\ n - 1 \in Nat
  BY DEF Ended, WordsIn
<1>3. CASE b[e[1]] \in {" ", "\t"} /\ BlankUpTo(b, e[1] + 1, s[2])
  <2> DEFINE t == [k \in 1 .. n |-> IF k = 1 THEN p + 2 ELSE e[k]]
  <2>1. t[1] = p + 2 /\ \A k \in 2 .. n : t[k] = e[k]
    BY <1>2
  <2>2. t \in Seq(Nat) /\ Len(t) = n
    <3>1. ASSUME NEW k \in 1 .. n PROVE t[k] \in Nat
      <4>1. CASE k = 1
        BY <1>2, <2>1, <4>1
      <4>2. CASE k # 1
        <5>1. k \in 2 .. n /\ k \in 1 .. n /\ s[k] \in 1 .. Len(b) - 1 /\ e[k] \in s[k] + 1 .. Len(b)
          BY <4>2 DEF WordsIn
        <5> QED
          BY <1>2, <2>1, <5>1
      <4> QED
        BY <4>1, <4>2
    <3>2. Listed(t, n)
      BY DEF Listed
    <3> HIDE DEF t
    <3> QED
      BY <1>2, <3>1, <3>2, ListedType
  <2>3. /\ corners = [k \in 1 .. n - 1 |-> corners[k]]
        /\ \A k \in 1 .. n - 1 : corners[k] = Meant(words[k + 1])
    OBVIOUS
  <2> HIDE DEF t, corners
  <2>4. Listed(corners, n - 1) /\ Len(corners) = n - 1
    <3>1. Listed(corners, n - 1)
      BY <2>3 DEF Listed
    <3> DEFINE V == {corners[k] : k \in 1 .. n - 1}
    <3>2. \A k \in 1 .. n - 1 : corners[k] \in V
      OBVIOUS
    <3> HIDE DEF V
    <3>3. Len(corners) = n - 1
      BY <1>2, <3>1, <3>2, ListedType
    <3> QED
      BY <3>1, <3>3
  <2>5. ASSUME NEW k \in 1 .. n PROVE BlankUpTo(b, t[k], s[k + 1])
    <3>1. CASE k = 1
      <4>1. e[1] + 1 = p + 2 /\ k + 1 = 2
        BY <1>1, <1>2, <3>1
      <4> QED
        BY <1>3, <2>1, <3>1, <4>1
    <3>2. CASE k # 1
      <4>1. k \in 2 .. n /\ k \in 0 .. n
        BY <3>2
      <4> QED
        BY <2>1, <4>1 DEF WordsIn
    <3> QED
      BY <3>1, <3>2
  <2>6. ASSUME NEW k \in 1 .. n - 1
        PROVE  \E x \in Nat : BlankUpTo(b, t[k], x) /\ CornerWritten(b, x, t[k + 1], corners[k])
    <3>1. k \in 1 .. n /\ k + 1 \in 1 .. n /\ k + 1 \in 2 .. n
      BY <1>2
    <3> DEFINE x == s[k + 1]
               y == e[k + 1]
               w == words[k + 1]
    <3>2. /\ x \in 1 .. Len(b) - 1 /\ y \in x + 1 .. Len(b) /\ PieceOf(w, b, x, y)
          /\ b[y] \in Blank \cup {NewLine} /\ IsCorner(w) /\ t[k + 1] = y /\ corners[k] = Meant(w)
      BY <2>1, <2>3, <3>1 DEF WordsIn
    <3>3. BlankUpTo(b, t[k], x)
      BY <2>5, <3>1
    <3> HIDE DEF x, y, w
    <3>4. x \in Nat \ {0} /\ y \in x .. Len(b)
      BY <1>2, <3>2
    <3>5. CornerWritten(b, x, y, Meant(w))
      BY <1>2, <3>2, <3>4, CornerInWord
    <3> QED
      BY <3>2, <3>3, <3>4, <3>5
  <2>7. \E x \in Nat : BlankUpTo(b, t[n], x) /\ b[x] = NewLine
    <3>1. s[n + 1] = Len(b) /\ b[Len(b)] = NewLine
      BY DEF WordsIn, Ended
    <3>2. BlankUpTo(b, t[n], s[n + 1])
      BY <1>2, <2>5
    <3> QED
      BY <1>2, <3>1, <3>2
  <2>8. FaceWritten(b, p + 2, t, corners)
    <3>1. (n - 1) + 1 = n
      BY <1>2
    <3> QED
      BY <1>2, <2>1, <2>2, <2>4, <2>6, <2>7, <3>1 DEF FaceWritten
  <2>9. FaceLineWritten(b, corners)
    <3>1. BlankUpTo(b, 1, p)
      <4>1. 0 \in 0 .. n /\ e[0] = 1 /\ 0 + 1 = 1
        BY <1>2 DEF WordsIn
      <4>2. BlankUpTo(b, e[0], s[0 + 1])
        BY <4>1 DEF WordsIn
      <4> QED
        BY <4>1, <4>2
    <3>2. p \in Nat /\ b[p + 1] \in {" ", "\t"}
      <4> DEFINE y == b[e[1]]
      <4>1. p \in Nat
        BY <1>2
      <4>2. y \in {" ", "\t"} /\ b[p + 1] = y
        BY <1>1, <1>3
      <4> HIDE DEF p, y
      <4> QED
        BY <4>1, <4>2
    <3> QED
      BY <1>1, <2>8, <3>1, <3>2 DEF FaceLineWritten
  <2>10. l = [Nothing EXCEPT !.kind = "f", !.whole = TRUE, !.corners = corners]
    BY <2>9, FaceLine
  <2>11. l.whole /\ l.corners = corners
    BY <2>10 DEF Nothing
  <2> QED
    BY <2>11 DEF corners
<1>4. CASE n = 1 /\ b[e[1]] \in {"\r", NewLine}
  <2>1. l = Nothing
    BY <1>1, <1>4, LetterAlone
  <2>2. corners = <<>>
    BY <1>4
  <2> QED
    BY <2>1, <2>2 DEF Nothing
<1> QED
  BY <1>3, <1>4, Separator

LEMMA SkipTo ==
    ASSUME NEW b \in Seq(Char), NEW p \in Nat \ {0}, NEW x \in p .. Len(b), NEW S,
           b[x] \notin S, \A q \in p .. x - 1 : b[q] \in S
    PROVE  SkipWhile(b, p, S) = x
<1>1. b[x] \in Range(b)
  BY DEF Range
<1>2. First(b, p, Range(b) \ S) = x
  <2>1. b[x] \in Range(b) \ S /\ \A q \in p .. x - 1 : b[q] \notin Range(b) \ S
    BY <1>1
  <2> QED
    BY <2>1, FirstIs
<1> QED
  BY <1>2 DEF SkipWhile

\* parse_float stops behind a number of digits, and stays where there is none.
LEMMA FloatRead ==
    ASSUME NEW b \in Seq(Char), NEW q \in Nat \ {0}, NEW x, BlankUpTo(b, q, x),
           NEW e, NEW m, NumberAt(b, x, e, m), b[e] \in Blank \cup {NewLine}
    PROVE  ParseFloat(b, q) = e
<1> DEFINE start == SkipOne(b, x, {"-"})
<1>1. x \in Nat \ {0} /\ Len(b) \in Nat /\ SkipBlanks(b, q) = x
  BY BlanksSkipped DEF BlankUpTo
<1>2. /\ e \in start .. Len(b) /\ b[e] \notin Digit /\ \A r \in start .. e - 1 : b[r] \in Digit
      /\ start = IF b[x] = "-" THEN x + 1 ELSE x
  BY DEF NumberAt, SkipOne
<1>3. /\ b[e] # "." /\ b[e] \notin {"e", "E"} /\ b[e] # "+"
      /\ \A c \in Digit : c \in {"0", "1", "2", "3", "4", "5", "6", "7", "8", "9"}
  <2>1. b[e] # "." /\ b[e] \notin {"e", "E"}
    BY NoDigit
  <2>2. b[e] # "+"
    BY NewLineAssumption DEF Blank
  <2>3. \A c \in Digit : c \in {"0", "1", "2", "3", "4", "5", "6", "7", "8", "9"}
    BY DigitLetters
  <2> QED
    BY <2>1, <2>2, <2>3
<1>4. b[x] # "+"
  <2> SUFFICES ASSUME b[x] = "+" PROVE FALSE
    OBVIOUS
  <2>1. start = x /\ "+" \notin Digit
    BY <1>2, <1>3
  <2>2. e # x
    BY <1>3
  <2>3. x \in start .. e - 1
    BY <1>1, <1>2, <2>1, <2>2
  <2> QED
    BY <1>2, <2>1, <2>3
<1>5. SkipOne(b, x, {"+", "-"}) = start
  BY <1>2, <1>4 DEF SkipOne
<1>6. start \in Nat \ {0} /\ e \in Nat \ {0} /\ e \in e .. Len(b)
  BY <1>1, <1>2
<1> HIDE DEF start
<1>7. Whole(b, x) = e
  <2>1. SkipWhile(b, start, Digit) = e
    BY <1>2, <1>6, SkipTo
  <2> QED
    BY <1>5, <2>1 DEF Whole
<1>8. Fraction(b, e) = e
  <2>1. SkipOne(b, e, {"."}) = e
    BY <1>3 DEF SkipOne
  <2>2. e .. e - 1 = {}
    BY <1>6
  <2>3. SkipWhile(b, e, Digit) = e
    BY <1>2, <1>6, <2>2, SkipTo
  <2> QED
    BY <2>1, <2>3 DEF Fraction
<1>9. Exponent(b, e) = e
  BY <1>3 DEF Exponent
<1> QED
  BY <1>1, <1>7, <1>8, <1>9 DEF ParseFloat

\* From q on the words behind the k-th are to be read.
Reached(b, n, s, k, q) == q \in Nat \ {0} /\ BlankUpTo(b, q, IF k < n THEN s[k + 1] ELSE Len(b))

LEMMA FloatStep ==
    ASSUME NEW b, Ended(b), NEW words, NEW n, NEW s, NEW e, WordsIn(b, words, n, s, e),
           \A k \in 2 .. n : IsNumber(words[k]),
           NEW k \in Nat \ {0}, NEW q, Reached(b, n, s, k, q)
    PROVE  Reached(b, n, s, k + 1, ParseFloat(b, q))
<1>1. b \in Seq(Char) /\ Len(b) \in Nat \ {0} /\ b[Len(b)] = NewLine /\ n \in Nat
  BY DEF Ended, WordsIn
<1>2. CASE k < n
  <2> DEFINE x == s[k + 1]
             y == e[k + 1]
             w == words[k + 1]
             z == s[k + 2]
  <2>1. k + 1 \in 2 .. n /\ k + 1 \in 1 .. n /\ k + 1 \in 0 .. n /\ (k + 1) + 1 = k + 2
    BY <1>1, <1>2
  <2>2. /\ x \in 1 .. Len(b) - 1 /\ y \in x + 1 .. Len(b) /\ PieceOf(w, b, x, y)
        /\ b[y] \in Blank \cup {NewLine} /\ IsNumber(w) /\ BlankUpTo(b, y, z)
        /\ s[n + 1] = Len(b)
    BY <2>1 DEF WordsIn
  <2>3. q \in Nat \ {0} /\ BlankUpTo(b, q, x)
    BY <1>2 DEF Reached
  <2>4. z = IF k + 1 < n THEN s[(k + 1) + 1] ELSE Len(b)
    <3>1. ~(k + 1 < n) => k + 2 = n + 1
      BY <1>1, <1>2
    <3> QED
      BY <2>1, <2>2, <3>1
  <2> HIDE DEF x, y, w, z
  <2>5. x \in Nat \ {0} /\ y \in x .. Len(b) /\ y \in Nat \ {0} /\ b[y] \notin Digit /\ w = Piece(b, x, y - 1)
    BY <1>1, <2>2, NoDigit DEF PieceOf
  <2>6. NumberAt(b, x, y, Number(w))
    BY <1>1, <2>2, <2>5, NumberInWord
  <2>7. ParseFloat(b, q) = y
    BY <1>1, <2>2, <2>3, <2>6, FloatRead
  <2> QED
    BY <2>2, <2>4, <2>5, <2>7 DEF Reached
<1>3. CASE ~(k < n)
  <2> DEFINE z == Len(b)
  <2>1. q \in Nat \ {0} /\ BlankUpTo(b, q, z)
    BY <1>3 DEF Reached
  <2>2. z \in 1 .. Len(b) /\ b[z] \in Blank \cup {NewLine, "/"} /\ b[z] \in Blank \cup {NewLine}
    BY <1>1
  <2>3. ~(k + 1 < n)
    BY <1>1, <1>3
  <2>8. z \in Nat /\ Len(b) = z /\ b[z] = NewLine
    BY <1>1
  <2> HIDE DEF z
  <2>7. z \in z .. Len(b) /\ z .. z - 1 = {} /\ b[z] \notin Blank
    <3>1. z \in z .. Len(b) /\ z .. z - 1 = {}
      BY <2>8
    <3>2. b[z] \notin Blank
      BY <2>8, Special, Zenon
    <3> QED
      BY <3>1, <3>2
  <2>4. NumberAt(b, z, z, 0)
    BY <1>1, <2>2, NumberMissing
  <2>5. ParseFloat(b, q) = z
    BY <1>1, <2>1, <2>2, <2>4, FloatRead
  <2>6. BlankUpTo(b, z, z)
    BY <2>7 DEF BlankUpTo
  <2> QED
    BY <1>1, <2>2, <2>3, <2>5, <2>6 DEF Reached, z
<1> QED
  BY <1>2, <1>3

\* The vertex line of words that are numbers.
LEMMA VertexOfWords ==
    ASSUME NEW b, Ended(b), NEW l, ReadAs(b, l), NEW text, LineOf(b, text), PlainLine(text),
           NEW words, NEW n, NEW s, NEW e, WordsIn(b, words, n, s, e),
           words[1] = <<"v">>, \A k \in 2 .. n : IsNumber(words[k])
    PROVE  l.coloured = (n - 1 > 3)
<1> DEFINE p == s[1]
<1>1. e[1] = p + 1 /\ b[p] = "v" /\ l = Dispatch(b, p).val
  BY LetterWord, TurnOfLine
<1>2. b \in Seq(Char) /\ Len(b) \in Nat /\ n \in Nat \ {0} /\ p \in 1 .. Len(b) - 1 /\ s[n + 1] = Len(b)
      /\ b[Len(b)] = NewLine
  BY DEF Ended, WordsIn
<1>3. CASE b[e[1]] \in {" ", "\t"} /\ BlankUpTo(b, e[1] + 1, s[2])
  <2> DEFINE q == p + 2
             third == ParseFloat(b, ParseFloat(b, ParseFloat(b, q)))
             z == IF 4 < n THEN s[5] ELSE Len(b)
  <2>1. Reached(b, n, s, 1, q)
    <3>1. q \in Nat \ {0} /\ BlankUpTo(b, q, s[2])
      <4>1. e[1] + 1 = q /\ q \in Nat \ {0}
        BY <1>1, <1>2
      <4> HIDE DEF q
      <4> QED
        BY <1>3, <4>1, Zenon
    <3>2. s[2] = IF 1 < n THEN s[1 + 1] ELSE Len(b)
      <4>1. ~(1 < n) => n + 1 = 2
        BY <1>2
      <4> QED
        BY <1>2, <4>1
    <3> QED
      BY <3>1, <3>2 DEF Reached
  <2> HIDE DEF q
  <2>2. Reached(b, n, s, 2, ParseFloat(b, q))
    BY <2>1, FloatStep
  <2>3. Reached(b, n, s, 3, ParseFloat(b, ParseFloat(b, q)))
    BY <2>2, FloatStep
  <2>4. Reached(b, n, s, 4, third)
    BY <2>3, FloatStep
  <2> HIDE DEF third
  <2>5. third \in Nat \ {0} /\ BlankUpTo(b, third, z)
    BY <2>4 DEF Reached
  <2> HIDE DEF z
  <2>6. SkipBlanks(b, third) = z
    BY <1>2, <2>5, BlanksSkipped
  <2>7. (b[z] # NewLine) = (n - 1 > 3)
    <3>1. CASE 4 < n
      <4>1. 5 \in 1 .. n
        BY <1>2, <3>1
      <4>2. b[s[5]] # NewLine
        BY <4>1 DEF WordsIn
      <4>3. n - 1 > 3 /\ z = s[5]
        BY <1>2, <3>1 DEF z
      <4> QED
        BY <4>2, <4>3
    <3>2. CASE ~(4 < n)
      <4>1. ~(n - 1 > 3) /\ z = Len(b)
        BY <1>2, <3>2 DEF z
      <4> QED
        BY <1>2, <4>1
    <3> QED
      BY <3>1, <3>2
  <2>8. Dispatch(b, p) = ParseVertex(b, q)
    <3> DEFINE x == p
    <3>1. b[x] = "v" /\ b[x + 1] \in {" ", "\t"} /\ x + 2 = q
      BY <1>1, <1>3 DEF q
    <3> HIDE DEF x
    <3>2. Dispatch(b, x) = ParseVertex(b, q)
      BY <3>1, Cases
    <3> QED
      BY <3>2 DEF x
  <2>9. ParseVertex(b, q).val = [Nothing EXCEPT !.kind = "v", !.coloured = (b[z] # NewLine)]
    BY <2>6 DEF ParseVertex, Parsed, third
  <2>10. l.coloured = (b[z] # NewLine)
    BY <1>1, <2>8, <2>9 DEF Nothing
  <2> QED
    BY <2>7, <2>10, Zenon
<1>4. CASE n = 1 /\ b[e[1]] \in {"\r", NewLine}
  <2>1. l = Nothing
    BY <1>1, <1>4, LetterAlone
  <2>2. l.coloured = FALSE /\ ~(n - 1 > 3)
    BY <1>4, <2>1 DEF Nothing
  <2>3. (n - 1 > 3) = FALSE
    BY <2>2
  <2> QED
    BY <2>2, <2>3, Zenon
<1> QED
  BY <1>3, <1>4, Separator

LEMMA GreatestNumber ==
    ASSUME NEW l \in Nat, NEW S \in SUBSET (1 .. l), S # {}
    PROVE  \E x \in S : \A y \in S : x >= y
<1> DEFINE T == {l - y : y \in S}
<1>0. \A y \in S : y \in Nat /\ l - y \in Nat
  OBVIOUS
<1>1. T \in SUBSET Nat /\ T # {}
  BY <1>0
<1> HIDE DEF T
<1>2. PICK m \in T : \A k \in T : m <= k
  BY <1>1, LeastNumber
<1>3. PICK x \in S : m = l - x
  BY DEF T
<1>4. \A y \in S : l - x <= l - y
  BY <1>2, <1>3 DEF T
<1>5. \A y \in S : x >= y
  <2> TAKE y \in S
  <2>1. l - x <= l - y /\ x \in Nat /\ y \in Nat
    BY <1>0, <1>4
  <2> QED
    BY <2>1
<1> QED
  BY <1>5

\* The rest of a line is what stands from its second word on.
LEMMA RestIs ==
    ASSUME NEW b, NEW text, LineOf(b, text), NEW words, NEW n, NEW s, NEW e, WordsIn(b, words, n, s, e)
    PROVE  /\ n = 1 => Rest(text) = <<>>
           /\ n # 1 => \E m \in s[2] .. Len(b) - 1 :
                         /\ b[m] \notin Blank /\ \A q \in m + 1 .. Len(b) - 1 : b[q] \in Blank
                         /\ Rest(text) = SubSeq(b, s[2], m)
<1> DEFINE l == Len(text)
           i == s[1]
           j == e[1]
           k == s[2]
           solid == {q \in DOMAIN text : text[q] \notin Blank}
           behind == {q \in solid : \E blank \in DOMAIN text \ solid, first \in solid :
                                        first < blank /\ blank < q}
<1>1. /\ l \in Nat /\ Len(b) = l + 1 /\ DOMAIN text = 1 .. l
      /\ \A q \in 1 .. l : b[q] = text[q] /\ text[q] # NewLine
  BY DEF LineOf, IsLine
<1>2. /\ n \in Nat \ {0} /\ i \in 1 .. Len(b) - 1 /\ j \in i + 1 .. Len(b)
      /\ b[i] \notin Blank /\ b[j] \in Blank \cup {NewLine} /\ \A q \in i .. j - 1 : b[q] \notin Blank
      /\ BlankUpTo(b, 1, i) /\ BlankUpTo(b, j, k)
      /\ n = 1 => k = Len(b)
      /\ n # 1 => k \in 1 .. Len(b) - 1 /\ b[k] \notin Blank
  <2>1. n \in Nat \ {0} /\ e[0] = 1 /\ s[n + 1] = Len(b)
    BY DEF WordsIn
  <2>2. 1 \in 1 .. n /\ 1 \in 0 .. n /\ 0 \in 0 .. n /\ 0 + 1 = 1 /\ 1 + 1 = 2 /\ (n # 1 => 2 \in 1 .. n)
    BY <2>1
  <2>3. BlankUpTo(b, 1, i)
    <3>1. BlankUpTo(b, e[0], s[0 + 1])
      BY <2>2 DEF WordsIn
    <3> QED
      BY <2>1, <2>2, <3>1
  <2>4. BlankUpTo(b, j, k)
    <3>1. BlankUpTo(b, e[1], s[1 + 1])
      BY <2>2 DEF WordsIn
    <3> QED
      BY <2>2, <3>1
  <2>5. n = 1 => k = Len(b)
    BY <2>1, <2>2
  <2>6. n # 1 => k \in 1 .. Len(b) - 1 /\ b[k] \notin Blank
    BY <2>2 DEF WordsIn
  <2>7. /\ i \in 1 .. Len(b) - 1 /\ j \in i + 1 .. Len(b)
        /\ b[i] \notin Blank /\ b[j] \in Blank \cup {NewLine} /\ \A q \in i .. j - 1 : b[q] \notin Blank
    BY <2>2 DEF WordsIn
  <2> QED
    BY <2>1, <2>3, <2>4, <2>5, <2>6, <2>7
<1>3. /\ i \in 1 .. l /\ j \in i + 1 .. l + 1 /\ k \in j .. l + 1
      /\ \A q \in 1 .. i - 1 : b[q] \in Blank
      /\ \A q \in j .. k - 1 : b[q] \in Blank
  BY <1>1, <1>2 DEF BlankUpTo
<1>4. \A q : q \in solid <=> q \in 1 .. l /\ b[q] \notin Blank
  BY <1>1
<1>5. \A q : q \in DOMAIN text \ solid <=> q \in 1 .. l /\ b[q] \in Blank
  BY <1>1
<1>6. Rest(text) = IF behind = {} THEN <<>> ELSE SubSeq(text, Min(behind), Max(behind))
  BY DEF Rest
<1>7. \A q : q \in behind <=> q \in solid /\ \E blank \in DOMAIN text \ solid, first \in solid :
                                                  first < blank /\ blank < q
  OBVIOUS
<1> HIDE DEF l, i, j, k, solid, behind
<1>8. ASSUME NEW q \in behind PROVE q \in k .. l /\ b[q] \notin Blank
  <2>1. PICK blank \in DOMAIN text \ solid, first \in solid : first < blank /\ blank < q
    BY <1>7
  <2>2. /\ q \in 1 .. l /\ b[q] \notin Blank /\ blank \in 1 .. l /\ b[blank] \in Blank
        /\ first \in 1 .. l /\ b[first] \notin Blank
    BY <1>4, <1>5, <1>7
  <2>3. first >= i
    BY <1>1, <1>3, <2>2
  <2>4. blank >= j
    <3>1. blank \notin i .. j - 1
      BY <1>2, <2>2 DEF i, j
    <3> QED
      BY <1>1, <1>3, <2>1, <2>2, <2>3, <3>1
  <2>5. q \notin j .. k - 1
    BY <1>3, <2>2
  <2> QED
    BY <1>1, <1>3, <2>1, <2>2, <2>4, <2>5
<1>9. CASE n = 1
  <2>1. k .. l = {}
    BY <1>1, <1>2, <1>9 DEF k
  <2>2. behind = {}
    BY <1>8, <2>1
  <2> QED
    BY <1>6, <1>9, <2>2
<1>10. CASE n # 1
  <2>1. k \in 1 .. l /\ b[k] \notin Blank /\ b[j] \in Blank /\ j \in 1 .. l /\ j # k /\ b[i] \notin Blank
    <3>1. k \in 1 .. l /\ b[k] \notin Blank /\ b[i] \notin Blank
      BY <1>1, <1>2, <1>10 DEF k, i
    <3>2. j \in 1 .. l
      BY <1>1, <1>3, <3>1
    <3>3. b[j] \in Blank
      BY <1>1, <1>2, <3>2 DEF j
    <3> QED
      BY <3>1, <3>2, <3>3
  <2>2. i \in solid /\ j \in DOMAIN text \ solid /\ i < j
    BY <1>1, <1>3, <1>4, <1>5, <2>1
  <2>3. ASSUME NEW q \in k .. l, b[q] \notin Blank PROVE q \in behind
    <3>1. q \in 1 .. l /\ j < q
      BY <1>1, <1>3, <2>1
    <3>2. q \in solid
      BY <1>4, <2>3, <3>1
    <3> QED
      BY <1>7, <2>2, <3>1, <3>2
  <2>4. k \in behind
    <3>1. k \in k .. l
      BY <1>1, <2>1
    <3> QED
      BY <2>1, <2>3, <3>1
  <2>5. Min(behind) = k
    <3>1. \A y \in behind : y \in Int /\ k <= y
      BY <1>1, <1>3, <1>8
    <3>2. ASSUME NEW z \in behind, \A y \in behind : z <= y PROVE z = k
      BY <1>1, <1>3, <2>4, <3>1, <3>2
    <3> QED
      BY <2>4, <3>1, <3>2 DEF Min
  <2>6. behind \in SUBSET (1 .. l) /\ behind # {}
    BY <1>1, <1>3, <1>8, <2>4
  <2>7. PICK m \in behind : \A y \in behind : m >= y
    BY <1>1, <2>6, GreatestNumber
  <2>8. Max(behind) = m
    <3>1. ASSUME NEW z \in behind, \A y \in behind : z >= y PROVE z = m
      <4>1. z \in Int /\ m \in Int /\ z >= m /\ m >= z
        BY <2>6, <2>7, <3>1
      <4> QED
        BY <4>1
    <3> QED
      BY <2>7, <3>1 DEF Max
  <2>9. m \in k .. l /\ b[m] \notin Blank
    BY <1>8, <2>7
  <2>10. ASSUME NEW q \in m + 1 .. l PROVE b[q] \in Blank
    <3>1. q \in k .. l /\ ~(m >= q)
      BY <1>1, <1>3, <2>9
    <3> QED
      BY <2>3, <2>7, <3>1
  <2>11. Rest(text) = SubSeq(b, k, m)
    <3>1. k \in Nat \ {0} /\ m \in k - 1 .. Len(text)
      BY <1>1, <2>1, <2>9 DEF l
    <3>2. Piece(text, k, m) = Piece(b, k, m)
      BY <3>1, PieceOfLine
    <3>3. Rest(text) = Piece(text, k, m)
      BY <1>6, <2>5, <2>6, <2>8 DEF Piece
    <3> QED
      BY <3>2, <3>3 DEF Piece
  <2>12. Len(b) - 1 = l
    BY <1>1
  <2> QED
    BY <1>10, <2>9, <2>10, <2>11, <2>12 DEF k
<1> QED
  BY <1>9, <1>10

LEMMA NameRead ==
    ASSUME NEW b, Ended(b), NEW text, LineOf(b, text),
           NEW words, NEW n, NEW s, NEW e, WordsIn(b, words, n, s, e),
           NEW q \in Nat \ {0}, BlankUpTo(b, q, s[2]), NEW kind
    PROVE  ParseName(kind, b, q).val.name = Rest(text)
<1> DEFINE p == s[2]
           end == Len(b)
<1>1. /\ b \in Seq(Char) /\ end \in Nat /\ end = Len(text) + 1 /\ Len(text) \in Nat /\ b[end] = NewLine
      /\ \A i \in 1 .. end - 1 : b[i] # NewLine
  BY DEF LineOf, IsLine
<1>2. SkipBlanks(b, q) = p /\ p \in Nat \ {0} /\ p <= end
  <2>1. BlankUpTo(b, q, p)
    OBVIOUS
  <2> HIDE DEF p
  <2>2. SkipBlanks(b, q) = p
    BY <1>1, <2>1, BlanksSkipped
  <2>3. p \in q .. Len(b)
    BY <2>1 DEF BlankUpTo
  <2> QED
    BY <1>1, <2>2, <2>3
<1>3. ParseName(kind, b, q).val.name = Name(b, p)
  BY <1>2 DEF ParseName, Parsed, Nothing
<1>4. /\ n = 1 => Rest(text) = <<>>
      /\ n # 1 => \E m \in p .. end - 1 :
                    /\ b[m] \notin Blank /\ \A i \in m + 1 .. end - 1 : b[i] \in Blank
                    /\ Rest(text) = SubSeq(b, p, m)
  BY RestIs
<1>5. n = 1 => p = end
  BY DEF WordsIn
<1> HIDE DEF p, end
<1>6. LineEnd(b, p) = end
  <2>1. end \in p .. Len(b) /\ b[end] \in {NewLine} /\ \A i \in p .. end - 1 : b[i] \notin {NewLine}
    BY <1>1, <1>2 DEF end
  <2> QED
    BY <1>1, <1>2, <2>1, FirstIs DEF LineEnd
<1>7. CASE n = 1
  <2> DEFINE x == p - 1
  <2>1. x \in p - 1 .. end - 1 /\ x = p - 1 /\ x + 1 .. end - 1 = {}
    BY <1>1, <1>2, <1>5, <1>7
  <2> HIDE DEF x
  <2>2. Name(b, p) = SubSeq(b, p, x)
    BY <1>1, <1>2, <1>6, <2>1, NameEnd
  <2>3. SubSeq(b, p, p - 1) = <<>>
    <3>1. p - 1 \in Nat /\ p <= (p - 1) + 1 /\ p - 1 <= Len(b) /\ (p - 1) - p + 1 = 0
      BY <1>1, <1>2 DEF end
    <3>2. SubSeq(b, p, p - 1) \in Seq(Char) /\ Len(SubSeq(b, p, p - 1)) = 0
      BY <1>1, <1>2, <3>1, SubSeqFacts
    <3> QED
      BY <3>2
  <2> QED
    BY <1>3, <1>4, <1>7, <2>1, <2>2, <2>3
<1>8. CASE n # 1
  <2>1. PICK m \in p .. end - 1 :
          /\ b[m] \notin Blank /\ \A i \in m + 1 .. end - 1 : b[i] \in Blank
          /\ Rest(text) = SubSeq(b, p, m)
    BY <1>4, <1>8
  <2>2. m \in p - 1 .. end - 1
    BY <1>1, <1>2
  <2>3. Name(b, p) = SubSeq(b, p, m)
    BY <1>1, <1>2, <1>6, <2>1, <2>2, NameEnd
  <2> QED
    BY <1>3, <2>1, <2>3
<1> QED
  BY <1>7, <1>8

LEMMA KeywordWord ==
    ASSUME NEW b, NEW words, NEW n, NEW s, NEW e, WordsIn(b, words, n, s, e),
           NEW w \in {"m", "u"}, words[1] = Keywords[w]
    PROVE  /\ e[1] = s[1] + 6 /\ b[s[1]] = w
           /\ Starts(b, s[1], Keywords[w]) <=> b[e[1]] \in Blank
<1> DEFINE word == words[1]
           p == s[1]
           j == e[1]
<1>1. /\ n \in Nat \ {0} /\ p \in 1 .. Len(b) - 1 /\ j \in p + 1 .. Len(b) /\ PieceOf(word, b, p, j)
  BY DEF WordsIn
<1>2. Len(Keywords[w]) = 6 /\ Keywords[w][1] = w
  <2>1. Keywords["m"][1] = "m" /\ Keywords["u"][1] = "u"
    BY DEF Keywords
  <2> QED
    BY <2>1, KeywordFacts
<1>3. word = Keywords[w]
  OBVIOUS
<1> HIDE DEF word, p, j
<1>4. p \in Nat /\ j \in Nat /\ j <= Len(b) /\ j - p = 6
  <2>1. Len(word) = j - p /\ Len(word) = 6
    BY <1>1, <1>2, <1>3 DEF PieceOf
  <2> QED
    <3>1. Len(b) \in Nat
      OBVIOUS
    <3> DEFINE l == Len(b)
    <3>2. l \in Nat /\ p \in 1 .. l - 1 /\ j \in p + 1 .. l /\ j - p = 6
      BY <1>1, <2>1, <3>1
    <3> HIDE DEF l
    <3>3. p \in Nat /\ j \in Nat /\ j <= l /\ j - p = 6
      BY <3>2
    <3> QED
      BY <3>3 DEF l
<1>5. j = p + 6 /\ b[p] = w
  <2>1. word[1] = b[p + 1 - 1]
    BY <1>1, <1>4 DEF PieceOf
  <2> QED
    BY <1>2, <1>3, <1>4, <2>1
<1>6. word = SubSeq(b, p, j - 1)
  BY <1>1 DEF PieceOf, Piece
<1>7. Starts(b, p, Keywords[w]) <=> b[j] \in Blank
  <2>1. p + Len(Keywords[w]) = j
    BY <1>2, <1>5
  <2> QED
    BY <1>3, <1>4, <1>6, <2>1 DEF Starts
<1> QED
  BY <1>5, <1>7 DEF p, j

\* The line that begins with the word for a name.
LEMMA NameOfWords ==
    ASSUME NEW b, Ended(b), NEW l, ReadAs(b, l), NEW text, LineOf(b, text), PlainLine(text),
           NEW words, NEW n, NEW s, NEW e, WordsIn(b, words, n, s, e),
           words[1] \in {<<"o">>, <<"g">>, Keywords.u, Keywords.m}
    PROVE  l.name = Rest(text)
<1> DEFINE p == s[1]
<1>1. l = Dispatch(b, p).val
  BY TurnOfLine
<1>2. b \in Seq(Char) /\ Len(b) \in Nat /\ n \in Nat \ {0} /\ p \in 1 .. Len(b) - 1
  BY DEF Ended, WordsIn
<1>3. n = 1 => Rest(text) = <<>>
  BY RestIs
<1>4. ASSUME NEW c \in {"o", "g"}, words[1] = <<c>> PROVE l.name = Rest(text)
  <2>1. e[1] = p + 1 /\ b[p] = c
    BY <1>4, LetterWord
  <2>2. CASE b[e[1]] \in {" ", "\t"} /\ BlankUpTo(b, e[1] + 1, s[2])
    <3> DEFINE q == p + 2
    <3>1. q \in Nat \ {0} /\ e[1] + 1 = q
      BY <1>2, <2>1
    <3> HIDE DEF q
    <3>2. BlankUpTo(b, q, s[2])
      BY <2>2, <3>1, Zenon
    <3>3. Dispatch(b, p) = ParseName(c, b, q)
      <4> DEFINE x == p
      <4>1. b[x] = c /\ b[x + 1] \in {" ", "\t"} /\ x + 2 = q
        BY <2>1, <2>2 DEF q
      <4> HIDE DEF x
      <4>2. Dispatch(b, x) = ParseName(c, b, x + 2)
        BY <4>1, NameCase
      <4> QED
        BY <4>1, <4>2 DEF x
    <3>4. ParseName(c, b, q).val.name = Rest(text)
      BY <3>1, <3>2, NameRead
    <3> QED
      BY <1>1, <3>3, <3>4
  <2>3. CASE n = 1 /\ b[e[1]] \in {"\r", NewLine}
    <3>1. l = Nothing
      BY <1>1, <2>1, <2>3, LetterAlone
    <3> QED
      BY <1>3, <2>3, <3>1 DEF Nothing
  <2> QED
    BY <2>2, <2>3, Separator
<1>5. ASSUME NEW w \in {"m", "u"}, words[1] = Keywords[w] PROVE l.name = Rest(text)
  <2> DEFINE q == p + 6
  <2>1. e[1] = q /\ b[p] = w /\ (Starts(b, p, Keywords[w]) <=> b[e[1]] \in Blank)
    BY <1>5, KeywordWord
  <2>2. Dispatch(b, p) = IF Starts(b, p, Keywords[w]) THEN ParseName(w, b, q) ELSE Parsed(Nothing, p)
    BY <2>1, Cases
  <2>3. CASE b[e[1]] \in Blank
    <3>1. 1 \in 0 .. n /\ 1 + 1 = 2 /\ q \in Nat \ {0}
      BY <1>2
    <3>2. BlankUpTo(b, e[1], s[1 + 1])
      BY <3>1 DEF WordsIn
    <3>3. BlankUpTo(b, q, s[2])
      BY <2>1, <3>1, <3>2
    <3>4. ParseName(w, b, q).val.name = Rest(text)
      BY <3>1, <3>3, NameRead
    <3> QED
      BY <1>1, <2>1, <2>2, <2>3, <3>4
  <2>4. CASE b[e[1]] \notin Blank
    <3>1. n = 1
      BY <2>4, Separator DEF Blank
    <3>2. l = Nothing
      BY <1>1, <2>1, <2>2, <2>4 DEF Parsed
    <3> QED
      BY <1>3, <3>1, <3>2 DEF Nothing
  <2> QED
    BY <2>3, <2>4
<1>6. Keywords.u = Keywords["u"] /\ Keywords.m = Keywords["m"]
  OBVIOUS
<1> QED
  BY <1>4, <1>5, <1>6

\* What AsWritten says of one line.
LineAsWritten(l, text) ==
    LET words == Words(text)
        arguments == Tail(words)
    IN  words # <<>> /\ PlainLine(text) =>
          /\ words[1] = <<"f">> /\ (\A k \in DOMAIN arguments : IsCorner(arguments[k])) =>
                l.whole /\ l.corners = [k \in DOMAIN arguments |-> Meant(arguments[k])]
          /\ words[1] = <<"v">> /\ (\A k \in DOMAIN arguments : IsNumber(arguments[k])) =>
                l.coloured = (Len(arguments) > 3)
          /\ words[1] \in {<<"o">>, <<"g">>, Keywords.u, Keywords.m} => l.name = Rest(text)

LEMMA LineRead ==
    ASSUME NEW text, NEW b, LineOf(b, text), Ended(b), NEW l, ReadAs(b, l)
    PROVE  LineAsWritten(l, text)
<1> DEFINE words == Words(text)
           arguments == Tail(words)
<1>0. words = Words(text)
  OBVIOUS
<1> HIDE DEF words
<1> SUFFICES ASSUME words # <<>>, PlainLine(text)
             PROVE  /\ words[1] = <<"f">> /\ (\A k \in DOMAIN arguments : IsCorner(arguments[k])) =>
                         l.whole /\ l.corners = [k \in DOMAIN arguments |-> Meant(arguments[k])]
                    /\ words[1] = <<"v">> /\ (\A k \in DOMAIN arguments : IsNumber(arguments[k])) =>
                         l.coloured = (Len(arguments) > 3)
                    /\ words[1] \in {<<"o">>, <<"g">>, Keywords.u, Keywords.m} => l.name = Rest(text)
  BY <1>0 DEF LineAsWritten
<1>1. PICK n, s, e : WordsIn(b, words, n, s, e)
  BY <1>0, WordsInLine
<1>2. /\ n \in Nat \ {0} /\ DOMAIN arguments = 1 .. n - 1 /\ Len(arguments) = n - 1
      /\ \A k \in 1 .. n - 1 : arguments[k] = words[k + 1]
  <2> DEFINE V == {words[k] : k \in 1 .. n}
  <2>1. n \in Nat \ {0} /\ Listed(words, n)
    BY <1>1 DEF WordsIn, Listed
  <2>2. \A k \in 1 .. n : words[k] \in V
    OBVIOUS
  <2> HIDE DEF V
  <2>3. words \in Seq(V) /\ Len(words) = n
    BY <2>1, <2>2, ListedType
  <2> QED
    BY <2>1, <2>3
<1> HIDE DEF arguments
<1>3. ASSUME words[1] = <<"f">>, \A k \in DOMAIN arguments : IsCorner(arguments[k])
      PROVE  l.whole /\ l.corners = [k \in DOMAIN arguments |-> Meant(arguments[k])]
  <2>1. ASSUME NEW k \in 2 .. n PROVE IsCorner(words[k])
    <3>1. k - 1 \in 1 .. n - 1 /\ (k - 1) + 1 = k
      BY <1>2
    <3> QED
      BY <1>2, <1>3, <3>1
  <2>2. l.whole /\ l.corners = [k \in 1 .. n - 1 |-> Meant(words[k + 1])]
    BY <1>1, <1>3, <2>1, FaceOfWords
  <2>3. [k \in 1 .. n - 1 |-> Meant(words[k + 1])] = [k \in DOMAIN arguments |-> Meant(arguments[k])]
    BY <1>2
  <2> QED
    BY <2>2, <2>3, Zenon
<1>4. ASSUME words[1] = <<"v">>, \A k \in DOMAIN arguments : IsNumber(arguments[k])
      PROVE  l.coloured = (Len(arguments) > 3)
  <2>1. ASSUME NEW k \in 2 .. n PROVE IsNumber(words[k])
    <3>1. k - 1 \in 1 .. n - 1 /\ (k - 1) + 1 = k
      BY <1>2
    <3> QED
      BY <1>2, <1>4, <3>1
  <2>2. l.coloured = (n - 1 > 3)
    BY <1>1, <1>4, <2>1, VertexOfWords
  <2>3. Len(arguments) = n - 1
    BY <1>2
  <2> QED
    BY <2>2, <2>3, Zenon
<1>5. words[1] \in {<<"o">>, <<"g">>, Keywords.u, Keywords.m} => l.name = Rest(text)
  BY <1>1, NameOfWords
<1> QED
  BY <1>3, <1>4, <1>5, Zenon

\* For every file and every block size, however long the lines: of a face line
\* whose numbers are in the range of int, parse_buffer makes the corners as they
\* are written, v, v/t, v//n or v/t/n, all of them and no others; it sees colours
\* behind more than three coordinates only; and a name is the rest of its line.
THEOREM AsWrittenTheorem == TextSpec => []AsWritten
<1>1. TextInv => AsWritten
  <2> SUFFICES ASSUME TextInv PROVE AsWritten
    OBVIOUS
  <2> DEFINE x == Lines
  <2>1. WholeLines(parsed) /\ lines = Turns(parsed)
    BY DEF TextInv, Seamless
  <2>2. x = Front(Split(parsed, {NewLine}))
    BY DEF Lines
  <2> HIDE DEF x
  <2>3. Apart(lines, x)
    BY <2>1, <2>2, ReadApart
  <2>4. ASSUME NEW i \in DOMAIN lines PROVE LineAsWritten(lines[i], x[i])
    <3> DEFINE b == Append(x[i], NewLine)
               l == lines[i]
               text == x[i]
    <3>1. IsLine(text) /\ Ended(b) /\ ReadAs(b, l)
      BY <2>3 DEF Apart, ReadAs
    <3>2. LineOf(b, text)
      BY <3>1, LineIs
    <3> HIDE DEF b, l, text
    <3>3. LineAsWritten(l, text)
      BY <3>1, <3>2, LineRead
    <3> QED
      BY <3>3 DEF l, text
  <2> QED
    BY <2>4, Zenon DEF AsWritten, LineAsWritten, x
<1> QED
  BY <1>1, TextInvInit, TextInvStep, PTL DEF TextSpec
=============================================================================
