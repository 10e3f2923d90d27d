-------------------------- MODULE FlatArraysProofs --------------------------
(* Induction and recursion over the natural numbers, from the least-number   *)
(* principle of the library, and with them what Sums and FlattenSeq compute  *)
(* for sequences of every length.                                           *)
EXTENDS FlatArrays, SequencesExt, SequenceTheorems, WellFoundedInduction, TLAPS

\* The library's well-foundedness of <, with the relation written out.
LEMMA LessThanWellFounded == IsWellFoundedOn({ss \in Nat \X Nat : ss[1] < ss[2]}, Nat)
  BY NatLessThanWellFounded DEF OpToRel

\* Every set of natural numbers that is not empty has a least element.
THEOREM LeastNumber ==
    ASSUME NEW T \in SUBSET Nat, T # {}
    PROVE  \E x \in T : \A y \in T : x <= y
<1> DEFINE R == {ss \in Nat \X Nat : ss[1] < ss[2]}
<1>1. IsWellFoundedOn(R, Nat)
  BY LessThanWellFounded
<1>2. \A a, b \in Nat : a < b => <<a, b>> \in R
  OBVIOUS
<1> HIDE DEF R
<1>3. PICK x \in T : \A y \in T : ~(<<y, x>> \in R)
  BY <1>1, WFMin, Zenon
<1>4. \A y \in T : ~(y < x)
  BY <1>2, <1>3
<1>5. \A y \in T : x <= y
  BY <1>4
<1> QED
  BY <1>5

\* A set that contains 0 and with every number the next one is all of Nat.
THEOREM SetInduction ==
    ASSUME NEW S \in SUBSET Nat, 0 \in S, \A n \in S : n + 1 \in S
    PROVE  S = Nat
<1> SUFFICES ASSUME Nat \ S # {} PROVE FALSE
  OBVIOUS
<1>1. PICK x \in Nat \ S : \A y \in Nat \ S : x <= y
  BY LeastNumber
<1>2. x - 1 \in S
  BY <1>1
<1> QED
  BY <1>1, <1>2, (x - 1) + 1 = x

\* h starts with v and takes n steps.
Follows(h, n, v, step) ==
    h[0] = v /\ \A k \in 0 .. n - 1 : h[k + 1] = step[k][h[k]]

\* A sequence of n values is continued by one.
LEMMA FollowsFurther ==
    ASSUME NEW V, NEW v \in V, NEW step \in [Nat -> [V -> V]],
           NEW n \in Nat, NEW h \in [0 .. n -> V], Follows(h, n, v, step)
    PROVE  \E k \in [0 .. n + 1 -> V] : Follows(k, n + 1, v, step)
<1> DEFINE k == [m \in 0 .. n + 1 |-> IF m = n + 1 THEN step[n][h[n]] ELSE h[m]]
<1>1. step[n][h[n]] \in V
  OBVIOUS
<1>2. k \in [0 .. n + 1 -> V]
  BY <1>1
<1>3. k[0] = v
  BY DEF Follows
<1>4. ASSUME NEW m \in 0 .. n + 1 - 1 PROVE k[m + 1] = step[m][k[m]]
  <2>1. k[m] = h[m]
    OBVIOUS
  <2>2. CASE m = n
    BY <2>1, <2>2
  <2>3. CASE m # n
    <3>1. k[m + 1] = h[m + 1] /\ m \in 0 .. n - 1
      BY <2>3
    <3> QED
      BY <2>1, <3>1 DEF Follows
  <2> QED
    BY <2>2, <2>3
<1> HIDE DEF k
<1>5. Follows(k, n + 1, v, step)
  BY <1>3, <1>4 DEF Follows
<1> QED
  BY <1>2, <1>5

\* Two such sequences agree as far as both go.
LEMMA FollowsAgree ==
    ASSUME NEW V, NEW v \in V, NEW step \in [Nat -> [V -> V]],
           NEW n \in Nat, NEW h, Follows(h, n, v, step),
           NEW m \in Nat, NEW k, Follows(k, m, v, step), n <= m
    PROVE  h[n] = k[n]
<1> DEFINE E == {a \in Nat : a <= n => h[a] = k[a]}
<1>1. 0 \in E
  BY DEF Follows
<1>2. ASSUME NEW a \in E PROVE a + 1 \in E
  BY DEF Follows
<1>3. E \in SUBSET Nat
  OBVIOUS
<1> HIDE DEF E
<1>4. n \in E
  BY <1>1, <1>2, <1>3, SetInduction
<1> QED
  BY <1>4 DEF E

\* A first value and a step from each value to the next determine a function.
IsStep(step, V) == step \in [Nat -> [V -> V]]
IsRecursive(g, V, v, step) ==
    g \in [Nat -> V] /\ g[0] = v /\ \A n \in Nat : g[n + 1] = step[n][g[n]]

THEOREM Recursion ==
    ASSUME NEW V, NEW v \in V, NEW step, IsStep(step, V)
    PROVE  \E g : IsRecursive(g, V, v, step)
<1>0. step \in [Nat -> [V -> V]]
  BY DEF IsStep
<1> DEFINE S == {n \in Nat : \E h \in [0 .. n -> V] : Follows(h, n, v, step)}
<1>1. S = Nat
  <2>1. 0 \in S
    <3> DEFINE h == [k \in 0 .. 0 |-> v]
    <3>1. h \in [0 .. 0 -> V] /\ Follows(h, 0, v, step)
      BY DEF Follows
    <3> HIDE DEF h
    <3> QED
      BY <3>1
  <2>2. ASSUME NEW n \in S PROVE n + 1 \in S
    <3>1. PICK h \in [0 .. n -> V] : Follows(h, n, v, step)
      OBVIOUS
    <3>2. PICK k \in [0 .. n + 1 -> V] : Follows(k, n + 1, v, step)
      BY <1>0, <3>1, FollowsFurther
    <3> QED
      BY <3>2
  <2>3. S \in SUBSET Nat
    OBVIOUS
  <2> HIDE DEF S
  <2> QED
    BY <2>1, <2>2, <2>3, SetInduction
<1> DEFINE Of(n) == CHOOSE h \in [0 .. n -> V] : Follows(h, n, v, step)
           g == [n \in Nat |-> Of(n)[n]]
<1>2. \A n \in Nat : Of(n) \in [0 .. n -> V] /\ Follows(Of(n), n, v, step)
  BY <1>1
<1> HIDE DEF Of
<1>3. g \in [Nat -> V]
  BY <1>2
<1>4. g[0] = v
  BY <1>2 DEF Follows
<1>5. ASSUME NEW n \in Nat PROVE g[n + 1] = step[n][g[n]]
  <2>1. /\ Follows(Of(n), n, v, step) /\ Follows(Of(n + 1), n + 1, v, step)
        /\ n + 1 \in Nat /\ n <= n + 1
    BY <1>2
  <2>2. Of(n + 1)[n] = Of(n)[n]
    BY <1>0, <2>1, FollowsAgree
  <2>3. Of(n + 1)[n + 1] = step[n][Of(n + 1)[n]]
    BY <2>1 DEF Follows
  <2> QED
    BY <2>2, <2>3
<1> HIDE DEF g
<1> QED
  BY <1>3, <1>4, <1>5 DEF IsRecursive
-----------------------------------------------------------------------------

\* Whatever satisfies the equation of Sums takes numbers to a number.
LEMMA SumsAreNat ==
    ASSUME NEW s \in Seq(Nat), NEW t,
           \A n \in 0 .. Len(s) : t[n] = IF n = 0 THEN 0 ELSE t[n - 1] + s[n]
    PROVE  \A n \in 0 .. Len(s) : t[n] \in Nat
<1> DEFINE S == {n \in Nat : n \in 0 .. Len(s) => t[n] \in Nat}
<1>1. 0 \in S
  OBVIOUS
<1>2. ASSUME NEW n \in S PROVE n + 1 \in S
  <2>1. SUFFICES ASSUME n + 1 \in 0 .. Len(s) PROVE t[n + 1] \in Nat
    OBVIOUS
  <2>2. n \in 0 .. Len(s) /\ t[n] \in Nat /\ s[n + 1] \in Nat
    BY <2>1
  <2>3. t[n + 1] = t[n] + s[n + 1]
    BY <2>1, <2>2
  <2> QED
    BY <2>2, <2>3
<1>3. S \in SUBSET Nat
  OBVIOUS
<1> HIDE DEF S
<1>4. S = Nat
  BY <1>1, <1>2, <1>3, SetInduction
<1> QED
  BY <1>4 DEF S

\* There is a function that satisfies the equation of Sums.
LEMMA SumsExist ==
    ASSUME NEW s \in Seq(Nat)
    PROVE  \E t : t = [n \in 0 .. Len(s) |-> IF n = 0 THEN 0 ELSE t[n - 1] + s[n]]
<1> DEFINE step == [n \in Nat |-> [a \in Nat |-> IF n < Len(s) THEN a + s[n + 1] ELSE a]]
<1>1. IsStep(step, Nat) /\ 0 \in Nat
  BY DEF IsStep
<1>2. PICK g : IsRecursive(g, Nat, 0, step)
  <2> HIDE DEF step
  <2> QED
    BY <1>1, Recursion
<1>3. \A n \in Nat : g[n] \in Nat /\ (n < Len(s) => g[n + 1] = g[n] + s[n + 1])
  BY <1>2 DEF IsRecursive
<1> HIDE DEF step
<1>4. \A n \in 1 .. Len(s) : g[n] = g[n - 1] + s[n]
  <2> TAKE n \in 1 .. Len(s)
  <2>1. n - 1 \in Nat /\ n - 1 < Len(s) /\ (n - 1) + 1 = n
    OBVIOUS
  <2> QED
    BY <1>3, <2>1
<1>5. g[0] = 0
  BY <1>2 DEF IsRecursive
<1> DEFINE t == [n \in 0 .. Len(s) |-> g[n]]
<1>6. \A n \in 0 .. Len(s) : t[n] = IF n = 0 THEN 0 ELSE t[n - 1] + s[n]
  BY <1>4, <1>5
<1>7. t = [n \in 0 .. Len(s) |-> t[n]]
  OBVIOUS
<1> HIDE DEF t
<1>8. t = [n \in 0 .. Len(s) |-> IF n = 0 THEN 0 ELSE t[n - 1] + s[n]]
  BY <1>6, <1>7
<1> QED
  BY <1>8

\* The partial sums of a sequence of numbers.
THEOREM SumsFacts ==
    ASSUME NEW s \in Seq(Nat)
    PROVE  /\ Sums(s) \in [0 .. Len(s) -> Nat]
           /\ Sums(s)[0] = 0
           /\ \A n \in 1 .. Len(s) : Sums(s)[n] = Sums(s)[n - 1] + s[n]
<1> DEFINE t == Sums(s)
<1>1. t = [n \in 0 .. Len(s) |-> IF n = 0 THEN 0 ELSE t[n - 1] + s[n]]
  BY SumsExist DEF Sums
<1> HIDE DEF t
<1>2. \A n \in 0 .. Len(s) : t[n] = IF n = 0 THEN 0 ELSE t[n - 1] + s[n]
  BY <1>1
<1>3. \A n \in 0 .. Len(s) : t[n] \in Nat
  BY <1>2, SumsAreNat
<1>4. t = [n \in 0 .. Len(s) |-> t[n]]
  BY <1>1
<1>5. t \in [0 .. Len(s) -> Nat]
  BY <1>3, <1>4
<1>6. /\ t[0] = 0
      /\ \A n \in 1 .. Len(s) : t[n] = t[n - 1] + s[n]
  BY <1>2
<1> QED
  BY <1>5, <1>6 DEF t

\* An element behind the others adds a sum and leaves the others as they are.
THEOREM SumsAppend ==
    ASSUME NEW s \in Seq(Nat), NEW x \in Nat
    PROVE  /\ \A n \in 0 .. Len(s) : Sums(Append(s, x))[n] = Sums(s)[n]
           /\ Sums(Append(s, x))[Len(s) + 1] = Sums(s)[Len(s)] + x
<1> DEFINE r == Append(s, x)
           a == Sums(s)
           b == Sums(r)
<1>1. /\ r \in Seq(Nat) /\ Len(r) = Len(s) + 1 /\ Len(s) \in Nat
      /\ r[Len(s) + 1] = x /\ \A n \in 1 .. Len(s) : r[n] = s[n]
  OBVIOUS
<1> HIDE DEF r
<1>2. a[0] = 0 /\ \A n \in 1 .. Len(s) : a[n] = a[n - 1] + s[n]
  BY SumsFacts
<1>3. b[0] = 0 /\ \A n \in 1 .. Len(s) + 1 : b[n] = b[n - 1] + r[n]
  BY <1>1, SumsFacts
<1> HIDE DEF a, b
<1> DEFINE E == {n \in Nat : n <= Len(s) => b[n] = a[n]}
<1>4. 0 \in E
  BY <1>2, <1>3
<1>5. ASSUME NEW n \in E PROVE n + 1 \in E
  <2>1. SUFFICES ASSUME n + 1 <= Len(s) PROVE b[n + 1] = a[n + 1]
    OBVIOUS
  <2>2. n \in Nat /\ n + 1 \in 1 .. Len(s) /\ b[n] = a[n] /\ (n + 1) - 1 = n
    BY <1>1, <2>1
  <2>3. b[n + 1] = b[n] + r[n + 1] /\ a[n + 1] = a[n] + s[n + 1]
    BY <1>2, <1>3, <2>2, <1>1
  <2> QED
    BY <1>1, <2>2, <2>3
<1>6. E \in SUBSET Nat
  OBVIOUS
<1> HIDE DEF E
<1>7. E = Nat
  BY <1>4, <1>5, <1>6, SetInduction
<1>8. \A n \in 0 .. Len(s) : b[n] = a[n]
  BY <1>1, <1>7 DEF E
<1>9. b[Len(s) + 1] = a[Len(s)] + x
  <2>1. b[Len(s) + 1] = b[Len(s)] + r[Len(s) + 1]
    BY <1>1, <1>3, (Len(s) + 1) - 1 = Len(s)
  <2> QED
    BY <1>1, <1>8, <2>1
<1> QED
  BY <1>8, <1>9 DEF a, b, r

\* The partial sums of numbers never decrease.
THEOREM SumsMonotone ==
    ASSUME NEW s \in Seq(Nat), NEW m \in 0 .. Len(s), NEW n \in 0 .. Len(s), m <= n
    PROVE  Sums(s)[m] <= Sums(s)[n]
<1> DEFINE a == Sums(s)
<1>1. a \in [0 .. Len(s) -> Nat] /\ \A k \in 1 .. Len(s) : a[k] = a[k - 1] + s[k]
  BY SumsFacts
<1> HIDE DEF a
<1> DEFINE E == {k \in Nat : m + k <= Len(s) => a[m] <= a[m + k]}
<1>2. 0 \in E
  BY <1>1
<1>3. ASSUME NEW k \in E PROVE k + 1 \in E
  <2>1. SUFFICES ASSUME m + (k + 1) <= Len(s) PROVE a[m] <= a[m + (k + 1)]
    OBVIOUS
  <2>2. /\ k \in Nat /\ m + k \in 0 .. Len(s) /\ m + (k + 1) \in 1 .. Len(s)
        /\ a[m] <= a[m + k] /\ (m + (k + 1)) - 1 = m + k
    BY <2>1
  <2>3. a[m + (k + 1)] = a[m + k] + s[m + (k + 1)]
    BY <1>1, <2>2
  <2>4. a[m] \in Nat /\ a[m + k] \in Nat
    BY <1>1, <2>2
  <2>5. s[m + (k + 1)] \in Nat
    BY <2>2
  <2> QED
    BY <2>2, <2>3, <2>4, <2>5
<1>4. E \in SUBSET Nat
  OBVIOUS
<1> HIDE DEF E
<1>5. E = Nat
  BY <1>2, <1>3, <1>4, SetInduction
<1>6. n - m \in Nat /\ m + (n - m) = n
  OBVIOUS
<1> QED
  <2>1. n - m \in E
    BY <1>5, <1>6
  <2>2. a[m] <= a[m + (n - m)]
    BY <1>6, <2>1 DEF E
  <2> QED
    BY <1>6, <2>2 DEF a
-----------------------------------------------------------------------------

\* A sequence in front of another, element by element.
LEMMA ConcatElements ==
    ASSUME NEW S, NEW q \in Seq(S), NEW r \in Seq(S), NEW t, t = q \o r
    PROVE  /\ t \in Seq(S) /\ Len(t) = Len(q) + Len(r)
           /\ \A k \in 1 .. Len(q) : t[k] = q[k]
           /\ \A k \in 1 .. Len(r) : t[Len(q) + k] = r[k]
  OBVIOUS

\* There is a function that satisfies the equation of FlattenSeq: the first
\* sequences one behind the other.
LEMMA FlattenExists ==
    ASSUME NEW S, NEW seqs \in Seq(Seq(S))
    PROVE  \E f : f = [k \in 1 .. Len(seqs) |->
                         IF k = 1 THEN seqs[k] ELSE f[k - 1] \o seqs[k]]
<1> DEFINE V == Seq(S)
           step == [n \in Nat |-> [q \in V |-> IF n < Len(seqs) THEN q \o seqs[n + 1] ELSE q]]
<1>1. IsStep(step, V) /\ <<>> \in V
  <2>1. ASSUME NEW n \in Nat, NEW q \in V
        PROVE  (IF n < Len(seqs) THEN q \o seqs[n + 1] ELSE q) \in V
    <3>1. CASE n < Len(seqs)
      <4>1. seqs[n + 1] \in Seq(S)
        BY <3>1
      <4> QED
        BY <3>1, <4>1, ConcatElements
    <3> QED
      BY <3>1
  <2> HIDE DEF V
  <2>2. step \in [Nat -> [V -> V]]
    BY <2>1
  <2> QED
    BY <2>2 DEF IsStep, V
<1> HIDE DEF step
<1>2. PICK g : IsRecursive(g, V, <<>>, step)
  <2> HIDE DEF V
  <2> QED
    BY <1>1, Recursion
<1>3. g \in [Nat -> V] /\ g[0] = <<>> /\ \A n \in Nat : g[n + 1] = step[n][g[n]]
  BY <1>2 DEF IsRecursive
<1>4. \A n \in Nat : g[n] \in Seq(S)
  BY <1>3
<1>5. ASSUME NEW k \in 1 .. Len(seqs)
      PROVE  g[k] = IF k = 1 THEN seqs[k] ELSE g[k - 1] \o seqs[k]
  <2>1. k - 1 \in Nat /\ (k - 1) + 1 = k /\ k - 1 < Len(seqs)
    OBVIOUS
  <2>2. g[k] = step[k - 1][g[k - 1]]
    BY <1>3, <2>1
  <2>3. step[k - 1][g[k - 1]] = g[k - 1] \o seqs[k]
    BY <1>4, <2>1 DEF step
  <2>4. CASE k = 1
    <3>1. seqs[k] \in Seq(S) /\ g[k - 1] = <<>>
      BY <1>3, <2>4
    <3>2. <<>> \o seqs[k] = seqs[k]
      BY <3>1
    <3> QED
      BY <2>2, <2>3, <2>4, <3>1, <3>2
  <2> QED
    BY <2>2, <2>3, <2>4
<1> DEFINE f == [k \in 1 .. Len(seqs) |-> g[k]]
<1>6. \A k \in 1 .. Len(seqs) : f[k] = IF k = 1 THEN seqs[k] ELSE f[k - 1] \o seqs[k]
  BY <1>5
<1>7. f = [k \in 1 .. Len(seqs) |-> f[k]]
  OBVIOUS
<1> HIDE DEF f
<1>8. f = [k \in 1 .. Len(seqs) |-> IF k = 1 THEN seqs[k] ELSE f[k - 1] \o seqs[k]]
  BY <1>6, <1>7
<1> QED
  BY <1>8

\* The place of every element in a flattened sequence: behind the elements of
\* the sequences before its own.
THEOREM FlattenFacts ==
    ASSUME NEW S, NEW seqs \in Seq(Seq(S)), NEW lens \in Seq(Nat),
           Len(lens) = Len(seqs), \A k \in 1 .. Len(seqs) : lens[k] = Len(seqs[k])
    PROVE  /\ FlattenSeq(seqs) \in Seq(S)
           /\ Len(FlattenSeq(seqs)) = Sums(lens)[Len(seqs)]
           /\ \A k \in 1 .. Len(seqs) : \A c \in 1 .. Len(seqs[k]) :
                 FlattenSeq(seqs)[Sums(lens)[k - 1] + c] = seqs[k][c]
<1> DEFINE sum == Sums(lens)
<1>1. /\ sum \in [0 .. Len(seqs) -> Nat] /\ sum[0] = 0
      /\ \A k \in 1 .. Len(seqs) : sum[k] = sum[k - 1] + Len(seqs[k])
  BY SumsFacts
<1> HIDE DEF sum
<1>2. CASE Len(seqs) = 0
  <2>1. FlattenSeq(seqs) = seqs /\ seqs = <<>>
    BY <1>2 DEF FlattenSeq
  <2> QED
    BY <1>1, <1>2, <2>1 DEF sum
<1>3. CASE Len(seqs) # 0
  <2> DEFINE f == CHOOSE f : f = [k \in 1 .. Len(seqs) |->
                                   IF k = 1 THEN seqs[k] ELSE f[k - 1] \o seqs[k]]
  <2>1. FlattenSeq(seqs) = f[Len(seqs)]
    BY <1>3 DEF FlattenSeq
  <2>2. f = [k \in 1 .. Len(seqs) |-> IF k = 1 THEN seqs[k] ELSE f[k - 1] \o seqs[k]]
    BY FlattenExists
  <2> HIDE DEF f
  <2>3. \A k \in 1 .. Len(seqs) : f[k] = IF k = 1 THEN seqs[k] ELSE f[k - 1] \o seqs[k]
    BY <2>2
  <2> DEFINE Placed(n) == /\ f[n] \in Seq(S) /\ Len(f[n]) = sum[n]
                          /\ \A k \in 1 .. n : \A c \in 1 .. Len(seqs[k]) :
                                f[n][sum[k - 1] + c] = seqs[k][c]
             E == {n \in Nat : n + 1 <= Len(seqs) => Placed(n + 1)}
  <2>4. 0 \in E
    <3>1. /\ 1 \in 1 .. Len(seqs) /\ f[1] = seqs[1] /\ seqs[1] \in Seq(S)
          /\ Len(seqs[1]) \in Nat /\ sum[1 - 1] = 0 /\ sum[1] = 0 + Len(seqs[1])
      BY <1>1, <1>3, <2>3
    <3>2. Placed(1)
      BY <3>1
    <3> HIDE DEF Placed
    <3> QED
      BY <3>2
  <2>5. ASSUME NEW n \in E PROVE n + 1 \in E
    <3> DEFINE m == n + 1
    <3>0. n \in Nat /\ m \in Nat /\ (m <= Len(seqs) => Placed(m))
      BY <2>5
    <3>1. SUFFICES ASSUME m + 1 <= Len(seqs) PROVE Placed(m + 1)
      <4> HIDE DEF Placed
      <4> QED
        BY <3>0
    <3>2. /\ m \in 1 .. Len(seqs) /\ m + 1 \in 1 .. Len(seqs)
          /\ m + 1 # 1 /\ (m + 1) - 1 = m
      BY <3>0, <3>1
    <3> HIDE DEF m
    <3>3. Placed(m)
      BY <3>0, <3>2
    <3>4. f[m + 1] = f[m] \o seqs[m + 1] /\ sum[m + 1] = sum[m] + Len(seqs[m + 1])
      BY <1>1, <2>3, <3>2
    <3>5. seqs[m + 1] \in Seq(S) /\ f[m] \in Seq(S) /\ Len(f[m]) = sum[m]
      BY <3>2, <3>3
    <3>6. /\ f[m + 1] \in Seq(S) /\ Len(f[m + 1]) = sum[m] + Len(seqs[m + 1])
          /\ \A c \in 1 .. sum[m] : f[m + 1][c] = f[m][c]
          /\ \A c \in 1 .. Len(seqs[m + 1]) : f[m + 1][sum[m] + c] = seqs[m + 1][c]
      <4> DEFINE q == f[m]
                 r == seqs[m + 1]
      <4>1. q \in Seq(S) /\ r \in Seq(S) /\ Len(q) = sum[m] /\ f[m + 1] = q \o r
        BY <3>4, <3>5
      <4> HIDE DEF q, r
      <4> DEFINE t == f[m + 1]
      <4> HIDE DEF t, E, Placed
      <4>2. t = q \o r
        BY <4>1 DEF t
      <4>3. /\ t \in Seq(S) /\ Len(t) = Len(q) + Len(r)
            /\ \A k \in 1 .. Len(q) : t[k] = q[k]
            /\ \A k \in 1 .. Len(r) : t[Len(q) + k] = r[k]
        BY <4>1, <4>2, SMTT(30)
      <4> QED
        BY <4>1, <4>3 DEF q, r, t
    <3>7. ASSUME NEW k \in 1 .. m, NEW c \in 1 .. Len(seqs[k])
          PROVE  f[m + 1][sum[k - 1] + c] = seqs[k][c]
      <4>1. f[m][sum[k - 1] + c] = seqs[k][c]
        BY <3>3
      <4>2. k \in 1 .. Len(lens) /\ k - 1 \in 0 .. Len(lens) /\ k \in 0 .. Len(lens) /\ m \in 0 .. Len(lens)
        BY <3>2
      <4>3. sum[k] = sum[k - 1] + Len(seqs[k]) /\ sum[k] \in Nat /\ sum[k - 1] \in Nat /\ sum[m] \in Nat
        BY <1>1, <4>2
      <4>4. sum[k] <= sum[m]
        BY <3>2, <4>2, SumsMonotone DEF sum
      <4>5. Len(seqs[k]) \in Nat
        BY <4>2
      <4>6. sum[k - 1] + c \in 1 .. sum[m]
        <5>1. c \in Nat /\ 1 <= c /\ c <= Len(seqs[k])
          BY <4>5
        <5> QED
          BY <4>3, <4>4, <4>5, <5>1
      <4> QED
        BY <3>6, <4>1, <4>6
    <3>8. ASSUME NEW k \in 1 .. m + 1, NEW c \in 1 .. Len(seqs[k])
          PROVE  f[m + 1][sum[k - 1] + c] = seqs[k][c]
      <4>1. CASE k = m + 1
        BY <3>2, <3>6, <4>1
      <4>2. CASE k \in 1 .. m
        BY <3>7, <4>2
      <4> QED
        BY <3>2, <4>1, <4>2
    <3> QED
      BY <3>4, <3>6, <3>8
  <2>6. E \in SUBSET Nat
    OBVIOUS
  <2>7. Placed(Len(seqs))
    <3> HIDE DEF Placed
    <3>1. Len(seqs) - 1 \in E
      <4> HIDE DEF E
      <4>1. E = Nat
        BY <2>4, <2>5, <2>6, SetInduction
      <4> QED
        BY <1>3, <4>1
    <3>2. (Len(seqs) - 1) + 1 = Len(seqs)
      OBVIOUS
    <3> QED
      BY <3>1, <3>2
  <2> QED
    BY <2>1, <2>7 DEF sum
<1> QED
  BY <1>2, <1>3

Constantly(s, c) == \A k \in 1 .. Len(s) : s[k] = c

\* Sequences of the same length c: the first n are c * n elements.
THEOREM SumsConstant ==
    ASSUME NEW s \in Seq(Nat), NEW c \in Nat, Constantly(s, c)
    PROVE  \A n \in 0 .. Len(s) : Sums(s)[n] = c * n
<1> DEFINE a == Sums(s)
           S == {n \in Nat : n <= Len(s) => a[n] = c * n}
<1>1. a[0] = 0 /\ \A n \in 1 .. Len(s) : a[n] = a[n - 1] + s[n]
  BY SumsFacts
<1> HIDE DEF a
<1>2. 0 \in S
  BY <1>1
<1>3. ASSUME NEW n \in S PROVE n + 1 \in S
  <2>1. SUFFICES ASSUME n + 1 <= Len(s) PROVE a[n + 1] = c * (n + 1)
    OBVIOUS
  <2>2. n + 1 \in 1 .. Len(s) /\ (n + 1) - 1 = n /\ a[n] = c * n /\ n \in Nat
    BY <2>1
  <2>3. a[n + 1] = c * n + c
    BY <1>1, <2>2 DEF Constantly
  <2>4. c * (n + 1) = c * n + c
    BY <2>2
  <2> QED
    BY <2>3, <2>4
<1>4. S \in SUBSET Nat
  OBVIOUS
<1> HIDE DEF S
<1>5. S = Nat
  BY <1>2, <1>3, <1>4, SetInduction
<1>6. ASSUME NEW n \in 0 .. Len(s) PROVE a[n] = c * n
  <2>1. n \in S /\ n <= Len(s)
    BY <1>5
  <2> QED
    BY <2>1 DEF S
<1> QED
  BY <1>6 DEF a

Lengths(lens, seqs) ==
    /\ lens \in Seq(Nat) /\ Len(lens) = Len(seqs)
    /\ \A k \in 1 .. Len(seqs) : lens[k] = Len(seqs[k])

\* The same, with the lengths under a name.
LEMMA FlattenLengths ==
    ASSUME NEW S, NEW seqs \in Seq(Seq(S)), NEW lens, Lengths(lens, seqs)
    PROVE  /\ FlattenSeq(seqs) \in Seq(S)
           /\ Len(FlattenSeq(seqs)) = Sums(lens)[Len(seqs)]
           /\ \A k \in 1 .. Len(seqs) : \A c \in 1 .. Len(seqs[k]) :
                 FlattenSeq(seqs)[Sums(lens)[k - 1] + c] = seqs[k][c]
  BY FlattenFacts DEF Lengths
-----------------------------------------------------------------------------

\* The function behind FlattenSeq.
LEMMA FlattenBy ==
    ASSUME NEW S, NEW seqs \in Seq(Seq(S)), Len(seqs) # 0
    PROVE  \E f : /\ \A k \in 1 .. Len(seqs) : f[k] = IF k = 1 THEN seqs[k] ELSE f[k - 1] \o seqs[k]
                 /\ FlattenSeq(seqs) = f[Len(seqs)]
<1> DEFINE f == CHOOSE f : f = [k \in 1 .. Len(seqs) |->
                                  IF k = 1 THEN seqs[k] ELSE f[k - 1] \o seqs[k]]
<1>1. FlattenSeq(seqs) = f[Len(seqs)]
  BY DEF FlattenSeq
<1>2. f = [k \in 1 .. Len(seqs) |-> IF k = 1 THEN seqs[k] ELSE f[k - 1] \o seqs[k]]
  BY FlattenExists
<1> HIDE DEF f
<1>3. \A k \in 1 .. Len(seqs) : f[k] = IF k = 1 THEN seqs[k] ELSE f[k - 1] \o seqs[k]
  BY <1>2
<1> QED
  BY <1>1, <1>3

\* One sequence more, behind the others.
THEOREM FlattenAppend ==
    ASSUME NEW S, NEW seqs \in Seq(Seq(S)), NEW x \in Seq(S)
    PROVE  FlattenSeq(Append(seqs, x)) = FlattenSeq(seqs) \o x
<1> DEFINE more == Append(seqs, x)
<1>1. /\ more \in Seq(Seq(S)) /\ Len(more) = Len(seqs) + 1 /\ Len(seqs) \in Nat
      /\ more[Len(seqs) + 1] = x /\ \A k \in 1 .. Len(seqs) : more[k] = seqs[k]
  OBVIOUS
<1> HIDE DEF more
<1>2. PICK g : /\ \A k \in 1 .. Len(more) : g[k] = IF k = 1 THEN more[k] ELSE g[k - 1] \o more[k]
               /\ FlattenSeq(more) = g[Len(more)]
  <2>1. Len(more) # 0
    BY <1>1
  <2> QED
    BY <1>1, <2>1, FlattenBy
<1>4. \A k \in 1 .. Len(seqs) + 1 : g[k] = IF k = 1 THEN more[k] ELSE g[k - 1] \o more[k]
  BY <1>1, <1>2
<1>5. CASE Len(seqs) = 0
  <2>1. FlattenSeq(seqs) = <<>> /\ g[1] = x
    BY <1>1, <1>4, <1>5 DEF FlattenSeq
  <2>2. <<>> \o x = x
    OBVIOUS
  <2> QED
    BY <1>1, <1>2, <1>5, <2>1, <2>2 DEF more
<1>6. CASE Len(seqs) # 0
  <2>1. PICK f : /\ \A k \in 1 .. Len(seqs) : f[k] = IF k = 1 THEN seqs[k] ELSE f[k - 1] \o seqs[k]
                 /\ FlattenSeq(seqs) = f[Len(seqs)]
    BY <1>6, FlattenBy
  <2>3. \A k \in 1 .. Len(seqs) : f[k] = IF k = 1 THEN seqs[k] ELSE f[k - 1] \o seqs[k]
    BY <2>1
  <2> DEFINE E == {n \in Nat : n + 1 <= Len(seqs) => f[n + 1] = g[n + 1]}
  <2>4. 0 \in E
    <3>1. 1 \in 1 .. Len(seqs) /\ 1 \in 1 .. Len(seqs) + 1
      BY <1>1, <1>6
    <3>2. f[1] = seqs[1] /\ g[1] = more[1]
      BY <1>4, <2>3, <3>1
    <3> QED
      BY <1>1, <3>1, <3>2
  <2>5. ASSUME NEW n \in E PROVE n + 1 \in E
    <3>1. SUFFICES ASSUME n + 1 + 1 <= Len(seqs) PROVE f[n + 1 + 1] = g[n + 1 + 1]
      OBVIOUS
    <3>2. PICK m \in 2 .. Len(seqs) : m = n + 1 + 1
      BY <1>1, <3>1
    <3>3. f[m - 1] = g[m - 1]
      BY <1>1, <3>1, <3>2
    <3>4. m # 1 /\ m \in 1 .. Len(seqs) /\ m \in 1 .. Len(seqs) + 1
      BY <1>1
    <3>5. f[m] = f[m - 1] \o seqs[m] /\ g[m] = g[m - 1] \o more[m] /\ more[m] = seqs[m]
      BY <1>1, <1>4, <2>3, <3>4
    <3> QED
      BY <3>2, <3>3, <3>5
  <2>6. E \in SUBSET Nat
    OBVIOUS
  <2> HIDE DEF E
  <2>7. E = Nat
    BY <2>4, <2>5, <2>6, SetInduction
  <2>8. f[Len(seqs)] = g[Len(seqs)]
    <3>1. Len(seqs) - 1 \in E /\ (Len(seqs) - 1) + 1 = Len(seqs)
      BY <1>1, <1>6, <2>7
    <3> QED
      BY <1>1, <3>1 DEF E
  <2>9. g[Len(seqs) + 1] = g[Len(seqs)] \o x
    <3>1. PICK m \in 2 .. Len(seqs) + 1 : m = Len(seqs) + 1
      BY <1>1, <1>6
    <3>2. m # 1 /\ m \in 1 .. Len(seqs) + 1 /\ m - 1 = Len(seqs) /\ more[m] = x
      BY <1>1, <3>1
    <3>3. g[m] = g[m - 1] \o more[m]
      BY <1>4, <3>2
    <3> QED
      BY <3>1, <3>2, <3>3
  <2> QED
    BY <1>1, <1>2, <2>1, <2>8, <2>9 DEF more
<1> QED
  BY <1>5, <1>6

LEMMA FlattenType ==
    ASSUME NEW S, NEW seqs \in Seq(Seq(S))
    PROVE  FlattenSeq(seqs) \in Seq(S)
<1> DEFINE lens == [k \in 1 .. Len(seqs) |-> Len(seqs[k])]
<1>1. lens \in Seq(Nat) /\ Len(lens) = Len(seqs) /\ \A k \in 1 .. Len(seqs) : lens[k] = Len(seqs[k])
  OBVIOUS
<1> HIDE DEF lens
<1> QED
  BY <1>1, FlattenFacts

\* Flattening two sequences of sequences, one behind the other.
THEOREM FlattenConcat ==
    ASSUME NEW S, NEW a \in Seq(Seq(S)), NEW b \in Seq(Seq(S))
    PROVE  FlattenSeq(a \o b) = FlattenSeq(a) \o FlattenSeq(b)
<1> DEFINE Claim(n) == FlattenSeq(a \o SubSeq(b, 1, n)) = FlattenSeq(a) \o FlattenSeq(SubSeq(b, 1, n))
           E == {n \in Nat : n <= Len(b) => Claim(n)}
<1>1. Len(b) \in Nat
  OBVIOUS
<1>2. \A seqs \in Seq(Seq(S)) : FlattenSeq(seqs) \in Seq(S)
  BY FlattenType
<1>3. 0 \in E
  <2>1. SubSeq(b, 1, 0) = <<>>
    OBVIOUS
  <2>2. FlattenSeq(<<>>) = <<>>
    BY DEF FlattenSeq
  <2>3. a \o <<>> = a
    OBVIOUS
  <2>4. FlattenSeq(a) \o <<>> = FlattenSeq(a)
    <3>1. FlattenSeq(a) \in Seq(S)
      BY <1>2
    <3> QED
      BY <3>1, ConcatEmptySeq
  <2> QED
    BY <2>1, <2>2, <2>3, <2>4
<1>4. ASSUME NEW n \in E PROVE n + 1 \in E
  <2>1. SUFFICES ASSUME n + 1 <= Len(b) PROVE Claim(n + 1)
    OBVIOUS
  <2>2. n \in Nat /\ n + 1 \in 1 .. Len(b) /\ Claim(n)
    BY <1>1, <2>1
  <2> DEFINE c == SubSeq(b, 1, n)
             x == b[n + 1]
  <2>3. c \in Seq(Seq(S)) /\ x \in Seq(S) /\ SubSeq(b, 1, n + 1) = Append(c, x)
    BY <2>2
  <2>4. FlattenSeq(a \o c) = FlattenSeq(a) \o FlattenSeq(c)
    BY <2>2
  <2> HIDE DEF c, x
  <2>5. a \o Append(c, x) = Append(a \o c, x) /\ a \o c \in Seq(Seq(S))
    BY <2>3
  <2>6. FlattenSeq(Append(a \o c, x)) = FlattenSeq(a \o c) \o x
    BY <2>3, <2>5, FlattenAppend
  <2>7. FlattenSeq(Append(c, x)) = FlattenSeq(c) \o x
    BY <2>3, FlattenAppend
  <2>8. (FlattenSeq(a) \o FlattenSeq(c)) \o x = FlattenSeq(a) \o (FlattenSeq(c) \o x)
    <3>1. FlattenSeq(a) \in Seq(S) /\ FlattenSeq(c) \in Seq(S) /\ x \in Seq(S)
      BY <1>2, <2>3
    <3> QED
      BY <3>1, ConcatAssociative
  <2> QED
    BY <2>3, <2>4, <2>5, <2>6, <2>7, <2>8
<1>5. E \in SUBSET Nat
  OBVIOUS
<1>6. SubSeq(b, 1, Len(b)) = b
  OBVIOUS
<1> HIDE DEF E, Claim
<1>7. E = Nat
  BY <1>3, <1>4, <1>5, SetInduction
<1>8. Claim(Len(b))
  BY <1>1, <1>7 DEF E
<1> QED
  BY <1>6, <1>8 DEF Claim
=============================================================================
