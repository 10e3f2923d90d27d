--------------------------- MODULE MtlReaderProofs ---------------------------
(* For files and libraries of any length: the material of a usemtl line stays *)
(* the one in force, and fallbacks stand only for names not defined before.  *)
EXTENDS MtlReader, FlatArraysProofs

USE NameAssumption, ValueAssumption, KeyAssumption, OpacityAssumption, LineAssumption

\* read_mtllib never marks a material as a fallback.
ReaderInv == ~mtl.fallback

IInv == TypeOK /\ ReaderInv /\ FallbackOnlyIfMissing /\ MaterialInForce

Entry == [key : Attributes \cup OtherKeys,
          value : Names \cup {NoName} \cup Values \cup Opacities]

LEMMA KeyFacts == /\ OtherKeys = {"mtllib", "newmtl", "usemtl", "d", "Tr"}
                  /\ \A a \in Attributes : a # "usemtl"
  BY DEF OtherKeys

LEMMA AppendFacts ==
    ASSUME NEW S, NEW q \in Seq(S), NEW x \in S
    PROVE  /\ Append(q, x) \in Seq(S) /\ Len(Append(q, x)) = Len(q) + 1
           /\ Len(q) \in Nat /\ DOMAIN q = 1 .. Len(q)
           /\ DOMAIN Append(q, x) = 1 .. Len(q) + 1
           /\ Append(q, x)[Len(q) + 1] = x
           /\ \A k \in 1 .. Len(q) : Append(q, x)[k] = q[k]
  OBVIOUS

LEMMA DefaultType == MtlDefault \in Material /\ ~MtlDefault.fallback
  BY DEF MtlDefault, Material

\* ------------------------------------------------------------ line by line

\* A line that is no usemtl line, and only appends to the materials: the
\* material in force stays what it was.
LEMMA InForceKept ==
    ASSUME TypeOK, MaterialInForce,
           NEW key \in Attributes \cup OtherKeys, key # "usemtl",
           NEW value \in Names \cup {NoName} \cup Values \cup Opacities,
           said' = Append(said, [key |-> key, value |-> value]),
           Len(materials') \in Nat, Len(materials') >= Len(materials),
           \A k \in 1 .. Len(materials) : materials'[k] = materials[k],
           material' = material
    PROVE  MaterialInForce'
  <1> DEFINE entry == [key |-> key, value |-> value]
  <1>1. entry \in Entry /\ said \in Seq(Entry)
    BY DEF Entry, TypeOK
  <1>2. /\ Len(said) \in Nat /\ DOMAIN said = 1 .. Len(said)
        /\ DOMAIN said' = 1 .. Len(said) + 1
        /\ said'[Len(said) + 1] = entry
        /\ \A k \in 1 .. Len(said) : said'[k] = said[k]
    BY <1>1, AppendFacts
  <1>3. Len(materials) \in Nat /\ material \in Nat
    BY DEF TypeOK
  <1>4. \A n \in DOMAIN said' : said'[n].key = "usemtl" =>
             n \in DOMAIN said /\ said'[n] = said[n]
    BY <1>2
  <1>5. \A n \in DOMAIN said : n \in DOMAIN said' /\ said'[n] = said[n]
    BY <1>2
  <1>6. SUFFICES ASSUME NEW n \in DOMAIN said', said'[n].key = "usemtl",
                        \A m \in DOMAIN said' : said'[m].key = "usemtl" => m <= n
                 PROVE  /\ material < Len(materials')
                        /\ materials'[material + 1].name = said'[n].value
    BY DEF MaterialInForce
  <1>7. n \in DOMAIN said /\ said'[n] = said[n]
    BY <1>4, <1>6
  <1>8. \A m \in DOMAIN said : said[m].key = "usemtl" => m <= n
    BY <1>5, <1>6
  <1>9. material < Len(materials) /\ materials[material + 1].name = said[n].value
    BY <1>6, <1>7, <1>8 DEF MaterialInForce
  <1> QED
    BY <1>3, <1>7, <1>9

\* What pushing the material under construction does to the materials.
LEMMA PushFacts ==
    ASSUME TypeOK, ReaderInv, FallbackOnlyIfMissing, materials' = Push
    PROVE  /\ materials' \in Seq(Material)
           /\ Len(materials') \in Nat /\ Len(materials') >= Len(materials)
           /\ \A k \in 1 .. Len(materials) : materials'[k] = materials[k]
           /\ FallbackOnlyIfMissing'
  <1> USE DEF TypeOK
  <1>1. CASE mtl.name = NoName
    <2>1. materials' = materials /\ Len(materials) \in Nat
      BY <1>1 DEF Push
    <2> QED
      BY <2>1 DEF FallbackOnlyIfMissing
  <1>2. CASE mtl.name # NoName
    <2>1. materials' = Append(materials, mtl)
      BY <1>2 DEF Push
    <2>2. /\ materials' \in Seq(Material) /\ Len(materials') = Len(materials) + 1
          /\ Len(materials) \in Nat /\ DOMAIN materials = 1 .. Len(materials)
          /\ DOMAIN materials' = 1 .. Len(materials) + 1
          /\ materials'[Len(materials) + 1] = mtl
          /\ \A k \in 1 .. Len(materials) : materials'[k] = materials[k]
      BY <2>1, AppendFacts
    <2>3. ASSUME NEW j \in DOMAIN materials', NEW k \in DOMAIN materials',
                 j < k, materials'[k].fallback
          PROVE  materials'[j].name # materials'[k].name
      <3>1. k # Len(materials) + 1
        BY <2>2, <2>3 DEF ReaderInv
      <3>2. k \in DOMAIN materials /\ j \in DOMAIN materials
        BY <2>2, <2>3, <3>1
      <3> QED
        BY <2>2, <2>3, <3>2 DEF FallbackOnlyIfMissing
    <2>4. FallbackOnlyIfMissing'
      BY <2>3 DEF FallbackOnlyIfMissing
    <2> QED
      BY <2>2, <2>4
  <1> QED
    BY <1>1, <1>2

LEMMA LineType ==
    ASSUME TypeOK, NEW key \in Attributes \cup OtherKeys,
           NEW value \in Names \cup {NoName} \cup Values \cup Opacities,
           said' = Append(said, [key |-> key, value |-> value])
    PROVE  said' \in Seq(Entry)
  BY DEF TypeOK, Entry

\* A usemtl line: the first material of that name, or a new fallback behind all
\* of the others, none of which has the name.
LEMMA UseMtlStep ==
    ASSUME IInv, NEW name \in Names, UseMtl(name)
    PROVE  IInv'
  <1> DEFINE entry == [key |-> "usemtl", value |-> name]
  <1> DEFINE fallback == [MtlDefault EXCEPT !.name = name, !.fallback = TRUE]
  <1> USE DEF IInv
  <1>1. said' = Append(said, entry) /\ UNCHANGED <<pc, mtl, found_d>>
    BY DEF UseMtl, Line
  <1>2. said' \in Seq(Entry)
    BY <1>1, LineType, KeyFacts
  <1>3. /\ Len(said) \in Nat /\ DOMAIN said' = 1 .. Len(said) + 1
        /\ said'[Len(said) + 1] = entry
    BY <1>1, AppendFacts DEF TypeOK, Entry
  <1>4. \A n \in DOMAIN said' :
            (\A m \in DOMAIN said' : said'[m].key = "usemtl" => m <= n)
               => n = Len(said) + 1 /\ said'[n].value = name
    BY <1>3
  <1>5. materials \in Seq(Material) /\ Len(materials) \in Nat
        /\ DOMAIN materials = 1 .. Len(materials)
    BY DEF TypeOK
  <1>6. CASE \E k \in DOMAIN materials :
                /\ Has(k, name) /\ material' = k - 1 /\ UNCHANGED materials
    <2>1. PICK k \in DOMAIN materials :
               Has(k, name) /\ material' = k - 1 /\ materials' = materials
      BY <1>6
    <2>2. material' \in Nat /\ material' < Len(materials') /\ material' + 1 = k
      BY <1>5, <2>1
    <2>3. materials'[material' + 1].name = name
      BY <2>1, <2>2 DEF Has
    <2>4. MaterialInForce'
      BY <1>4, <2>2, <2>3 DEF MaterialInForce
    <2>5. FallbackOnlyIfMissing'
      BY <2>1 DEF FallbackOnlyIfMissing
    <2>6. TypeOK' /\ ReaderInv'
      BY <1>1, <1>2, <2>1, <2>2 DEF TypeOK, ReaderInv, Entry
    <2> QED
      BY <2>4, <2>5, <2>6
  <1>7. CASE /\ \A k \in DOMAIN materials : ~Has(k, name)
             /\ material' = Len(materials)
             /\ materials' = Append(materials, fallback)
    <2>1. fallback \in Material /\ fallback.name = name
      BY DefaultType DEF Material, MtlDefault
    <2>2. /\ materials' \in Seq(Material) /\ Len(materials') = Len(materials) + 1
          /\ DOMAIN materials' = 1 .. Len(materials) + 1
          /\ materials'[Len(materials) + 1] = fallback
          /\ \A k \in 1 .. Len(materials) : materials'[k] = materials[k]
      BY <1>5, <1>7, <2>1, AppendFacts
    <2>3. MaterialInForce'
      <3>1. material' < Len(materials') /\ material' + 1 = Len(materials) + 1
        BY <1>5, <1>7, <2>2
      <3>2. materials'[material' + 1].name = name
        BY <2>1, <2>2, <3>1
      <3> QED
        BY <1>4, <3>1, <3>2 DEF MaterialInForce
    <2>4. ASSUME NEW j \in DOMAIN materials', NEW k \in DOMAIN materials',
                 j < k, materials'[k].fallback
          PROVE  materials'[j].name # materials'[k].name
      <3>1. j \in DOMAIN materials /\ materials'[j] = materials[j]
        BY <1>5, <2>2, <2>4
      <3>2. CASE k = Len(materials) + 1
        BY <1>7, <2>1, <2>2, <3>1, <3>2 DEF Has
      <3>3. CASE k # Len(materials) + 1
        <4>1. k \in DOMAIN materials /\ materials'[k] = materials[k]
          BY <1>5, <2>2, <3>3
        <4> QED
          BY <2>4, <3>1, <4>1 DEF FallbackOnlyIfMissing
      <3> QED
        BY <3>2, <3>3
    <2>5. FallbackOnlyIfMissing'
      BY <2>4 DEF FallbackOnlyIfMissing
    <2>6. TypeOK' /\ ReaderInv'
      BY <1>1, <1>2, <1>5, <1>7, <2>2 DEF TypeOK, ReaderInv, Entry
    <2> QED
      BY <2>3, <2>5, <2>6
  <1> QED
    BY <1>6, <1>7 DEF UseMtl

\* ------------------------------------------------------------- the theorems

\* The invariant of the reader: it holds at first and every line keeps it.
THEOREM Inductive == Spec => []IInv
  <1>1. Init => IInv
    <2> SUFFICES ASSUME Init PROVE IInv
      OBVIOUS
    <2>1. mtl \in Material /\ ~mtl.fallback
      BY DefaultType DEF Init
    <2>2. found_d \in BOOLEAN
      BY Zenon DEF Init
    <2>3. TypeOK /\ ReaderInv
      BY <2>1, <2>2 DEF Init, TypeOK, ReaderInv
    <2> QED
      BY <2>3 DEF Init, IInv, FallbackOnlyIfMissing, MaterialInForce
  <1>2. IInv /\ [Next]_vars => IInv'
    <2> SUFFICES ASSUME IInv, [Next]_vars PROVE IInv'
      OBVIOUS
    <2> USE DEF IInv
    <2>1. CASE OpenLibrary
      <3>1. /\ said' = Append(said, [key |-> "mtllib", value |-> NoName])
            /\ pc' = "mtl" /\ mtl' = MtlDefault /\ found_d' = FALSE
            /\ materials' = materials /\ material' = material
        BY <2>1 DEF OpenLibrary, Line
      <3>2. Len(materials) \in Nat
        BY DEF TypeOK
      <3>3. MaterialInForce'
        BY <3>1, <3>2, InForceKept, KeyFacts
      <3>4. said' \in Seq(Entry)
        BY <3>1, LineType, KeyFacts
      <3>5. TypeOK' /\ ReaderInv'
        BY <3>1, <3>4, DefaultType DEF TypeOK, ReaderInv, Entry
      <3> QED
        BY <3>1, <3>3, <3>5 DEF FallbackOnlyIfMissing
    <2>2. CASE CloseLibrary
      <3>1. /\ materials' = Push /\ pc' = "obj"
            /\ UNCHANGED <<mtl, found_d, material, said>>
        BY <2>2 DEF CloseLibrary
      <3>2. /\ materials' \in Seq(Material)
            /\ Len(materials') \in Nat /\ Len(materials') >= Len(materials)
            /\ \A k \in 1 .. Len(materials) : materials'[k] = materials[k]
            /\ FallbackOnlyIfMissing'
        BY <3>1, PushFacts
      <3>3. TypeOK' /\ ReaderInv'
        BY <3>1, <3>2 DEF TypeOK, ReaderInv
      <3>4. material \in Nat /\ Len(materials) \in Nat
        BY DEF TypeOK
      <3>5. MaterialInForce'
        BY <3>1, <3>2, <3>4 DEF MaterialInForce
      <3> QED
        BY <3>2, <3>3, <3>5
    <2>3. ASSUME NEW name \in Names, NewMtl(name) PROVE IInv'
      <3>1. /\ said' = Append(said, [key |-> "newmtl", value |-> name])
            /\ materials' = Push /\ mtl' = [NextMaterial EXCEPT !.name = name]
            /\ UNCHANGED <<pc, found_d, material>>
        BY <2>3 DEF NewMtl, Line
      <3>2. /\ materials' \in Seq(Material)
            /\ Len(materials') \in Nat /\ Len(materials') >= Len(materials)
            /\ \A k \in 1 .. Len(materials) : materials'[k] = materials[k]
            /\ FallbackOnlyIfMissing'
        BY <3>1, PushFacts
      <3>3. NextMaterial \in Material /\ ~NextMaterial.fallback
        BY DefaultType DEF NextMaterial, TypeOK, ReaderInv
      <3>4. mtl' \in Material /\ ~mtl'.fallback
        BY <3>1, <3>3 DEF Material
      <3>5. said' \in Seq(Entry)
        BY <3>1, LineType, KeyFacts
      <3>6. TypeOK' /\ ReaderInv'
        BY <3>1, <3>2, <3>4, <3>5 DEF TypeOK, ReaderInv, Entry
      <3>7. MaterialInForce'
        BY <3>1, <3>2, InForceKept, KeyFacts
      <3> QED
        BY <3>2, <3>6, <3>7
    <2>4. ASSUME NEW key \in Attributes \cup {"d", "Tr"}, NEW value \in Values \cup Opacities,
                 said' = Append(said, [key |-> key, value |-> value]),
                 mtl' \in Material, ~mtl'.fallback, found_d' \in BOOLEAN,
                 UNCHANGED <<pc, materials, material>>
          PROVE  IInv'
      <3>1. said' \in Seq(Entry)
        BY <2>4, LineType, KeyFacts
      <3>2. TypeOK' /\ ReaderInv'
        BY <2>4, <3>1 DEF TypeOK, ReaderInv, Entry
      <3>3. Len(materials) \in Nat
        BY DEF TypeOK
      <3>4. key \in Attributes \cup OtherKeys /\ key # "usemtl"
        BY <2>4, KeyFacts
      <3>5. MaterialInForce'
        BY <2>4, <3>3, <3>4, InForceKept
      <3> QED
        BY <2>4, <3>2, <3>5 DEF FallbackOnlyIfMissing
    <2>5. ASSUME NEW a \in Attributes, NEW value \in Values, SetAttribute(a, value)
          PROVE  IInv'
      <3>1. mtl' \in Material /\ ~mtl'.fallback
        BY <2>5 DEF SetAttribute, TypeOK, Material, ReaderInv
      <3> QED
        BY <2>4, <2>5, <3>1 DEF SetAttribute, Line, TypeOK
    <2>6. ASSUME NEW value \in Opacities, ReadD(value) PROVE IInv'
      <3>1. mtl' \in Material /\ ~mtl'.fallback
        BY <2>6 DEF ReadD, TypeOK, Material, ReaderInv
      <3> QED
        BY <2>4, <2>6, <3>1 DEF ReadD, Line
    <2>7. ASSUME NEW value \in Opacities, ReadTr(value) PROVE IInv'
      <3>1. OpacityOfTr(value) \in 0 .. One
        BY DEF OpacityOfTr
      <3>2. mtl' \in Material /\ ~mtl'.fallback
        BY <2>7, <3>1 DEF ReadTr, TypeOK, Material, ReaderInv
      <3> QED
        BY <2>4, <2>7, <3>2 DEF ReadTr, Line, TypeOK
    <2>8. CASE UNCHANGED vars
      BY <2>8 DEF vars, TypeOK, ReaderInv, FallbackOnlyIfMissing, MaterialInForce
    <2> QED
      BY <2>1, <2>2, <2>3, <2>5, <2>6, <2>7, <2>8, UseMtlStep DEF Next, Done
  <1> QED
    BY <1>1, <1>2, PTL DEF Spec

\* The materials, the one under construction included, keep their types.
THEOREM TypeCorrect == Spec => []TypeOK
  BY Inductive, PTL DEF IInv

\* A name has one fallback at most, and none where a library read before has
\* defined it.
THEOREM FallbackTheorem == Spec => []FallbackOnlyIfMissing
  BY Inductive, PTL DEF IInv

\* The index that parse_face stores keeps denoting the material of the last
\* usemtl line, however many materials are added behind it.
THEOREM MaterialInForceTheorem == Spec => []MaterialInForce
  BY Inductive, PTL DEF IInv

\* --------------------------------------------- what the lines say, in the end

\* The largest of some of the first n numbers.
LEMMA MaxMember ==
    ASSUME NEW n \in Nat, NEW S \in SUBSET (1 .. n), S # {}
    PROVE  Max(S) \in S /\ \A y \in S : y <= Max(S)
  <1> DEFINE T == {n - x : x \in S}
  <1>1. T \in SUBSET Nat /\ T # {}
    OBVIOUS
  <1> HIDE DEF T
  <1>2. PICK t \in T : \A u \in T : t <= u
    BY <1>1, LeastNumber
  <1>3. PICK x \in S : t = n - x
    BY DEF T
  <1>4. \A y \in S : x >= y
    <2> TAKE y \in S
    <2>1. n - y \in T
      BY DEF T
    <2>2. n - x <= n - y
      BY <1>2, <1>3, <2>1
    <2> QED
      BY <2>2
  <1>5. Max(S) \in S /\ \A y \in S : Max(S) >= y
    BY <1>4 DEF Max
  <1> QED
    BY <1>5

LEMMA MaxIs ==
    ASSUME NEW n \in Nat, NEW S \in SUBSET (1 .. n), NEW x \in S, \A y \in S : y <= x
    PROVE  Max(S) = x
  <1>1. Max(S) \in S /\ x <= Max(S)
    BY MaxMember
  <1>2. Max(S) \in Nat /\ x \in Nat /\ Max(S) <= x
    <2>1. PICK m \in 1 .. n : m = Max(S)
      BY <1>1
    <2> QED
      BY <1>1, <2>1
  <1> QED
    BY <1>1, <1>2

\* What the last of the lines in S with that key says.
Told(s, S, key, default) ==
    LET those == {m \in S : s[m].key = key}
    IN  IF those = {} THEN default ELSE s[Max(those)].value

\* The lines in S stay as they are, whatever comes behind the others.
LEMMA ToldKept ==
    ASSUME NEW s \in Seq(Entry), NEW S \in SUBSET (1 .. Len(s)), NEW r \in Seq(Entry),
           \A k \in 1 .. Len(s) : r[k] = s[k], NEW key, NEW default
    PROVE  Told(r, S, key, default) = Told(s, S, key, default)
  <1> DEFINE those == {m \in S : s[m].key = key}
  <1>0. (\A m \in S : r[m] = s[m]) /\ those \subseteq S /\ Len(s) \in Nat
    OBVIOUS
  <1>1. {m \in S : r[m].key = key} = those
    BY <1>0
  <1>2. those \in SUBSET (1 .. Len(s)) /\ Len(s) \in Nat
    <2> HIDE DEF those
    <2> QED
      BY <1>0
  <1> HIDE DEF those
  <1>3. those # {} => r[Max(those)] = s[Max(those)]
    <2>1. those # {} => Max(those) \in those
      BY <1>2, MaxMember
    <2> QED
      BY <1>2, <2>1
  <1>4. Told(s, S, key, default) = IF those = {} THEN default ELSE s[Max(those)].value
    BY DEF Told, those
  <1>5. Told(r, S, key, default) = IF those = {} THEN default ELSE r[Max(those)].value
    BY <1>1 DEF Told
  <1> QED
    BY <1>3, <1>4, <1>5

\* A line more in S, behind all others: what it says counts for its key.
LEMMA ToldMore ==
    ASSUME NEW s \in Seq(Entry), NEW S \in SUBSET (1 .. Len(s)), NEW r \in Seq(Entry),
           Len(r) = Len(s) + 1, \A k \in 1 .. Len(s) : r[k] = s[k], NEW key, NEW default
    PROVE  Told(r, S \cup {Len(r)}, key, default)
             = IF r[Len(r)].key = key THEN r[Len(r)].value ELSE Told(s, S, key, default)
  <1> DEFINE those == {m \in S \cup {Len(r)} : r[m].key = key}
  <1>1. Len(r) \in Nat /\ Len(s) \in Nat
    OBVIOUS
  <1>2. Told(r, S \cup {Len(r)}, key, default)
          = IF those = {} THEN default ELSE r[Max(those)].value
    BY DEF Told
  <1>3. CASE r[Len(r)].key = key
    <2>0. S \cup {Len(r)} \in SUBSET (1 .. Len(r))
      <3>1. 1 .. Len(s) \subseteq 1 .. Len(r) /\ Len(r) \in 1 .. Len(r)
        BY <1>1
      <3> QED
        BY <3>1
    <2>1. Len(r) \in those /\ those \in SUBSET (1 .. Len(r))
      BY <1>3, <2>0
    <2> HIDE DEF those
    <2>2. Max(those) = Len(r)
      <3>1. \A y \in those : y <= Len(r)
        BY <1>1, <2>1
      <3> QED
        BY <1>1, <2>1, <3>1, MaxIs
    <2> QED
      BY <1>2, <1>3, <2>1, <2>2
  <1>4. CASE r[Len(r)].key # key
    <2>1. those = {m \in S : r[m].key = key}
      BY <1>4
    <2>2. Told(r, S, key, default) = IF those = {} THEN default ELSE r[Max(those)].value
      BY <2>1 DEF Told
    <2>3. Told(r, S, key, default) = Told(s, S, key, default)
      BY ToldKept
    <2> QED
      BY <1>2, <1>4, <2>2, <2>3
  <1> QED
    BY <1>3, <1>4

HasDIn(s, S) == \E m \in S : s[m].key = "d"
Opacity(s, S) == IF HasDIn(s, S) THEN Told(s, S, "d", One) ELSE One - Told(s, S, "Tr", 0)

\* A material is as the lines in S say.
SetFits(m, s, S) == \A a \in Attributes : m.set[a] = Told(s, S, a, Unset)

LEMMA OpacityKept ==
    ASSUME NEW s \in Seq(Entry), NEW S \in SUBSET (1 .. Len(s)), NEW r \in Seq(Entry),
           \A k \in 1 .. Len(s) : r[k] = s[k]
    PROVE  /\ Opacity(r, S) = Opacity(s, S)
           /\ HasDIn(r, S) <=> HasDIn(s, S)
           /\ \A m : SetFits(m, r, S) <=> SetFits(m, s, S)
  <1>1. \A key, default : Told(r, S, key, default) = Told(s, S, key, default)
    BY ToldKept
  <1>2. HasDIn(r, S) <=> HasDIn(s, S)
    BY DEF HasDIn
  <1> QED
    BY <1>1, <1>2 DEF Opacity, SetFits

\* s is continued by one line, to r.
Continued(r, s) ==
    /\ s \in Seq(Entry) /\ r \in Seq(Entry)
    /\ Len(r) = Len(s) + 1 /\ \A k \in 1 .. Len(s) : r[k] = s[k]

LEMMA LineContinues ==
    ASSUME NEW s \in Seq(Entry), NEW e \in Entry, NEW r, r = Append(s, e)
    PROVE  Continued(r, s) /\ r[Len(r)] = e /\ Len(s) \in Nat
  BY AppendFacts DEF Continued

\* What one line more about a material says of it.
LEMMA SaidMore ==
    ASSUME NEW s, NEW r, Continued(r, s), NEW S \in SUBSET (1 .. Len(s))
    PROVE  LET T == S \cup {Len(r)}
               key == r[Len(r)].key
               value == r[Len(r)].value
           IN  /\ \A a \in Attributes :
                     Told(r, T, a, Unset) = IF key = a THEN value ELSE Told(s, S, a, Unset)
               /\ key = "d" => HasDIn(r, T) /\ Opacity(r, T) = value
               /\ key # "d" => (HasDIn(r, T) <=> HasDIn(s, S))
               /\ key = "Tr" => Opacity(r, T) = IF HasDIn(s, S) THEN Opacity(s, S) ELSE One - value
               /\ key \notin {"d", "Tr"} => Opacity(r, T) = Opacity(s, S)
  <1> DEFINE T == S \cup {Len(r)}
             key == r[Len(r)].key
             value == r[Len(r)].value
  <1>1. \A k, default : Told(r, T, k, default) = IF key = k THEN value ELSE Told(s, S, k, default)
    BY ToldMore DEF Continued
  <1>2. \A m \in S : r[m] = s[m]
    BY DEF Continued
  <1>3. HasDIn(r, T) <=> (key = "d" \/ HasDIn(s, S))
    BY <1>2 DEF HasDIn
  <1> HIDE DEF T, key, value
  <1>4. \A a \in Attributes :
            Told(r, T, a, Unset) = IF key = a THEN value ELSE Told(s, S, a, Unset)
    BY <1>1
  <1>5. key = "d" => HasDIn(r, T) /\ Opacity(r, T) = value
    BY <1>1, <1>3 DEF Opacity
  <1>6. key = "Tr" => Opacity(r, T) = IF HasDIn(s, S) THEN Opacity(s, S) ELSE One - value
    BY <1>1, <1>3 DEF Opacity
  <1>7. key \notin {"d", "Tr"} => Opacity(r, T) = Opacity(s, S)
    BY <1>1, <1>3 DEF Opacity
  <1> QED
    BY <1>3, <1>4, <1>5, <1>6, <1>7 DEF T, key, value

\* ------------------------------------------- which lines are about a material

Breaks == {"newmtl", "mtllib", "usemtl"}
LibraryIn(s, n) == Max({m \in DOMAIN s : s[m].key = "mtllib" /\ m < n})
AboutIn(s, n) ==
    {m \in DOMAIN s :
        \/ n < m /\ \A l \in n + 1 .. m : s[l].key \notin Breaks
        \/ m < n /\ LibraryIn(s, n) < m /\ \A l \in LibraryIn(s, n) + 1 .. n - 1 : s[l].key # "newmtl"}
DBeforeIn(s, n) == \E m \in DOMAIN s : s[m].key = "d" /\ LibraryIn(s, n) < m /\ m < n

HasLibrary(s, n) == \E m \in 1 .. n - 1 : s[m].key = "mtllib"

AsDescribed(m, s, n) ==
    /\ m.name = s[n].value
    /\ SetFits(m, s, AboutIn(s, n))
    /\ HasDIn(s, AboutIn(s, n)) \/ ~DBeforeIn(s, n) => m.d = Opacity(s, AboutIn(s, n))

\* A line behind others leaves alone what is about the material of line n, or is
\* itself about it when nothing stands in between.
LEMMA AboutContinued ==
    ASSUME NEW s, NEW r, Continued(r, s), NEW n \in 1 .. Len(s), HasLibrary(s, n)
    PROVE  /\ DBeforeIn(r, n) <=> DBeforeIn(s, n)
           /\ AboutIn(s, n) \in SUBSET (1 .. Len(s))
           /\ AboutIn(r, n) = AboutIn(s, n) \cup
                 (IF \A l \in n + 1 .. Len(r) : r[l].key \notin Breaks THEN {Len(r)} ELSE {})
  <1>1. /\ DOMAIN s = 1 .. Len(s) /\ DOMAIN r = 1 .. Len(r) /\ Len(s) \in Nat
        /\ Len(r) = Len(s) + 1 /\ \A k \in 1 .. Len(s) : r[k] = s[k]
    BY DEF Continued
  <1>2. {m \in DOMAIN r : r[m].key = "mtllib" /\ m < n} = {m \in DOMAIN s : s[m].key = "mtllib" /\ m < n}
    BY <1>1
  <1>3. PICK L \in 1 .. Len(s) : LibraryIn(r, n) = L /\ LibraryIn(s, n) = L
    <2> DEFINE libraries == {m \in DOMAIN s : s[m].key = "mtllib" /\ m < n}
    <2>1. libraries \in SUBSET (1 .. Len(s)) /\ libraries # {}
      BY <1>1 DEF HasLibrary
    <2>2. LibraryIn(r, n) = Max(libraries) /\ LibraryIn(s, n) = Max(libraries)
      BY <1>2 DEF LibraryIn
    <2> HIDE DEF libraries
    <2>3. Max(libraries) \in 1 .. Len(s)
      BY <1>1, <2>1, MaxMember
    <2> QED
      BY <2>2, <2>3
  <1>4. DBeforeIn(r, n) <=> DBeforeIn(s, n)
    BY <1>1, <1>3 DEF DBeforeIn
  <1>5. ASSUME NEW m \in 1 .. Len(s) PROVE m \in AboutIn(r, n) <=> m \in AboutIn(s, n)
    <2>1. \A l \in n + 1 .. m : r[l] = s[l]
      BY <1>1
    <2>2. \A l \in L + 1 .. n - 1 : r[l] = s[l]
      BY <1>1
    <2>3. m \in DOMAIN r /\ m \in DOMAIN s
      BY <1>1
    <2> QED
      BY <1>3, <2>1, <2>2, <2>3 DEF AboutIn
  <1>6. Len(r) \in AboutIn(r, n) <=> \A l \in n + 1 .. Len(r) : r[l].key \notin Breaks
    BY <1>1 DEF AboutIn
  <1>7. AboutIn(s, n) \subseteq 1 .. Len(s) /\ AboutIn(r, n) \subseteq 1 .. Len(r)
    BY <1>1 DEF AboutIn
  <1>8. \A m \in 1 .. Len(r) : m \in 1 .. Len(s) \/ m = Len(r)
    BY <1>1
  <1>9. Len(r) \notin 1 .. Len(s)
    BY <1>1
  <1> QED
    BY <1>4, <1>5, <1>6, <1>7, <1>8, <1>9

\* The material of line n is complete: another line changes nothing.
LEMMA DescribedKept ==
    ASSUME NEW s, NEW r, Continued(r, s), NEW n \in 1 .. Len(s), HasLibrary(s, n),
           NEW m, AsDescribed(m, s, n),
           \E l \in n + 1 .. Len(r) : r[l].key \in Breaks
    PROVE  AsDescribed(m, r, n)
  <1>1. AboutIn(r, n) = AboutIn(s, n) /\ AboutIn(s, n) \in SUBSET (1 .. Len(s))
        /\ (DBeforeIn(r, n) <=> DBeforeIn(s, n))
    <2>1. ~\A l \in n + 1 .. Len(r) : r[l].key \notin Breaks
      OBVIOUS
    <2>2. AboutIn(r, n) = AboutIn(s, n) \cup
            (IF \A l \in n + 1 .. Len(r) : r[l].key \notin Breaks THEN {Len(r)} ELSE {})
      BY AboutContinued
    <2>3. AboutIn(r, n) = AboutIn(s, n)
      BY <2>1, <2>2
    <2> QED
      BY <2>3, AboutContinued
  <1>2. PICK S \in SUBSET (1 .. Len(s)) : AboutIn(r, n) = S /\ AboutIn(s, n) = S
    BY <1>1
  <1>3. /\ Opacity(r, S) = Opacity(s, S) /\ (HasDIn(r, S) <=> HasDIn(s, S))
        /\ (SetFits(m, r, S) <=> SetFits(m, s, S))
    BY OpacityKept DEF Continued
  <1>4. r[n] = s[n]
    BY DEF Continued
  <1> QED
    BY <1>1, <1>2, <1>3, <1>4 DEF AsDescribed

\* ------------------------------------------------------ while a library is read

\* L is the line of the library that the last lines of s belong to.
InLibrary(s, L) ==
    /\ L \in 1 .. Len(s) /\ s[L].key = "mtllib"
    /\ \A l \in L + 1 .. Len(s) : s[l].key \notin {"mtllib", "usemtl"}

LEMMA LibraryIs ==
    ASSUME NEW s \in Seq(Entry), NEW L, InLibrary(s, L), NEW n \in L + 1 .. Len(s) + 1
    PROVE  LibraryIn(s, n) = L /\ HasLibrary(s, n)
  <1> DEFINE libraries == {m \in DOMAIN s : s[m].key = "mtllib" /\ m < n}
  <1>1. Len(s) \in Nat /\ DOMAIN s = 1 .. Len(s) /\ L \in 1 .. Len(s)
    BY DEF InLibrary
  <1>2. libraries \in SUBSET (1 .. Len(s)) /\ L \in libraries
    BY <1>1 DEF InLibrary
  <1>3. \A y \in libraries : y <= L
    <2> TAKE y \in libraries
    <2>1. y \in 1 .. Len(s) /\ s[y].key = "mtllib"
      BY <1>1
    <2>2. ~(y \in L + 1 .. Len(s))
      BY <2>1 DEF InLibrary
    <2> QED
      BY <1>1, <2>1, <2>2
  <1> HIDE DEF libraries
  <1>4. Max(libraries) = L
    BY <1>1, <1>2, <1>3, MaxIs
  <1>5. LibraryIn(s, n) = L
    BY <1>4 DEF LibraryIn, libraries
  <1>6. HasLibrary(s, n)
    <2>1. L \in 1 .. n - 1
      BY <1>1
    <2> QED
      BY <2>1 DEF HasLibrary, InLibrary
  <1> QED
    BY <1>5, <1>6

LEMMA InLibraryContinued ==
    ASSUME NEW s, NEW r, Continued(r, s), NEW L, InLibrary(s, L),
           r[Len(r)].key \notin {"mtllib", "usemtl"}
    PROVE  InLibrary(r, L) /\ \A k \in L + 1 .. Len(r) : k = Len(r) \/ (k \in L + 1 .. Len(s) /\ r[k] = s[k])
  <1>1. Len(s) \in Nat /\ Len(r) = Len(s) + 1 /\ L \in 1 .. Len(s) /\ \A k \in 1 .. Len(s) : r[k] = s[k]
    BY DEF Continued, InLibrary
  <1>2. ASSUME NEW k \in L + 1 .. Len(r)
        PROVE  k = Len(r) \/ (k \in L + 1 .. Len(s) /\ r[k] = s[k])
    <2>1. k = Len(r) \/ (k \in L + 1 .. Len(s) /\ k \in 1 .. Len(s))
      BY <1>1
    <2> QED
      BY <1>1, <2>1
  <1>3. InLibrary(r, L)
    BY <1>1, <1>2 DEF InLibrary
  <1> QED
    BY <1>2, <1>3

\* read_mtllib with the material m under construction, in the library of line L.
Reading(m, found, s, starts, L) ==
    /\ InLibrary(s, L)
    /\ found <=> HasDIn(s, L + 1 .. Len(s))
    /\ m.name = NoName =>
         /\ \A k \in L + 1 .. Len(s) : s[k].key # "newmtl"
         /\ SetFits(m, s, L + 1 .. Len(s))
         /\ m.d = Opacity(s, L + 1 .. Len(s))
    /\ m.name # NoName =>
         /\ starts # <<>> /\ L < starts[Len(starts)]
         /\ \A k \in starts[Len(starts)] + 1 .. Len(s) : s[k].key # "newmtl"

\* The newmtl lines, each behind the line of its library.
Ordered(s, starts) ==
    /\ starts \in Seq(Nat)
    /\ \A k \in 1 .. Len(starts) :
         /\ starts[k] \in 1 .. Len(s) /\ s[starts[k]].key = "newmtl" /\ HasLibrary(s, starts[k])
         /\ \A j \in 1 .. k - 1 : starts[j] < starts[k]

\* A line about m: its value is what m has of that key then, but that Tr is
\* ignored after a d.
LineRead(m, found, e, after, foundAfter) ==
    /\ after.name = m.name
    /\ \A a \in Attributes : after.set[a] = IF e.key = a THEN e.value ELSE m.set[a]
    /\ \/ e.key \in Attributes /\ after.d = m.d /\ foundAfter = found
       \/ e.key = "d" /\ after.d = e.value /\ foundAfter = TRUE
       \/ e.key = "Tr" /\ after.d = (IF found THEN m.d ELSE One - e.value) /\ foundAfter = found

LEMMA LineReadKey ==
    ASSUME NEW m, NEW found, NEW e, NEW after, NEW foundAfter, LineRead(m, found, e, after, foundAfter)
    PROVE  /\ e.key \notin Breaks
           /\ e.key \in Attributes => e.key \notin {"d", "Tr"}
    BY DEF LineRead, Breaks, OtherKeys

\* Before the first newmtl line of a library.
LEMMA PrefixRead ==
    ASSUME NEW s, NEW r, Continued(r, s), NEW m, NEW found \in BOOLEAN, NEW starts, NEW L,
           Reading(m, found, s, starts, L), m.name = NoName,
           NEW after, NEW foundAfter \in BOOLEAN, LineRead(m, found, r[Len(r)], after, foundAfter)
    PROVE  Reading(after, foundAfter, r, starts, L)
  <1> DEFINE e == r[Len(r)]
             S == L + 1 .. Len(s)
             T == L + 1 .. Len(r)
  <1>1. e.key \notin Breaks /\ (e.key \in Attributes => e.key \notin {"d", "Tr"})
    BY LineReadKey
  <1>2. InLibrary(s, L) /\ Len(s) \in Nat /\ Len(r) = Len(s) + 1 /\ L \in 1 .. Len(s)
    BY DEF Reading, InLibrary, Continued
  <1>3. InLibrary(r, L) /\ \A k \in T : k = Len(r) \/ (k \in S /\ r[k] = s[k])
    BY <1>1, <1>2, InLibraryContinued DEF Breaks
  <1>4. S \in SUBSET (1 .. Len(s)) /\ T = S \cup {Len(r)}
    BY <1>2
  <1>5. /\ (\A k \in S : s[k].key # "newmtl") /\ SetFits(m, s, S) /\ m.d = Opacity(s, S)
        /\ found <=> HasDIn(s, S)
    BY DEF Reading
  <1> HIDE DEF S, T
  <1>6. /\ \A a \in Attributes :
             Told(r, T, a, Unset) = IF e.key = a THEN e.value ELSE Told(s, S, a, Unset)
        /\ e.key = "d" => HasDIn(r, T) /\ Opacity(r, T) = e.value
        /\ e.key # "d" => (HasDIn(r, T) <=> HasDIn(s, S))
        /\ e.key = "Tr" => Opacity(r, T) = IF HasDIn(s, S) THEN Opacity(s, S) ELSE One - e.value
        /\ e.key \notin {"d", "Tr"} => Opacity(r, T) = Opacity(s, S)
    BY <1>4, SaidMore, ZenonT(30)
  <1> HIDE DEF e
  <1>7. LineRead(m, found, e, after, foundAfter)
    BY DEF e
  <1>8. SetFits(after, r, T)
    BY <1>5, <1>6, <1>7 DEF SetFits, LineRead
  <1>9. after.d = Opacity(r, T) /\ (foundAfter <=> HasDIn(r, T))
    BY <1>1, <1>5, <1>6, <1>7 DEF LineRead
  <1>10. \A k \in T : r[k].key # "newmtl"
    BY <1>1, <1>3, <1>5 DEF e, Breaks
  <1>11. after.name = NoName
    BY <1>7 DEF LineRead
  <1> QED
    BY <1>3, <1>8, <1>9, <1>10, <1>11 DEF Reading, T

\* The lines of a library with a d: before the last newmtl line or about it.
LEMMA FoundWhere ==
    ASSUME NEW s \in Seq(Entry), NEW L, InLibrary(s, L), NEW n \in L + 1 .. Len(s),
           s[n].key = "newmtl", \A k \in n + 1 .. Len(s) : s[k].key # "newmtl"
    PROVE  /\ HasDIn(s, L + 1 .. Len(s)) <=> DBeforeIn(s, n) \/ HasDIn(s, AboutIn(s, n))
           /\ \A k \in n + 1 .. Len(s) : s[k].key \notin Breaks
  <1>1. Len(s) \in Nat /\ DOMAIN s = 1 .. Len(s) /\ L \in 1 .. Len(s)
    BY DEF InLibrary
  <1>2. LibraryIn(s, n) = L
    BY <1>1, LibraryIs
  <1>3. \A k \in n + 1 .. Len(s) : s[k].key \notin Breaks
    <2> TAKE k \in n + 1 .. Len(s)
    <2>1. k \in L + 1 .. Len(s)
      BY <1>1
    <2>2. s[k].key \notin {"mtllib", "usemtl"}
      BY <2>1 DEF InLibrary
    <2> QED
      BY <2>2 DEF Breaks
  <1>4. ASSUME NEW k \in L + 1 .. Len(s), s[k].key = "d"
        PROVE  DBeforeIn(s, n) \/ HasDIn(s, AboutIn(s, n))
    <2>1. CASE k < n
      BY <1>1, <1>2, <1>4, <2>1 DEF DBeforeIn
    <2>2. CASE n < k
      <3>1. k \in DOMAIN s /\ \A l \in n + 1 .. k : l \in n + 1 .. Len(s)
        BY <1>1
      <3>2. k \in AboutIn(s, n)
        BY <1>3, <2>2, <3>1 DEF AboutIn
      <3> QED
        BY <1>4, <3>2 DEF HasDIn
    <2>3. k # n
      BY <1>4
    <2> QED
      BY <1>1, <2>1, <2>2, <2>3
  <1>5. ASSUME DBeforeIn(s, n) PROVE HasDIn(s, L + 1 .. Len(s))
    BY <1>1, <1>2, <1>5 DEF DBeforeIn, HasDIn
  <1>6. ASSUME HasDIn(s, AboutIn(s, n)) PROVE HasDIn(s, L + 1 .. Len(s))
    <2>1. PICK k \in AboutIn(s, n) : s[k].key = "d"
      BY <1>6 DEF HasDIn
    <2>2. k \in 1 .. Len(s) /\ (n < k \/ L < k)
      BY <1>1, <1>2 DEF AboutIn
    <2>3. k \in L + 1 .. Len(s)
      BY <1>1, <2>2
    <2> QED
      BY <2>1, <2>3 DEF HasDIn
  <1>7. HasDIn(s, L + 1 .. Len(s)) => DBeforeIn(s, n) \/ HasDIn(s, AboutIn(s, n))
    BY <1>4 DEF HasDIn
  <1> QED
    BY <1>3, <1>5, <1>6, <1>7

\* Behind a newmtl line.
LEMMA LastRead ==
    ASSUME NEW s, NEW r, Continued(r, s), NEW m \in Material, NEW found \in BOOLEAN, NEW starts, NEW L,
           Reading(m, found, s, starts, L), m.name # NoName, Ordered(s, starts),
           NEW n, n = starts[Len(starts)], AsDescribed(m, s, n),
           NEW after \in Material, NEW foundAfter \in BOOLEAN, LineRead(m, found, r[Len(r)], after, foundAfter)
    PROVE  Reading(after, foundAfter, r, starts, L) /\ AsDescribed(after, r, n)
  <1> DEFINE e == r[Len(r)]
  <1>1. e.key \notin Breaks /\ (e.key \in Attributes => e.key \notin {"d", "Tr"})
    BY LineReadKey
  <1>2. /\ InLibrary(s, L) /\ Len(s) \in Nat /\ Len(r) = Len(s) + 1 /\ L \in 1 .. Len(s)
        /\ s \in Seq(Entry) /\ \A k \in 1 .. Len(s) : r[k] = s[k]
    BY DEF Reading, InLibrary, Continued
  <1>3. starts # <<>> /\ L < n /\ \A k \in n + 1 .. Len(s) : s[k].key # "newmtl"
    BY DEF Reading
  <1>4. n \in 1 .. Len(s) /\ s[n].key = "newmtl" /\ HasLibrary(s, n)
    <2>1. Len(starts) \in 1 .. Len(starts)
      BY <1>3 DEF Ordered
    <2> QED
      BY <2>1 DEF Ordered
  <1>5. n \in L + 1 .. Len(s)
    BY <1>2, <1>3, <1>4
  <1>6. /\ HasDIn(s, L + 1 .. Len(s)) <=> DBeforeIn(s, n) \/ HasDIn(s, AboutIn(s, n))
        /\ \A k \in n + 1 .. Len(s) : s[k].key \notin Breaks
    BY <1>2, <1>3, <1>4, <1>5, FoundWhere
  <1>7. InLibrary(r, L) /\ \A k \in L + 1 .. Len(r) : k = Len(r) \/ (k \in L + 1 .. Len(s) /\ r[k] = s[k])
    BY <1>1, <1>2, InLibraryContinued DEF Breaks
  <1>8. \A k \in n + 1 .. Len(r) : r[k].key \notin Breaks
    <2> TAKE k \in n + 1 .. Len(r)
    <2>1. k = Len(r) \/ (k \in n + 1 .. Len(s) /\ r[k] = s[k])
      BY <1>2, <1>4
    <2> QED
      BY <1>1, <1>6, <2>1
  <1>9. /\ DBeforeIn(r, n) <=> DBeforeIn(s, n)
        /\ AboutIn(s, n) \in SUBSET (1 .. Len(s))
        /\ AboutIn(r, n) = AboutIn(s, n) \cup {Len(r)}
    <2>1. AboutIn(r, n) = AboutIn(s, n) \cup
            (IF \A l \in n + 1 .. Len(r) : r[l].key \notin Breaks THEN {Len(r)} ELSE {})
      BY <1>4, AboutContinued
    <2> QED
      BY <1>4, <1>8, <2>1, AboutContinued
  <1>10. PICK S \in SUBSET (1 .. Len(s)) : AboutIn(s, n) = S
    BY <1>9
  <1>11. PICK T : T = S \cup {Len(r)} /\ AboutIn(r, n) = T
    BY <1>9, <1>10
  <1>12. /\ m.name = s[n].value /\ SetFits(m, s, S)
         /\ HasDIn(s, S) \/ ~DBeforeIn(s, n) => m.d = Opacity(s, S)
    BY <1>10 DEF AsDescribed
  <1>13. /\ \A a \in Attributes :
              Told(r, T, a, Unset) = IF e.key = a THEN e.value ELSE Told(s, S, a, Unset)
         /\ e.key = "d" => HasDIn(r, T) /\ Opacity(r, T) = e.value
         /\ e.key # "d" => (HasDIn(r, T) <=> HasDIn(s, S))
         /\ e.key = "Tr" => Opacity(r, T) = IF HasDIn(s, S) THEN Opacity(s, S) ELSE One - e.value
         /\ e.key \notin {"d", "Tr"} => Opacity(r, T) = Opacity(s, S)
    <2>1. /\ \A a \in Attributes :
               Told(r, S \cup {Len(r)}, a, Unset) = IF e.key = a THEN e.value ELSE Told(s, S, a, Unset)
          /\ e.key = "d" => HasDIn(r, S \cup {Len(r)}) /\ Opacity(r, S \cup {Len(r)}) = e.value
          /\ e.key # "d" => (HasDIn(r, S \cup {Len(r)}) <=> HasDIn(s, S))
          /\ e.key = "Tr" =>
                Opacity(r, S \cup {Len(r)}) = IF HasDIn(s, S) THEN Opacity(s, S) ELSE One - e.value
          /\ e.key \notin {"d", "Tr"} => Opacity(r, S \cup {Len(r)}) = Opacity(s, S)
      BY SaidMore
    <2> QED
      BY <1>11, <2>1
  <1>14. found <=> DBeforeIn(s, n) \/ HasDIn(s, S)
    BY <1>6, <1>10 DEF Reading
  <1>15. HasDIn(r, L + 1 .. Len(r)) <=> (e.key = "d" \/ HasDIn(s, L + 1 .. Len(s)))
    <2>1. Len(r) \in L + 1 .. Len(r) /\ \A k \in L + 1 .. Len(s) : k \in L + 1 .. Len(r) /\ r[k] = s[k]
      BY <1>2
    <2> QED
      BY <1>7, <2>1 DEF HasDIn
  <1> HIDE DEF e
  <1>16. LineRead(m, found, e, after, foundAfter)
    BY DEF e
  <1>17. /\ after.name = m.name
         /\ \A a \in Attributes : after.set[a] = IF e.key = a THEN e.value ELSE m.set[a]
         /\ e.key = "d" => after.d = e.value /\ foundAfter = TRUE
         /\ e.key # "d" => foundAfter = found
         /\ e.key = "Tr" => after.d = IF found THEN m.d ELSE One - e.value
         /\ e.key \notin {"d", "Tr"} => after.d = m.d
    BY <1>1, <1>16 DEF LineRead
  <1>18. AsDescribed(after, r, n)
    <2>1. after.name = r[n].value
      BY <1>2, <1>4, <1>12, <1>17
    <2>2. SetFits(after, r, T)
      BY <1>12, <1>13, <1>17 DEF SetFits
    <2>3. HasDIn(r, T) \/ ~DBeforeIn(r, n) => after.d = Opacity(r, T)
      <3>1. CASE e.key = "d"
        BY <1>13, <1>17, <3>1
      <3>2. CASE e.key = "Tr"
        BY <1>9, <1>12, <1>13, <1>14, <1>17, <3>2
      <3>3. CASE e.key \notin {"d", "Tr"}
        BY <1>9, <1>12, <1>13, <1>17, <3>3
      <3> QED
        BY <3>1, <3>2, <3>3
    <2> QED
      BY <1>11, <2>1, <2>2, <2>3 DEF AsDescribed
  <1>19. foundAfter <=> HasDIn(r, L + 1 .. Len(r))
    BY <1>15, <1>17 DEF Reading
  <1>20. \A k \in n + 1 .. Len(r) : r[k].key # "newmtl"
    BY <1>8 DEF Breaks
  <1> QED
    BY <1>3, <1>7, <1>17, <1>18, <1>19, <1>20 DEF Reading

\* What a newmtl line takes over from the material before.
Longer(more, starts, r) == more = Append(starts, Len(r))
Started(next, m, r) ==
    /\ r[Len(r)].key = "newmtl" /\ r[Len(r)].value # NoName /\ next.name = r[Len(r)].value
    /\ m.name = NoName => next.set = m.set /\ next.d = m.d
    /\ m.name # NoName => next.set = MtlDefault.set /\ next.d = MtlDefault.d

\* The material of a newmtl line at the end: as the lines before the first one of
\* the library say, or as mtl_default.
LEMMA FirstDescribed ==
    ASSUME NEW s, NEW r, Continued(r, s), NEW m, NEW found \in BOOLEAN, NEW starts, NEW L,
           Reading(m, found, s, starts, L), Ordered(s, starts),
           NEW next, Started(next, m, r),
           NEW more, Longer(more, starts, r)
    PROVE  /\ Reading(next, found, r, more, L) /\ AsDescribed(next, r, Len(r))
           /\ Ordered(r, more)
  <1>0. /\ r[Len(r)].key = "newmtl" /\ next.name = r[Len(r)].value /\ r[Len(r)].value # NoName
        /\ m.name = NoName => next.set = m.set /\ next.d = m.d
        /\ m.name # NoName => next.set = MtlDefault.set /\ next.d = MtlDefault.d
    BY DEF Started
  <1>1. /\ InLibrary(s, L) /\ Len(s) \in Nat /\ Len(r) = Len(s) + 1 /\ L \in 1 .. Len(s)
        /\ s \in Seq(Entry) /\ r \in Seq(Entry) /\ \A k \in 1 .. Len(s) : r[k] = s[k]
        /\ DOMAIN r = 1 .. Len(r)
    BY DEF Reading, InLibrary, Continued
  <1>2. InLibrary(r, L) /\ \A k \in L + 1 .. Len(r) : k = Len(r) \/ (k \in L + 1 .. Len(s) /\ r[k] = s[k])
    <2>1. r[Len(r)].key \notin {"mtllib", "usemtl"}
      BY <1>0
    <2> QED
      BY <1>1, <2>1, InLibraryContinued
  <1>3. PICK n : n = Len(r) /\ n \in 1 .. Len(r) /\ n \in L + 1 .. Len(r) + 1
    BY <1>1
  <1>4. LibraryIn(r, n) = L /\ HasLibrary(r, n)
    BY <1>1, <1>2, <1>3, LibraryIs
  <1> DEFINE S == L + 1 .. Len(s)
  <1>5. S \in SUBSET (1 .. Len(s))
    BY <1>1
  <1>6. n - 1 = Len(s) /\ \A k \in S : r[k] = s[k]
    BY <1>1, <1>3
  <1>7. DBeforeIn(r, n) <=> HasDIn(s, S)
    <2>1. \A k \in DOMAIN r : L < k /\ k < n <=> k \in S
      BY <1>1, <1>3
    <2>2. S \subseteq DOMAIN r
      BY <1>1
    <2> HIDE DEF S
    <2> QED
      BY <1>4, <1>6, <2>1, <2>2 DEF DBeforeIn, HasDIn
  <1>8. AboutIn(r, n) = IF \A l \in S : s[l].key # "newmtl" THEN S ELSE {}
    <2>1. ASSUME NEW k \in 1 .. Len(r)
          PROVE  k \in AboutIn(r, n) <=> k \in S /\ \A l \in S : s[l].key # "newmtl"
      <3>1. ~(n < k)
        BY <1>1, <1>3
      <3>2. k \in AboutIn(r, n) <=> k < n /\ L < k /\ \A l \in S : r[l].key # "newmtl"
        BY <1>1, <1>4, <1>6, <3>1 DEF AboutIn
      <3>3. k < n /\ L < k <=> k \in S
        BY <1>1, <1>3
      <3> QED
        BY <1>6, <3>2, <3>3
    <2>2. AboutIn(r, n) \subseteq 1 .. Len(r)
      BY <1>1 DEF AboutIn
    <2>3. S \subseteq 1 .. Len(r)
      BY <1>1
    <2> QED
      BY <2>1, <2>2, <2>3
  <1>9. found <=> HasDIn(s, S)
    BY DEF Reading
  <1>10. m.name = NoName => /\ \A k \in S : s[k].key # "newmtl"
                            /\ SetFits(m, s, S) /\ m.d = Opacity(s, S)
    BY DEF Reading
  <1>11. m.name # NoName => \E k \in S : s[k].key = "newmtl"
    <2> SUFFICES ASSUME m.name # NoName PROVE \E k \in S : s[k].key = "newmtl"
      OBVIOUS
    <2>1. starts # <<>> /\ L < starts[Len(starts)]
      BY DEF Reading
    <2>2. Len(starts) \in 1 .. Len(starts)
      BY <2>1 DEF Ordered
    <2>3. starts[Len(starts)] \in 1 .. Len(s) /\ s[starts[Len(starts)]].key = "newmtl"
      BY <2>2 DEF Ordered
    <2>4. starts[Len(starts)] \in S
      BY <1>1, <2>1, <2>3
    <2> QED
      BY <2>3, <2>4
  <1> HIDE DEF S
  <1>12. AsDescribed(next, r, n)
    <2>1. CASE m.name = NoName
      <3>1. AboutIn(r, n) = S
        BY <1>8, <1>10, <2>1
      <3>2. /\ Opacity(r, S) = Opacity(s, S) /\ (HasDIn(r, S) <=> HasDIn(s, S))
            /\ (SetFits(m, r, S) <=> SetFits(m, s, S))
        BY <1>1, <1>5, OpacityKept
      <3>3. SetFits(next, r, S) /\ next.d = Opacity(r, S)
        BY <1>0, <1>10, <2>1, <3>2 DEF SetFits
      <3> QED
        BY <1>0, <1>3, <3>1, <3>3 DEF AsDescribed
    <2>2. CASE m.name # NoName
      <3>1. AboutIn(r, n) = {}
        BY <1>8, <1>11, <2>2
      <3>2. \A key, default : Told(r, {}, key, default) = default
        BY DEF Told
      <3>3. SetFits(next, r, {}) /\ next.d = Opacity(r, {})
        <4>1. ~HasDIn(r, {})
          BY DEF HasDIn
        <4>2. Opacity(r, {}) = One
          BY <3>2, <4>1 DEF Opacity
        <4> QED
          BY <1>0, <2>2, <3>2, <4>2 DEF SetFits, MtlDefault
      <3> QED
        BY <1>0, <1>3, <3>1, <3>3 DEF AsDescribed
    <2> QED
      BY <2>1, <2>2
  <1>13. /\ more \in Seq(Nat) /\ Len(more) = Len(starts) + 1 /\ Len(starts) \in Nat
         /\ more[Len(starts) + 1] = n /\ \A k \in 1 .. Len(starts) : more[k] = starts[k]
    <2>1. starts \in Seq(Nat) /\ Len(r) \in Nat
      BY <1>1 DEF Ordered
    <2> QED
      BY <1>3, <2>1, AppendFacts DEF Longer
  <1>14. Ordered(r, more)
    <2>1. ASSUME NEW k \in 1 .. Len(more)
          PROVE  /\ more[k] \in 1 .. Len(r) /\ r[more[k]].key = "newmtl" /\ HasLibrary(r, more[k])
                 /\ \A j \in 1 .. k - 1 : more[j] < more[k]
      <3>1. CASE k = Len(starts) + 1
        <4>1. \A j \in 1 .. Len(starts) : starts[j] \in 1 .. Len(s)
          BY DEF Ordered
        <4>2. \A j \in 1 .. k - 1 : more[j] < more[k]
          BY <1>1, <1>3, <1>13, <3>1, <4>1, SMTT(30)
        <4> QED
          BY <1>0, <1>3, <1>4, <1>13, <3>1, <4>2
      <3>2. CASE k # Len(starts) + 1
        <4>1. k \in 1 .. Len(starts) /\ more[k] = starts[k]
          BY <1>13, <3>2
        <4>2. /\ starts[k] \in 1 .. Len(s) /\ s[starts[k]].key = "newmtl" /\ HasLibrary(s, starts[k])
              /\ \A j \in 1 .. k - 1 : starts[j] < starts[k]
          BY <4>1 DEF Ordered
        <4>3. HasLibrary(r, starts[k])
          <5>1. PICK l \in 1 .. starts[k] - 1 : s[l].key = "mtllib"
            BY <4>2 DEF HasLibrary
          <5>2. l \in 1 .. Len(s)
            BY <1>1, <4>2
          <5> QED
            BY <1>1, <5>1, <5>2 DEF HasLibrary
        <4>4. \A j \in 1 .. k - 1 : j \in 1 .. Len(starts) /\ more[j] = starts[j]
          BY <1>13, <4>1
        <4> QED
          BY <1>1, <4>1, <4>2, <4>3, <4>4
      <3> QED
        BY <3>1, <3>2
    <2> QED
      BY <1>13, <2>1 DEF Ordered
  <1>15. Reading(next, found, r, more, L)
    <2>1. HasDIn(r, L + 1 .. Len(r)) <=> HasDIn(s, S)
      <3>1. S \subseteq L + 1 .. Len(r)
        BY <1>1 DEF S
      <3> QED
        BY <1>0, <1>2, <1>6, <3>1 DEF HasDIn, S
    <2>2. more # <<>> /\ more[Len(more)] = n /\ L < n /\ \A k \in n + 1 .. Len(r) : r[k].key # "newmtl"
      BY <1>1, <1>3, <1>13
    <2> QED
      BY <1>0, <1>2, <1>9, <2>1, <2>2 DEF Reading
  <1> QED
    BY <1>3, <1>12, <1>14, <1>15

\* ------------------------------------------- the materials and their lines

StartsIn(s) == FlattenSeq([n \in DOMAIN s |-> IF s[n].key = "newmtl" THEN <<n>> ELSE <<>>])

\* A newmtl line comes behind the ones there are.
LEMMA StartsContinued ==
    ASSUME NEW s, NEW r, Continued(r, s)
    PROVE  /\ StartsIn(s) \in Seq(Nat)
           /\ r[Len(r)].key = "newmtl" => StartsIn(r) = Append(StartsIn(s), Len(r))
           /\ r[Len(r)].key # "newmtl" => StartsIn(r) = StartsIn(s)
  <1> DEFINE q == [n \in DOMAIN s |-> IF s[n].key = "newmtl" THEN <<n>> ELSE <<>>]
             t == [n \in DOMAIN r |-> IF r[n].key = "newmtl" THEN <<n>> ELSE <<>>]
             x == IF r[Len(r)].key = "newmtl" THEN <<Len(r)>> ELSE <<>>
  <1>1. /\ DOMAIN s = 1 .. Len(s) /\ DOMAIN r = 1 .. Len(r) /\ Len(s) \in Nat
        /\ Len(r) = Len(s) + 1 /\ \A k \in 1 .. Len(s) : r[k] = s[k]
    BY DEF Continued
  <1>2. PICK V : V = Seq(Nat)
    OBVIOUS
  <1>3. x \in V /\ (\A n \in 1 .. Len(r) : <<n>> \in V) /\ <<>> \in V
    BY <1>1, <1>2
  <1>4. q \in Seq(V) /\ Len(q) = Len(s)
    BY <1>1, <1>3
  <1>5. t \in Seq(V) /\ Len(t) = Len(r)
    BY <1>1, <1>3
  <1>6. /\ \A n \in 1 .. Len(s) : t[n] = q[n]
        /\ t[Len(s) + 1] = x
    BY <1>1
  <1> HIDE DEF q, t
  <1>7. t = Append(q, x)
    BY <1>1, <1>3, <1>4, <1>5, <1>6
  <1>8. FlattenSeq(t) = FlattenSeq(q) \o x /\ FlattenSeq(q) \in Seq(Nat)
    <2> HIDE DEF x
    <2> QED
      BY <1>2, <1>3, <1>4, <1>7, FlattenAppend, FlattenType
  <1>9. StartsIn(s) = FlattenSeq(q) /\ StartsIn(r) = FlattenSeq(t)
    BY DEF StartsIn, q, t
  <1>10. CASE r[Len(r)].key = "newmtl"
    <2>1. x = <<Len(r)>> /\ Len(r) \in Nat
      BY <1>1, <1>10
    <2> HIDE DEF x
    <2> QED
      BY <1>8, <1>9, <1>10, <2>1
  <1>11. CASE r[Len(r)].key # "newmtl"
    <2>1. x = <<>>
      BY <1>11
    <2> HIDE DEF x
    <2> QED
      BY <1>8, <1>9, <1>11, <2>1
  <1> QED
    BY <1>10, <1>11

LEMMA EmptyFlat == StartsIn(<<>>) = <<>> /\ FromLibraries(<<>>) = <<>>
  <1>1. FlattenSeq(<<>>) = <<>>
    BY DEF FlattenSeq
  <1>2. [n \in DOMAIN <<>> |-> IF <<>>[n].key = "newmtl" THEN <<n>> ELSE <<>>] = <<>>
    OBVIOUS
  <1>3. [k \in DOMAIN <<>> |-> IF <<>>[k].fallback THEN <<>> ELSE <<<<>>[k]>>] = <<>>
    OBVIOUS
  <1> QED
    BY <1>1, <1>2, <1>3 DEF StartsIn, FromLibraries

LEMMA FromAppend ==
    ASSUME NEW all \in Seq(Material), NEW m \in Material
    PROVE  /\ FromLibraries(all) \in Seq(Material)
           /\ m.fallback => FromLibraries(Append(all, m)) = FromLibraries(all)
           /\ ~m.fallback => FromLibraries(Append(all, m)) = Append(FromLibraries(all), m)
  <1> DEFINE r == Append(all, m)
             q == [k \in DOMAIN all |-> IF all[k].fallback THEN <<>> ELSE <<all[k]>>]
             t == [k \in DOMAIN r |-> IF r[k].fallback THEN <<>> ELSE <<r[k]>>]
             x == IF m.fallback THEN <<>> ELSE <<m>>
  <1>1. /\ DOMAIN all = 1 .. Len(all) /\ DOMAIN r = 1 .. Len(all) + 1 /\ Len(all) \in Nat
        /\ r[Len(all) + 1] = m /\ \A k \in 1 .. Len(all) : r[k] = all[k]
        /\ r \in Seq(Material) /\ Len(r) = Len(all) + 1
    BY AppendFacts
  <1>2. PICK V : V = Seq(Material)
    OBVIOUS
  <1>3. x \in V /\ <<>> \in V /\ (\A y \in Material : <<y>> \in V)
    BY <1>2
  <1>4. (\A k \in 1 .. Len(all) : all[k] \in Material) /\ \A k \in 1 .. Len(r) : r[k] \in Material
    BY <1>1
  <1> HIDE DEF r
  <1>5. q \in Seq(V) /\ Len(q) = Len(all)
    BY <1>1, <1>3, <1>4
  <1>6. t \in Seq(V) /\ Len(t) = Len(r)
    BY <1>1, <1>3, <1>4
  <1>7. (\A k \in 1 .. Len(all) : t[k] = q[k]) /\ t[Len(all) + 1] = x
    BY <1>1
  <1> HIDE DEF q, t
  <1>8. t = Append(q, x)
    BY <1>1, <1>3, <1>5, <1>6, <1>7
  <1>9. FlattenSeq(t) = FlattenSeq(q) \o x /\ FlattenSeq(q) \in Seq(Material)
    <2> HIDE DEF x
    <2> QED
      BY <1>2, <1>3, <1>5, <1>8, FlattenAppend, FlattenType
  <1>10. FromLibraries(all) = FlattenSeq(q) /\ FromLibraries(r) = FlattenSeq(t)
    BY DEF FromLibraries, q, t
  <1>11. CASE m.fallback
    <2>1. x = <<>>
      BY <1>11
    <2> HIDE DEF x
    <2> QED
      BY <1>9, <1>10, <1>11, <2>1 DEF r
  <1>12. CASE ~m.fallback
    <2>1. x = <<m>>
      BY <1>12
    <2> HIDE DEF x
    <2> QED
      BY <1>9, <1>10, <1>12, <2>1 DEF r
  <1> QED
    BY <1>11, <1>12

\* With the material under construction, if it has a name.
Known(from, m) == from \o (IF m.name # NoName THEN <<m>> ELSE <<>>)

\* Every newmtl line has its material.
Described(all, s, starts) ==
    /\ Len(all) = Len(starts)
    /\ \A k \in 1 .. Len(starts) : AsDescribed(all[k], s, starts[k])

LEMMA KnownIs ==
    ASSUME NEW from \in Seq(Material), NEW m \in Material
    PROVE  /\ m.name = NoName => Known(from, m) = from
           /\ m.name # NoName => Known(from, m) = Append(from, m)
           /\ Known(from, m) \in Seq(Material)
  BY DEF Known

LEMMA OrderedKept ==
    ASSUME NEW s, NEW r, Continued(r, s), NEW starts, Ordered(s, starts)
    PROVE  Ordered(r, starts)
  <1>1. Len(s) \in Nat /\ Len(r) = Len(s) + 1 /\ \A k \in 1 .. Len(s) : r[k] = s[k]
    BY DEF Continued
  <1>2. ASSUME NEW k \in 1 .. Len(starts)
        PROVE  starts[k] \in 1 .. Len(r) /\ r[starts[k]].key = "newmtl" /\ HasLibrary(r, starts[k])
    <2>1. starts[k] \in 1 .. Len(s) /\ s[starts[k]].key = "newmtl" /\ HasLibrary(s, starts[k])
      BY DEF Ordered
    <2>2. PICK l \in 1 .. starts[k] - 1 : s[l].key = "mtllib"
      BY <2>1 DEF HasLibrary
    <2>3. l \in 1 .. Len(s)
      BY <1>1, <2>1
    <2> QED
      BY <1>1, <2>1, <2>2, <2>3 DEF HasLibrary
  <1> QED
    BY <1>2 DEF Ordered

\* A line that ends what is about the materials so far.
LEMMA DescribedBefore ==
    ASSUME NEW s, NEW r, Continued(r, s), NEW starts, Ordered(s, starts),
           NEW all, Described(all, s, starts), r[Len(r)].key \in Breaks
    PROVE  Described(all, r, starts) /\ Ordered(r, starts)
  <1>1. Len(s) \in Nat /\ Len(r) = Len(s) + 1
    BY DEF Continued
  <1>2. ASSUME NEW k \in 1 .. Len(starts) PROVE AsDescribed(all[k], r, starts[k])
    <2>1. PICK n : n = starts[k] /\ n \in 1 .. Len(s) /\ HasLibrary(s, n)
      BY DEF Ordered
    <2>2. AsDescribed(all[k], s, n)
      BY <2>1 DEF Described
    <2>3. \E l \in n + 1 .. Len(r) : r[l].key \in Breaks
      BY <1>1, <2>1
    <2>4. AsDescribed(all[k], r, n)
      BY <2>1, <2>2, <2>3, DescribedKept
    <2> QED
      BY <2>1, <2>4
  <1> QED
    BY <1>2, OrderedKept DEF Described

\* An attribute line.
LEMMA AttributeLine ==
    ASSUME NEW s, NEW r, Continued(r, s), NEW m \in Material, NEW found \in BOOLEAN,
           NEW starts, NEW L, Reading(m, found, s, starts, L), Ordered(s, starts),
           NEW from \in Seq(Material), Described(Known(from, m), s, starts),
           NEW after \in Material, NEW foundAfter \in BOOLEAN,
           LineRead(m, found, r[Len(r)], after, foundAfter)
    PROVE  /\ Reading(after, foundAfter, r, starts, L) /\ Ordered(r, starts)
           /\ Described(Known(from, after), r, starts)
  <1>1. Len(s) \in Nat /\ Len(r) = Len(s) + 1 /\ \A k \in 1 .. Len(s) : r[k] = s[k]
    BY DEF Continued
  <1>2. L \in 1 .. Len(s) /\ s[L].key = "mtllib" /\ after.name = m.name
    BY DEF Reading, InLibrary, LineRead
  <1>3. Ordered(r, starts)
    BY OrderedKept
  <1>4. ASSUME NEW k \in 1 .. Len(starts), NEW all, NEW b \in 1 .. Len(s), starts[k] < b,
               s[b].key \in Breaks, AsDescribed(all[k], s, starts[k])
        PROVE  AsDescribed(all[k], r, starts[k])
    <2>1. PICK n : n = starts[k] /\ n \in 1 .. Len(s) /\ HasLibrary(s, n)
      BY DEF Ordered
    <2>2. \E l \in n + 1 .. Len(r) : r[l].key \in Breaks
      BY <1>1, <1>4, <2>1
    <2>3. AsDescribed(all[k], r, n)
      BY <1>4, <2>1, <2>2, DescribedKept
    <2> QED
      BY <2>1, <2>3
  <1>5. CASE m.name = NoName
    <2>1. Known(from, after) = from /\ Known(from, m) = from
      BY <1>2, <1>5, KnownIs
    <2>2. ASSUME NEW k \in 1 .. Len(starts) PROVE AsDescribed(from[k], r, starts[k])
      <3>1. starts[k] \in 1 .. Len(s) /\ s[starts[k]].key = "newmtl"
        BY DEF Ordered
      <3>2. starts[k] < L
        BY <1>2, <1>5, <3>1 DEF Reading
      <3>3. AsDescribed(from[k], s, starts[k])
        BY <2>1 DEF Described
      <3> QED
        BY <1>2, <1>4, <3>2, <3>3 DEF Breaks
    <2>3. Described(from, r, starts)
      BY <2>1, <2>2 DEF Described
    <2> QED
      BY <1>3, <1>5, <2>1, <2>3, PrefixRead
  <1>6. CASE m.name # NoName
    <2>1. Known(from, m) = Append(from, m) /\ Known(from, after) = Append(from, after)
      BY <1>2, <1>6, KnownIs
    <2>2. /\ Len(from) \in Nat /\ Len(starts) = Len(from) + 1
          /\ Append(from, m)[Len(starts)] = m /\ Append(from, after)[Len(starts)] = after
          /\ Len(Append(from, after)) = Len(starts)
          /\ \A k \in 1 .. Len(from) : Append(from, m)[k] = from[k] /\ Append(from, after)[k] = from[k]
      BY <2>1 DEF Described
    <2>3. PICK n : n = starts[Len(starts)] /\ n \in 1 .. Len(s) /\ s[n].key = "newmtl"
      BY <2>2 DEF Ordered
    <2>4. AsDescribed(m, s, n)
      <3>1. Len(starts) \in 1 .. Len(starts)
        BY <2>2
      <3>2. AsDescribed(Append(from, m)[Len(starts)], s, starts[Len(starts)])
        BY <2>1, <3>1 DEF Described
      <3> QED
        BY <2>2, <2>3, <3>2
    <2>5. Reading(after, foundAfter, r, starts, L) /\ AsDescribed(after, r, n)
      BY <1>6, <2>3, <2>4, LastRead
    <2>6. ASSUME NEW k \in 1 .. Len(from) PROVE AsDescribed(from[k], r, starts[k])
      <3>1. k \in 1 .. Len(starts) /\ k \in 1 .. Len(starts) - 1
        BY <2>2
      <3>2. starts[k] < n
        BY <2>2, <2>3, <3>1, SMTT(30) DEF Ordered
      <3>3. AsDescribed(from[k], s, starts[k])
        BY <2>1, <2>2, <3>1 DEF Described
      <3> QED
        BY <1>4, <2>3, <3>1, <3>2, <3>3 DEF Breaks
    <2>7. ASSUME NEW k \in 1 .. Len(starts)
          PROVE  AsDescribed(Append(from, after)[k], r, starts[k])
      <3>1. CASE k = Len(starts)
        BY <2>2, <2>3, <2>5, <3>1
      <3>2. CASE k # Len(starts)
        <4>1. k \in 1 .. Len(from) /\ Append(from, after)[k] = from[k]
          BY <2>2, <3>2
        <4> QED
          BY <2>6, <4>1
      <3> QED
        BY <3>1, <3>2
    <2>8. Described(Append(from, after), r, starts)
      BY <2>2, <2>7 DEF Described
    <2> QED
      BY <1>3, <2>1, <2>5, <2>8
  <1> QED
    BY <1>5, <1>6

Extended(then, all, next) ==
    /\ Len(then) = Len(all) + 1 /\ then[Len(all) + 1] = next
    /\ \A k \in 1 .. Len(all) : then[k] = all[k]

\* A newmtl line.
LEMMA NewMtlLine ==
    ASSUME NEW s, NEW r, Continued(r, s), NEW m, NEW found \in BOOLEAN,
           NEW starts, NEW L, Reading(m, found, s, starts, L), Ordered(s, starts),
           NEW all, Described(all, s, starts), NEW next, Started(next, m, r),
           NEW more, Longer(more, starts, r),
           NEW then, Extended(then, all, next)
    PROVE  /\ Reading(next, found, r, more, L) /\ Ordered(r, more)
           /\ Described(then, r, more)
  <1>1. Reading(next, found, r, more, L) /\ AsDescribed(next, r, Len(r)) /\ Ordered(r, more)
    BY FirstDescribed
  <1>2. Described(all, r, starts)
    BY DescribedBefore DEF Breaks, Started
  <1>3. Len(r) \in Nat /\ starts \in Seq(Nat) /\ Len(all) = Len(starts)
    BY DEF Continued, Ordered, Described
  <1>4. /\ Len(starts) \in Nat /\ Len(more) = Len(starts) + 1 /\ more[Len(starts) + 1] = Len(r)
        /\ \A k \in 1 .. Len(starts) : more[k] = starts[k]
    BY <1>3, AppendFacts DEF Longer
  <1>5. /\ Len(then) = Len(starts) + 1 /\ then[Len(starts) + 1] = next
        /\ \A k \in 1 .. Len(starts) : then[k] = all[k]
    BY <1>3 DEF Extended
  <1>6. ASSUME NEW k \in 1 .. Len(more) PROVE AsDescribed(then[k], r, more[k])
    <2>1. CASE k = Len(starts) + 1
      BY <1>1, <1>4, <1>5, <2>1
    <2>2. CASE k # Len(starts) + 1
      <3>1. k \in 1 .. Len(starts) /\ more[k] = starts[k] /\ then[k] = all[k]
        BY <1>4, <1>5, <2>2
      <3> QED
        BY <1>2, <3>1 DEF Described
    <2> QED
      BY <2>1, <2>2
  <1> QED
    BY <1>1, <1>4, <1>5, <1>6 DEF Described

\* ------------------------------------------------------------ the invariant

FromNow == FromLibraries(materials)
DefinedNow == IF pc = "mtl" THEN Known(FromNow, mtl) ELSE FromNow

DescInv ==
    /\ Ordered(said, StartsIn(said))
    /\ Described(DefinedNow, said, StartsIn(said))
    /\ pc = "mtl" => \E L \in 1 .. Len(said) : Reading(mtl, found_d, said, StartsIn(said), L)

LEMMA DescTypes ==
    ASSUME IInv
    PROVE  /\ said \in Seq(Entry) /\ materials \in Seq(Material) /\ mtl \in Material
           /\ ~mtl.fallback /\ found_d \in BOOLEAN /\ pc \in {"obj", "mtl"}
  BY DEF IInv, TypeOK, ReaderInv, Entry

LEMMA FromType ==
    ASSUME NEW all \in Seq(Material)
    PROVE  FromLibraries(all) \in Seq(Material)
  <1>1. MtlDefault \in Material
    BY DefaultType
  <1> QED
    BY <1>1, FromAppend

LEMMA DefaultFallback ==
    ASSUME NEW name \in Names
    PROVE  /\ [MtlDefault EXCEPT !.name = name, !.fallback = TRUE] \in Material
           /\ [MtlDefault EXCEPT !.name = name, !.fallback = TRUE].fallback
  BY DefaultType DEF Material, MtlDefault

\* Pushing the material under construction keeps what is defined.
LEMMA PushKnown ==
    ASSUME IInv
    PROVE  FromLibraries(Push) = Known(FromNow, mtl)
  <1>1. materials \in Seq(Material) /\ mtl \in Material /\ ~mtl.fallback
    BY DescTypes
  <1>2. FromNow \in Seq(Material)
    BY <1>1, FromType DEF FromNow
  <1>3. CASE mtl.name = NoName
    BY <1>1, <1>2, <1>3, KnownIs DEF Push, FromNow
  <1>4. CASE mtl.name # NoName
    <2>1. Push = Append(materials, mtl)
      BY <1>4 DEF Push
    <2>2. FromLibraries(Append(materials, mtl)) = Append(FromNow, mtl)
      BY <1>1, FromAppend DEF FromNow
    <2> QED
      BY <1>1, <1>2, <1>4, <2>1, <2>2, KnownIs
  <1> QED
    BY <1>3, <1>4

\* One line more.
LEMMA LineMore ==
    ASSUME IInv, NEW key \in Attributes \cup OtherKeys,
           NEW value \in Names \cup {NoName} \cup Values \cup Opacities,
           said' = Append(said, [key |-> key, value |-> value])
    PROVE  /\ Continued(said', said) /\ Len(said) \in Nat
           /\ said'[Len(said')].key = key /\ said'[Len(said')].value = value
           /\ key # "newmtl" => StartsIn(said') = StartsIn(said)
           /\ key = "newmtl" => Longer(StartsIn(said'), StartsIn(said), said')
           /\ StartsIn(said) \in Seq(Nat)
  <1>1. [key |-> key, value |-> value] \in Entry /\ said \in Seq(Entry)
    BY DescTypes DEF Entry
  <1>2. /\ Continued(said', said) /\ Len(said) \in Nat
        /\ said'[Len(said')] = [key |-> key, value |-> value]
    BY <1>1, LineContinues
  <1>3. said'[Len(said')].key = key /\ said'[Len(said')].value = value
    BY <1>2
  <1> QED
    BY <1>2, <1>3, StartsContinued DEF Longer

\* A mtllib or usemtl line.
LEMMA BreakStep ==
    ASSUME IInv, DescInv, pc = "obj", NEW key \in {"mtllib", "usemtl"},
           NEW value \in Names \cup {NoName} \cup Values \cup Opacities,
           said' = Append(said, [key |-> key, value |-> value])
    PROVE  /\ Ordered(said', StartsIn(said')) /\ Described(FromNow, said', StartsIn(said'))
           /\ key = "mtllib" => Reading(MtlDefault, FALSE, said', StartsIn(said'), Len(said'))
           /\ Len(said') \in 1 .. Len(said')
  <1>1. key \in OtherKeys /\ key \in Breaks /\ key # "newmtl"
    BY DEF OtherKeys, Breaks
  <1>2. /\ Continued(said', said) /\ Len(said) \in Nat
        /\ said'[Len(said')].key = key
        /\ StartsIn(said') = StartsIn(said)
    BY <1>1, LineMore
  <1>3. Described(FromNow, said, StartsIn(said)) /\ Ordered(said, StartsIn(said))
    BY DEF DescInv, DefinedNow
  <1>4. Described(FromNow, said', StartsIn(said)) /\ Ordered(said', StartsIn(said))
    BY <1>1, <1>2, <1>3, DescribedBefore
  <1>5. Len(said') \in 1 .. Len(said')
    BY <1>2 DEF Continued
  <1>6. ASSUME key = "mtllib"
        PROVE  Reading(MtlDefault, FALSE, said', StartsIn(said'), Len(said'))
    <2>1. PICK S : S = Len(said') + 1 .. Len(said') /\ S = {}
      BY <1>5
    <2>2. InLibrary(said', Len(said'))
      BY <1>2, <1>5, <1>6, <2>1 DEF InLibrary
    <2>3. ~HasDIn(said', S) /\ \A k, default : Told(said', S, k, default) = default
      BY <2>1 DEF HasDIn, Told
    <2>4. Opacity(said', S) = One
      BY <2>3 DEF Opacity
    <2>5. MtlDefault.name = NoName /\ MtlDefault.d = One /\ \A a \in Attributes : MtlDefault.set[a] = Unset
      BY DEF MtlDefault
    <2>6. SetFits(MtlDefault, said', S)
      BY <2>3, <2>5 DEF SetFits
    <2> QED
      BY <2>1, <2>2, <2>3, <2>4, <2>5, <2>6 DEF Reading
  <1> QED
    BY <1>2, <1>4, <1>5, <1>6

\* A line that sets something of the material under construction.
LEMMA AttributeStep ==
    ASSUME IInv, DescInv, IInv', pc = "mtl", UNCHANGED <<pc, materials>>,
           NEW key \in Attributes \cup OtherKeys, key \notin Breaks,
           NEW value \in Names \cup {NoName} \cup Values \cup Opacities,
           said' = Append(said, [key |-> key, value |-> value]),
           LineRead(mtl, found_d, said'[Len(said')], mtl', found_d')
    PROVE  DescInv'
  <1>1. /\ Continued(said', said) /\ StartsIn(said') = StartsIn(said)
    BY LineMore DEF Breaks
  <1>2. mtl \in Material /\ mtl' \in Material /\ found_d \in BOOLEAN /\ found_d' \in BOOLEAN
    BY DescTypes DEF IInv, TypeOK
  <1>3. FromNow \in Seq(Material) /\ FromNow' = FromNow
    BY DescTypes, FromType DEF FromNow
  <1>4. /\ Ordered(said, StartsIn(said))
        /\ Described(Known(FromNow, mtl), said, StartsIn(said))
    BY DEF DescInv, DefinedNow
  <1>5. PICK L : Reading(mtl, found_d, said, StartsIn(said), L)
    BY DEF DescInv
  <1>6. /\ Reading(mtl', found_d', said', StartsIn(said), L) /\ Ordered(said', StartsIn(said))
        /\ Described(Known(FromNow, mtl'), said', StartsIn(said))
    <2>1. PICK s, r, m, after, found, foundAfter, starts, from :
             /\ s = said /\ r = said' /\ m = mtl /\ after = mtl' /\ found = found_d
             /\ foundAfter = found_d' /\ starts = StartsIn(said) /\ from = FromNow
      OBVIOUS
    <2>2. /\ Continued(r, s) /\ m \in Material /\ found \in BOOLEAN
          /\ Reading(m, found, s, starts, L) /\ Ordered(s, starts)
          /\ from \in Seq(Material) /\ Described(Known(from, m), s, starts)
          /\ after \in Material /\ foundAfter \in BOOLEAN
          /\ LineRead(m, found, r[Len(r)], after, foundAfter)
      BY <1>1, <1>2, <1>3, <1>4, <1>5, <2>1
    <2>3. /\ Reading(after, foundAfter, r, starts, L) /\ Ordered(r, starts)
          /\ Described(Known(from, after), r, starts)
      BY <2>2, AttributeLine
    <2> QED
      BY <2>1, <2>3
  <1>7. L \in 1 .. Len(said')
    BY <1>6 DEF Reading, InLibrary
  <1> QED
    BY <1>1, <1>3, <1>6, <1>7 DEF DescInv, DefinedNow

LEMMA NewMtlStep ==
    ASSUME IInv, DescInv, IInv', NEW name \in Names, NewMtl(name)
    PROVE  DescInv'
  <1>1. /\ pc = "mtl" /\ pc' = "mtl" /\ found_d' = found_d /\ materials' = Push
        /\ said' = Append(said, [key |-> "newmtl", value |-> name])
        /\ mtl' = [NextMaterial EXCEPT !.name = name]
    BY DEF NewMtl, Line
  <1>2. /\ Continued(said', said) /\ Longer(StartsIn(said'), StartsIn(said), said')
        /\ said'[Len(said')].key = "newmtl" /\ said'[Len(said')].value = name
    BY <1>1, LineMore DEF OtherKeys
  <1>3. mtl \in Material /\ mtl' \in Material /\ found_d \in BOOLEAN
    BY DescTypes DEF IInv, TypeOK
  <1>4. FromNow \in Seq(Material) /\ FromNow' = Known(FromNow, mtl)
    BY <1>1, DescTypes, FromType, PushKnown DEF FromNow
  <1>5. Known(FromNow, mtl) \in Seq(Material)
    BY <1>3, <1>4, KnownIs
  <1>6. Started(mtl', mtl, said')
    <2>1. MtlDefault \in Material
      BY DefaultType
    <2>2. NextMaterial \in Material
      BY <1>3, <2>1 DEF NextMaterial
    <2>3. mtl'.name = name /\ mtl'.set = NextMaterial.set /\ mtl'.d = NextMaterial.d
      BY <1>1, <2>2 DEF Material
    <2>4. name # NoName
      OBVIOUS
    <2> QED
      BY <1>2, <2>3, <2>4 DEF Started, NextMaterial
  <1>7. mtl'.name # NoName
    BY <1>6 DEF Started
  <1>8. Known(FromNow', mtl') = Append(Known(FromNow, mtl), mtl')
    BY <1>3, <1>4, <1>5, <1>7, KnownIs
  <1>9. /\ Ordered(said, StartsIn(said))
        /\ Described(Known(FromNow, mtl), said, StartsIn(said))
    BY <1>1 DEF DescInv, DefinedNow
  <1>10. PICK L : Reading(mtl, found_d, said, StartsIn(said), L)
    BY <1>1 DEF DescInv
  <1>11. PICK all : all = Known(FromNow, mtl) /\ all \in Seq(Material)
    BY <1>5
  <1>12. PICK then : then = Known(FromNow', mtl') /\ then = Append(all, mtl')
    BY <1>8, <1>11
  <1>13. Extended(then, all, mtl')
    BY <1>3, <1>11, <1>12, AppendFacts DEF Extended
  <1>14. Described(all, said, StartsIn(said))
    BY <1>9, <1>11
  <1>15. /\ Reading(mtl', found_d, said', StartsIn(said'), L) /\ Ordered(said', StartsIn(said'))
         /\ Described(then, said', StartsIn(said'))
    <2>1. PICK s, r, m, next, found, starts, more :
             /\ s = said /\ r = said' /\ m = mtl /\ next = mtl' /\ found = found_d
             /\ starts = StartsIn(said) /\ more = StartsIn(said')
      OBVIOUS
    <2>2. /\ Continued(r, s) /\ found \in BOOLEAN
          /\ Reading(m, found, s, starts, L) /\ Ordered(s, starts)
          /\ Described(all, s, starts) /\ Started(next, m, r) /\ Longer(more, starts, r)
          /\ Extended(then, all, next)
      BY <1>2, <1>3, <1>6, <1>9, <1>10, <1>13, <1>14, <2>1
    <2>3. /\ Reading(next, found, r, more, L) /\ Ordered(r, more)
          /\ Described(then, r, more)
      BY <2>2, NewMtlLine
    <2> QED
      BY <2>1, <2>3
  <1>16. L \in 1 .. Len(said')
    BY <1>15 DEF Reading, InLibrary
  <1> QED
    BY <1>1, <1>12, <1>15, <1>16 DEF DescInv, DefinedNow

LEMMA DescStep ==
    ASSUME IInv, DescInv, IInv', [Next]_vars
    PROVE  DescInv'
  <1>1. CASE OpenLibrary
    <2>1. /\ pc = "obj" /\ pc' = "mtl" /\ materials' = materials
          /\ said' = Append(said, [key |-> "mtllib", value |-> NoName])
          /\ mtl' = MtlDefault /\ found_d' = FALSE
      BY <1>1 DEF OpenLibrary, Line
    <2>2. /\ Ordered(said', StartsIn(said')) /\ Described(FromNow, said', StartsIn(said'))
          /\ Reading(MtlDefault, FALSE, said', StartsIn(said'), Len(said'))
          /\ Len(said') \in 1 .. Len(said')
      BY <2>1, BreakStep
    <2>3. FromNow' = FromNow /\ FromNow \in Seq(Material)
      BY <2>1, DescTypes, FromType DEF FromNow
    <2>4. MtlDefault \in Material /\ MtlDefault.name = NoName
      BY DefaultType DEF MtlDefault
    <2>5. Known(FromNow', mtl') = FromNow
      BY <2>1, <2>3, <2>4, KnownIs
    <2>6. DefinedNow' = FromNow
      BY <2>1, <2>5 DEF DefinedNow
    <2> QED
      BY <2>1, <2>2, <2>6 DEF DescInv
  <1>2. CASE CloseLibrary
    <2>1. pc = "mtl" /\ pc' = "obj" /\ materials' = Push /\ said' = said
      BY <1>2 DEF CloseLibrary
    <2>2. DefinedNow' = DefinedNow
      BY <2>1, PushKnown DEF DefinedNow, FromNow
    <2> QED
      BY <2>1, <2>2 DEF DescInv
  <1>3. ASSUME NEW name \in Names, UseMtl(name) PROVE DescInv'
    <2>1. /\ pc = "obj" /\ pc' = "obj"
          /\ said' = Append(said, [key |-> "usemtl", value |-> name])
      BY <1>3 DEF UseMtl, Line
    <2>2. Ordered(said', StartsIn(said')) /\ Described(FromNow, said', StartsIn(said'))
      BY <2>1, BreakStep
    <2>3. FromNow' = FromNow
      <3>1. CASE materials' = materials
        BY <3>1 DEF FromNow
      <3>2. CASE materials' = Append(materials, [MtlDefault EXCEPT !.name = name, !.fallback = TRUE])
        BY <3>2, DescTypes, DefaultFallback, FromAppend DEF FromNow
      <3> QED
        BY <1>3, <3>1, <3>2 DEF UseMtl
    <2> QED
      BY <2>1, <2>2, <2>3 DEF DescInv, DefinedNow
  <1>4. ASSUME NEW a \in Attributes, NEW value \in Values, SetAttribute(a, value) PROVE DescInv'
    <2>1. /\ pc = "mtl" /\ UNCHANGED <<pc, materials>> /\ found_d' = found_d
          /\ said' = Append(said, [key |-> a, value |-> value])
          /\ mtl' = [mtl EXCEPT !.set[a] = value]
      BY <1>4 DEF SetAttribute, Line
    <2>2. said'[Len(said')].key = a /\ said'[Len(said')].value = value
      BY <2>1, LineMore
    <2>3. mtl \in Material
      BY DescTypes
    <2>4. LineRead(mtl, found_d, said'[Len(said')], mtl', found_d')
      BY <2>1, <2>2, <2>3 DEF LineRead, Material
    <2>5. a \notin Breaks
      BY DEF Breaks, OtherKeys
    <2> QED
      BY <2>1, <2>4, <2>5, AttributeStep
  <1>5. ASSUME NEW value \in Opacities, ReadD(value) PROVE DescInv'
    <2>1. /\ pc = "mtl" /\ UNCHANGED <<pc, materials>> /\ found_d' = TRUE
          /\ said' = Append(said, [key |-> "d", value |-> value])
          /\ mtl' = [mtl EXCEPT !.d = value]
      BY <1>5 DEF ReadD, Line
    <2>2. "d" \in OtherKeys /\ "d" \notin Breaks /\ "d" \notin Attributes
      BY DEF OtherKeys, Breaks
    <2>3. said'[Len(said')].key = "d" /\ said'[Len(said')].value = value
      BY <2>1, <2>2, LineMore
    <2>4. mtl \in Material
      BY DescTypes
    <2>5. LineRead(mtl, found_d, said'[Len(said')], mtl', found_d')
      BY <2>1, <2>2, <2>3, <2>4 DEF LineRead, Material
    <2> QED
      BY <2>1, <2>2, <2>5, AttributeStep
  <1>6. ASSUME NEW value \in Opacities, ReadTr(value) PROVE DescInv'
    <2>1. /\ pc = "mtl" /\ UNCHANGED <<pc, materials>> /\ found_d' = found_d
          /\ said' = Append(said, [key |-> "Tr", value |-> value])
          /\ mtl' = IF found_d THEN mtl ELSE [mtl EXCEPT !.d = One - value]
      BY <1>6 DEF ReadTr, Line, OpacityOfTr
    <2>2. "Tr" \in OtherKeys /\ "Tr" \notin Breaks /\ "Tr" \notin Attributes
      BY DEF OtherKeys, Breaks
    <2>3. said'[Len(said')].key = "Tr" /\ said'[Len(said')].value = value
      BY <2>1, <2>2, LineMore
    <2>4. mtl \in Material /\ found_d \in BOOLEAN
      BY DescTypes
    <2>5. LineRead(mtl, found_d, said'[Len(said')], mtl', found_d')
      BY <2>1, <2>2, <2>3, <2>4 DEF LineRead, Material
    <2> QED
      BY <2>1, <2>2, <2>5, AttributeStep
  <1>7. CASE UNCHANGED vars
    BY <1>7 DEF vars, DescInv, DefinedNow, FromNow
  <1> QED
    BY <1>1, <1>2, <1>3, <1>4, <1>5, <1>6, <1>7, NewMtlStep DEF Next, Done

\* What the invariant says, in the words of the property.
LEMMA DescImplies ==
    ASSUME IInv, DescInv
    PROVE  MaterialsAsDescribed
  <1>1. NewMtlLines = StartsIn(said)
    BY DEF NewMtlLines, StartsIn
  <1>2. Defined = DefinedNow
    <2>1. FromNow \in Seq(Material) /\ (pc = "mtl" \/ pc = "obj")
      BY DescTypes, FromType DEF FromNow
    <2>2. FromNow \o <<>> = FromNow
      BY <2>1
    <2> QED
      BY <2>1, <2>2 DEF Defined, DefinedNow, FromNow, Known
  <1>3. \A n : LibraryOf(n) = LibraryIn(said, n)
    <2> TAKE n
    <2>1. {m \in Lines({"mtllib"}) : m < n} = {m \in DOMAIN said : said[m].key = "mtllib" /\ m < n}
      BY DEF Lines
    <2> QED
      BY <2>1 DEF LibraryOf, LibraryIn
  <1>4. \A n : About(n) = AboutIn(said, n)
    BY <1>3 DEF About, AboutIn, Breaks
  <1>5. \A n : DBefore(n) <=> DBeforeIn(said, n)
    BY <1>3 DEF DBefore, DBeforeIn, Lines
  <1>6. \A n : HasD(n) <=> HasDIn(said, AboutIn(said, n))
    BY <1>4 DEF HasD, HasDIn
  <1>7. \A n, key, default : Says(n, key, default) = Told(said, AboutIn(said, n), key, default)
    BY <1>4 DEF Says, Told
  <1>8. \A n : OpacitySaid(n) = Opacity(said, AboutIn(said, n))
    BY <1>6, <1>7 DEF OpacitySaid, Opacity
  <1>9. /\ Len(DefinedNow) = Len(StartsIn(said)) /\ DOMAIN StartsIn(said) = 1 .. Len(StartsIn(said))
        /\ \A k \in 1 .. Len(StartsIn(said)) : AsDescribed(DefinedNow[k], said, StartsIn(said)[k])
    BY DEF DescInv, Described, Ordered
  <1> HIDE DEF DescInv
  <1>10. ASSUME NEW m, NEW n, AsDescribed(m, said, n)
         PROVE  /\ m.name = said[n].value
                /\ \A a \in Attributes : m.set[a] = Says(n, a, Unset)
                /\ HasD(n) \/ ~DBefore(n) => m.d = OpacitySaid(n)
    BY <1>5, <1>6, <1>7, <1>8, <1>10 DEF AsDescribed, SetFits
  <1> QED
    BY <1>1, <1>2, <1>9, <1>10 DEF MaterialsAsDescribed

\* Whatever libraries are read, in whatever order: every newmtl line has its
\* material, with the values of the lines about it.
THEOREM MaterialsTheorem == Spec => []MaterialsAsDescribed
  <1>1. Init => DescInv
    <2> SUFFICES ASSUME Init PROVE DescInv
      OBVIOUS
    <2>1. said = <<>> /\ materials = <<>> /\ pc = "obj"
      BY DEF Init
    <2>2. StartsIn(said) = <<>> /\ FromNow = <<>>
      BY <2>1, EmptyFlat DEF FromNow
    <2>3. Ordered(<<>>, <<>>) /\ Described(<<>>, <<>>, <<>>)
      BY DEF Ordered, Described
    <2> QED
      BY <2>1, <2>2, <2>3 DEF DescInv, DefinedNow
  <1>2. IInv /\ IInv' /\ DescInv /\ [Next]_vars => DescInv'
    BY DescStep
  <1>3. IInv /\ DescInv => MaterialsAsDescribed
    BY DescImplies
  <1> QED
    BY <1>1, <1>2, <1>3, Inductive, PTL DEF Spec
=============================================================================
