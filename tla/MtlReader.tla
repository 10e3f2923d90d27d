------------------------------ MODULE MtlReader ------------------------------
(***************************************************************************)
(* Where the materials of a mesh come from: read_mtllib reads a library     *)
(* line by line into one material that it pushes at the next newmtl and at  *)
(* the end; parse_usemtl looks a name up and makes a fallback where there   *)
(* is none. An OBJ file has both kinds of line in any order. Lines that     *)
(* read_mtllib skips, and a library that it cannot open or hold in memory,  *)
(* change nothing.                                                          *)
(***************************************************************************)
EXTENDS Integers, Sequences, SequencesExt

CONSTANTS
    Names,        \* of materials
    NoName,       \* mtl.name = 0
    Attributes,   \* what a line can set, but d: Ka .. Tf, Ns, Ni, illum, the maps
    Values,       \* of attributes
    Unset,        \* the value that mtl_default gives an attribute
    One,          \* 1.0, of whatever unit d and Tr are given in
    Opacities,    \* the numbers of d and Tr lines
    LineLimit     \* bound of a run: lines of the OBJ file and its libraries

OtherKeys == {"mtllib", "newmtl", "usemtl", "d", "Tr"}

ASSUME NameAssumption == NoName \notin Names
ASSUME ValueAssumption == Unset \notin Values
ASSUME KeyAssumption == Attributes \cap OtherKeys = {}
ASSUME OpacityAssumption == One \in Nat /\ Opacities \subseteq 0 .. One
ASSUME LineAssumption == LineLimit \in Nat

VARIABLES
    pc,          \* "obj" in the OBJ file, "mtl" in read_mtllib
    materials,
    mtl,         \* of read_mtllib: the material under construction
    found_d,
    material,    \* fastObjData: index of the material of the next face
    said         \* history: the lines so far

vars == <<pc, materials, mtl, found_d, material, said>>

Material == [name : Names \cup {NoName}, fallback : BOOLEAN, d : 0 .. One,
             set : [Attributes -> Values \cup {Unset}]]

\* mtl_default
MtlDefault == [name |-> NoName, fallback |-> FALSE, d |-> One,
               set |-> [a \in Attributes |-> Unset]]

Init ==
    /\ pc = "obj"
    /\ materials = <<>>
    /\ mtl = MtlDefault /\ found_d = FALSE
    /\ material = 0
    /\ said = <<>>

Line(where, key, value) ==
    /\ pc = where /\ Len(said) < LineLimit
    /\ said' = Append(said, [key |-> key, value |-> value])

-----------------------------------------------------------------------------

OpenLibrary ==
    /\ Line("obj", "mtllib", NoName)
    /\ pc' = "mtl" /\ mtl' = MtlDefault /\ found_d' = FALSE
    /\ UNCHANGED <<materials, material>>

\* Variant: a material goes in front of those there are.
PushFront == IF mtl.name = NoName THEN materials ELSE <<mtl>> \o materials

\* "Push previous material (if there is one)", "Push final material"
Push == IF mtl.name = NoName THEN materials ELSE Append(materials, mtl)

\* Variant: the attributes of the last material stay.
NextKeepsAttributes == mtl

\* What lines before the first newmtl have set stays with the first material.
NextMaterial == IF mtl.name = NoName THEN mtl ELSE MtlDefault

NewMtl(name) ==
    /\ Line("mtl", "newmtl", name)
    /\ materials' = Push
    /\ mtl' = [NextMaterial EXCEPT !.name = name]
    /\ UNCHANGED <<pc, found_d, material>>

SetAttribute(a, value) ==
    /\ Line("mtl", a, value)
    /\ mtl' = [mtl EXCEPT !.set[a] = value]
    /\ UNCHANGED <<pc, materials, found_d, material>>

ReadD(value) ==
    /\ Line("mtl", "d", value)
    /\ mtl' = [mtl EXCEPT !.d = value] /\ found_d' = TRUE
    /\ UNCHANGED <<pc, materials, material>>

\* Variant: the terms are swapped.
OpacitySwapped(value) == value - One
OpacityOfTr(value) == One - value

ReadTr(value) ==
    /\ Line("mtl", "Tr", value)
    /\ mtl' = IF found_d THEN mtl ELSE [mtl EXCEPT !.d = OpacityOfTr(value)]
    /\ UNCHANGED <<pc, materials, found_d, material>>

CloseLibrary ==
    /\ pc = "mtl"
    /\ materials' = Push
    /\ pc' = "obj"
    /\ UNCHANGED <<mtl, found_d, material, said>>

-----------------------------------------------------------------------------

\* Variant: materials of libraries are not found.
FallbackHas(k, name) == materials[k].name = name /\ materials[k].fallback
Has(k, name) == materials[k].name = name

\* "Find an existing material with the same name"; "If doesn't exists, create a
\* default one with this name".
UseMtl(name) ==
    /\ Line("obj", "usemtl", name)
    /\ \/ \E k \in DOMAIN materials :
            /\ Has(k, name) /\ \A j \in 1 .. k - 1 : ~Has(j, name)
            /\ material' = k - 1 /\ UNCHANGED materials
       \/ /\ \A k \in DOMAIN materials : ~Has(k, name)
          /\ material' = Len(materials)
          /\ materials' = Append(materials,
                             [MtlDefault EXCEPT !.name = name, !.fallback = TRUE])
    /\ UNCHANGED <<pc, mtl, found_d>>

Done == pc = "obj" /\ Len(said) = LineLimit /\ UNCHANGED vars

Next ==
    \/ OpenLibrary \/ CloseLibrary
    \/ \E name \in Names : NewMtl(name) \/ UseMtl(name)
    \/ \E a \in Attributes, value \in Values : SetAttribute(a, value)
    \/ \E value \in Opacities : ReadD(value) \/ ReadTr(value)
    \/ Done

Spec == Init /\ [][Next]_vars

-----------------------------------------------------------------------------

TypeOK ==
    /\ pc \in {"obj", "mtl"}
    /\ materials \in Seq(Material) /\ mtl \in Material
    /\ found_d \in BOOLEAN /\ material \in Nat
    /\ said \in Seq([key : Attributes \cup OtherKeys,
                     value : Names \cup {NoName} \cup Values \cup Opacities])

\* A fallback stands for a name that no library before it has defined, and
\* there is one of a name at most: "Set for materials that don't come from the
\* associated mtllib".
FallbackOnlyIfMissing ==
    \A j, k \in DOMAIN materials :
        j < k /\ materials[k].fallback => materials[j].name # materials[k].name

\* The material of the last usemtl line is the one that the next face gets,
\* whatever libraries have been read since.
MaterialInForce ==
    LET uses == {n \in DOMAIN said : said[n].key = "usemtl"}
    IN  \A n \in uses : (\A m \in uses : m <= n) =>
            /\ material < Len(materials)
            /\ materials[material + 1].name = said[n].value

\* The materials that libraries have defined, the one being read included, and
\* the newmtl lines that they come from.
FromLibraries(all) ==
    FlattenSeq([k \in DOMAIN all |-> IF all[k].fallback THEN <<>> ELSE <<all[k]>>])
Defined == FromLibraries(materials)
             \o (IF pc = "mtl" /\ mtl.name # NoName THEN <<mtl>> ELSE <<>>)
Lines(keys) == {n \in DOMAIN said : said[n].key \in keys}
NewMtlLines ==
    FlattenSeq([n \in DOMAIN said |-> IF said[n].key = "newmtl" THEN <<n>> ELSE <<>>])

\* The lines about the material of line n: those from there to the next newmtl
\* line or the end of the library, and for the first material of a library also
\* those before it.
LibraryOf(n) == Max({m \in Lines({"mtllib"}) : m < n})
About(n) ==
    {m \in DOMAIN said :
        \/ n < m /\ \A l \in n + 1 .. m : said[l].key \notin {"newmtl", "mtllib", "usemtl"}
        \/ m < n /\ LibraryOf(n) < m /\ \A l \in LibraryOf(n) + 1 .. n - 1 : said[l].key # "newmtl"}

\* What the last of these lines with that key says.
Says(n, key, default) ==
    LET those == {m \in About(n) : said[m].key = key}
    IN  IF those = {} THEN default
        ELSE said[Max(those)].value

HasD(n) == \E m \in About(n) : said[m].key = "d"
OpacitySaid(n) ==
    IF HasD(n) THEN Says(n, "d", One) ELSE One - Says(n, "Tr", 0)
DBefore(n) == \E m \in Lines({"d"}) : LibraryOf(n) < m /\ m < n

\* Every newmtl line gives one material, in their order, with the name of the
\* line and what the lines about it say of each attribute: nothing of another
\* material and nothing of another library.
MaterialsAsDescribed ==
    LET starts == NewMtlLines
    IN  /\ Len(Defined) = Len(starts)
        /\ \A k \in DOMAIN starts :
             LET n == starts[k]
             IN  /\ Defined[k].name = said[n].value
                 /\ \A a \in Attributes : Defined[k].set[a] = Says(n, a, Unset)
                 /\ HasD(n) \/ ~DBefore(n) => Defined[k].d = OpacitySaid(n)

\* "Ignore Tr if we've already read d": a Tr line counts unless its own material
\* has a d line. Violated: found_d is not reset with the material.
TrIgnoredOnlyAfterD ==
    \A k \in DOMAIN NewMtlLines : Defined[k].d = OpacitySaid(NewMtlLines[k])
=============================================================================
