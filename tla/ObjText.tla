------------------------------ MODULE ObjText -------------------------------
(***************************************************************************)
(* parse_buffer as a reader of characters, composed with the block reader   *)
(* that hands it the file: what each turn of its loop takes for a line, and *)
(* the numbers, names and corners that the handlers read from it. A buffer  *)
(* is a sequence b, a pointer into it a position p.                         *)
(***************************************************************************)
EXTENDS ObjReader

CONSTANTS
    IntModulus,   \* 2^32: the values of an int
    FileLetters,  \* bounds of a run: the letters of its short files
    FileLimit,    \* and their length,
    LineTexts,    \* the lines of its longer files
    LineLimit     \* and how many of them a file has

ASSUME IntAssumption == IntModulus \in Nat \ {0} /\ IntModulus % 2 = 0
ASSUME FileAssumption == FileLimit \in Nat /\ FileLetters \subseteq Letters
ASSUME LineAssumption == LineLimit \in Nat /\ LineTexts \subseteq Seq(Letters)

VARIABLE lines   \* what parse_buffer has made of the lines

Blank == {" ", "\t", "\r"}
Digits == <<"0", "1", "2", "3", "4", "5", "6", "7", "8", "9">>
Digit == Range(Digits)

-----------------------------------------------------------------------------
(* skip_whitespace, skip_name, skip_line.                                   *)

\* The first position from p on with a character of S.
First(b, p, S) == Min({q \in p .. Len(b) : b[q] \in S} \cup {Len(b) + 1})

SkipWhile(b, p, S) == First(b, p, Range(b) \ S)
SkipBlanks(b, p) == SkipWhile(b, p, Blank)
LineEnd(b, p) == First(b, p, {NewLine})
SkipLine(b, p) == LineEnd(b, p) + 1

\* Up to the last character of the line that is not blank.
Name(b, p) == SubSeq(b, p, Max({p - 1} \cup {q \in p .. LineEnd(b, p) - 1 : b[q] \notin Blank}))

\* A loop that moves the pointer: where it has been, from p to where it stays.
Path(next, p, limit) ==
    LET path[k \in Nat] ==
            IF k = 0
            THEN <<p>>
            ELSE LET before == path[k - 1]
                     q == next[Last(before)]
                 IN  IF q = Last(before) THEN before ELSE Append(before, q)
    IN  path[limit]

-----------------------------------------------------------------------------
(* parse_int, on two's complement, and parse_float as far as it moves.      *)

ValueOf(digit) == CHOOSE d \in 0 .. 9 : Digits[d + 1] = digit
Signed(n) == IF n < IntModulus \div 2 THEN n ELSE n - IntModulus

\* A result of val where parsing goes on at next.
Parsed(val, next) == [val |-> val, next |-> next]

SkipOne(b, p, S) == IF b[p] \in S THEN p + 1 ELSE p

Value(digits) ==
    LET num[k \in 0 .. Len(digits)] ==
            IF k = 0 THEN 0 ELSE (10 * num[k - 1] + ValueOf(digits[k])) % IntModulus
    IN  num[Len(digits)]

ParseInt(b, p) ==
    LET start == SkipOne(b, p, {"-"})
        end == SkipWhile(b, start, Digit)
        num == Value(SubSeq(b, start, end - 1))
    IN  Parsed(Signed((IF start = p THEN num ELSE -num) % IntModulus), end)

\* The three parts of a number, of which any may be missing.
Whole(b, p) == SkipWhile(b, SkipOne(b, p, {"+", "-"}), Digit)
Fraction(b, p) == SkipWhile(b, SkipOne(b, p, {"."}), Digit)
Exponent(b, p) == IF b[p] \in {"e", "E"} THEN Whole(b, p + 1) ELSE p
ParseFloat(b, p) == Exponent(b, Fraction(b, Whole(b, SkipBlanks(b, p))))

-----------------------------------------------------------------------------
(* The handlers: the line that they make of the text from p on.            *)

Nothing == [kind |-> "none", corners |-> <<>>, whole |-> TRUE, coloured |-> FALSE, name |-> <<>>]

\* Three coordinates, and colours if there is anything behind them.
ParseVertex(b, p) ==
    LET third == ParseFloat(b, ParseFloat(b, ParseFloat(b, p)))
        coloured == b[SkipBlanks(b, third)] # NewLine
    IN  Parsed([Nothing EXCEPT !.kind = "v", !.coloured = coloured],
               IF coloured
               THEN ParseFloat(b, ParseFloat(b, ParseFloat(b, third)))
               ELSE SkipBlanks(b, third))

\* Variant: the first slash is followed by a number in any case.
TexcoordAlways(b, p) == ParseInt(b, SkipOne(b, p, {"/"}))
\* Behind the first slash, unless a second one follows.
Texcoord(b, p) == IF b[p] = "/" THEN Parsed(0, p) ELSE ParseInt(b, p)

\* v, v/t, v//n or v/t/n.
ParseCorner(b, p) ==
    LET v == ParseInt(b, p)
        t == IF b[v.next] = "/"
             THEN Texcoord(b, v.next + 1)
             ELSE Parsed(0, v.next)
        n == IF b[v.next] = "/" /\ b[t.next] = "/"
             THEN ParseInt(b, t.next + 1)
             ELSE Parsed(0, t.next)
    IN  Parsed([p |-> v.val, t |-> t.val, n |-> n.val], n.next)

CornerAt(b, p) == ParseCorner(b, SkipBlanks(b, p))
NoCornerAt(b, p) == b[SkipBlanks(b, p)] = NewLine \/ CornerAt(b, p).val.p = 0

\* The face whose corners start along the path, up to where it stays: at the
\* newline, or in front of a corner without a vertex, and the line is not whole.
FaceAlong(b, path) ==
    LET end == SkipBlanks(b, Last(path))
        whole == b[end] = NewLine
    IN  Parsed([Nothing EXCEPT !.kind = "f", !.whole = whole,
                               !.corners = [k \in 1 .. Len(path) - 1 |-> CornerAt(b, path[k]).val]],
               IF whole THEN end ELSE ParseCorner(b, end).next)

ParseFace(b, p) ==
    LET next == [q \in DOMAIN b |-> IF NoCornerAt(b, q) THEN q ELSE CornerAt(b, q).next]
    IN  FaceAlong(b, Path(next, p, Len(b)))

\* parse_object, parse_group, parse_usemtl, parse_mtllib.
ParseName(kind, b, p) ==
    LET start == SkipBlanks(b, p)
    IN  Parsed([Nothing EXCEPT !.kind = kind, !.name = Name(b, start)], LineEnd(b, start))

\* Variant: the character behind the letter stays consumed.
KeepConsumed(p) == p + 2

\* "roll p++ back in case *p was a newline"
RollBack(p) == p + 1

Keywords == [m |-> <<"m", "t", "l", "l", "i", "b">>, u |-> <<"u", "s", "e", "m", "t", "l">>]
Starts(b, p, word) ==
    LET end == p + Len(word)
    IN  end <= Len(b) /\ SubSeq(b, p, end - 1) = word /\ b[end] \in Blank

\* '\n' is none of the other characters that the parser knows.
ASSUME NewLineAssumption ==
    NewLine \notin Blank \cup Digit \cup {"+", "-", ".", "e", "E", "/", "v", "t", "n", "f", "o", "g",
                                         "m", "l", "i", "b", "u", "s"}

\* The switch of parse_buffer. A tab is a separator there, a carriage return not.
Dispatch(b, p) ==
    LET second == b[p + 1]
        Separated == second \in {" ", "\t"}
    IN  CASE b[p] = "v" /\ Separated -> ParseVertex(b, p + 2)
          [] b[p] = "v" /\ second = "t" ->
               Parsed([Nothing EXCEPT !.kind = "vt"], ParseFloat(b, ParseFloat(b, p + 2)))
          [] b[p] = "v" /\ second = "n" ->
               Parsed([Nothing EXCEPT !.kind = "vn"],
                      ParseFloat(b, ParseFloat(b, ParseFloat(b, p + 2))))
          [] b[p] = "f" /\ Separated -> ParseFace(b, p + 2)
          [] b[p] \in {"o", "g"} /\ Separated -> ParseName(b[p], b, p + 2)
          [] b[p] \in DOMAIN Keywords /\ Starts(b, p, Keywords[b[p]]) -> ParseName(b[p], b, p + 6)
          [] b[p] \in {"v", "f", "o", "g"} /\ ~Separated /\ ~(b[p] = "v" /\ second \in {"t", "n"}) ->
               Parsed(Nothing, RollBack(p))
          [] OTHER -> Parsed(Nothing, p)

\* One turn of the loop of parse_buffer for each line.
Turn(b, p) == Dispatch(b, SkipBlanks(b, p))

\* What the turns that start along the path read.
ReadAt(b, path) == [k \in 1 .. Len(path) - 1 |-> Turn(b, path[k]).val]

Turns(b) ==
    LET next == [p \in Nat |-> IF p > Len(b) THEN p ELSE SkipLine(b, Turn(b, p).next)]
    IN  ReadAt(b, Path(next, 1, Len(b)))

-----------------------------------------------------------------------------
(* The block reader hands its buffer over.                                  *)

ShortFiles == UNION {[1 .. n -> FileLetters \cup {NewLine}] : n \in 0 .. FileLimit}

\* Files of whole lines, and without their last newline.
LongFiles ==
    LET Joined(texts) == FlattenSeq([i \in DOMAIN texts |-> Append(texts[i], NewLine)])
        whole == {Joined(texts) : texts \in BoundedSeq(LineTexts, LineLimit) \ {<<>>}}
    IN  whole \cup {Front(text) : text \in whole}

TextInit ==
    /\ \/ Start(ShortFiles)
       \/ Start(LongFiles) /\ ~shortReads
    /\ lines = <<>>

HandOver ==
    /\ ParseBuffer
    /\ lines' = lines \o Turns(SubSeq(parsed', Len(parsed) + 1, Len(parsed')))

TextNext ==
    \/ HandOver
    \/ /\ ReadFile \/ LineTooLong \/ Done
       /\ UNCHANGED lines

TextSpec ==
    /\ TextInit /\ [][TextNext]_<<vars, lines>>
    /\ WF_vars(ReadFile \/ ParseBuffer \/ LineTooLong)

-----------------------------------------------------------------------------
(* Properties.                                                             *)

\* The number that has k smaller ones in a set.
Nth(at, k) == CHOOSE i \in at : Cardinality({j \in at : j < i}) = k

\* What stands between the separators.
Split(text, separators) ==
    LET at == {i \in DOMAIN text : text[i] \in separators} \cup {0, Len(text) + 1}
    IN  [k \in 1 .. Cardinality(at) - 1 |-> SubSeq(text, Nth(at, k - 1) + 1, Nth(at, k) - 1)]

Lines == Front(Split(parsed, {NewLine}))

\* Every turn of parse_buffer makes of its line what it would make of that line
\* alone, and leaves the next line to the next turn: no handler runs on over the
\* newline, however short or broken the line, wherever the blocks cut the file.
LinesApart ==
    /\ Len(lines) = Len(Lines)
    /\ \A i \in DOMAIN lines : Turns(Append(Lines[i], NewLine)) = <<lines[i]>>

\* What stands between the blanks.
WordStarts(text) == {i \in DOMAIN text : text[i] \notin Blank /\ (i > 1 => text[i - 1] \in Blank)}
Words(text) ==
    [k \in 1 .. Cardinality(WordStarts(text)) |->
        LET start == Nth(WordStarts(text), k - 1)
        IN  SubSeq(text, start, First(text, start, Blank) - 1)]

\* The rest of the line behind its first word, without the blanks around it.
Rest(text) ==
    LET solid == {q \in DOMAIN text : text[q] \notin Blank}
        behind == {q \in solid : \E blank \in DOMAIN text \ solid, first \in solid :
                                     first < blank /\ blank < q}
    IN  IF behind = {} THEN <<>> ELSE SubSeq(text, Min(behind), Max(behind))

\* A carriage return stands at most before the newline.
PlainLine(text) == \A q \in DOMAIN text : text[q] = "\r" => q = Len(text)

\* A number in the range of int, and its value, counted without a limit.
Unsigned(word) == IF word[1] = "-" THEN Tail(word) ELSE word
Decimal(digits) ==
    LET num[k \in 0 .. Len(digits)] == IF k = 0 THEN 0 ELSE 10 * num[k - 1] + ValueOf(digits[k])
    IN  num[Len(digits)]
IsNumber(word) ==
    /\ word # <<>> /\ Unsigned(word) # <<>> /\ Range(Unsigned(word)) \subseteq Digit
    /\ Decimal(Unsigned(word)) < IntModulus \div 2
Number(word) == IF word[1] = "-" THEN -Decimal(Unsigned(word)) ELSE Decimal(Unsigned(word))

IsCorner(word) ==
    LET fields == Split(word, {"/"})
    IN  /\ Len(fields) <= 3
        /\ IsNumber(fields[1]) /\ Number(fields[1]) # 0
        /\ \A i \in 2 .. Len(fields) : fields[i] = <<>> \/ IsNumber(fields[i])
Meant(word) ==
    LET fields == Split(word, {"/"})
        Field(i) == IF i > Len(fields) \/ fields[i] = <<>> THEN 0 ELSE Number(fields[i])
    IN  [p |-> Field(1), t |-> Field(2), n |-> Field(3)]

\* A face line of nothing but corners is read as it is written, number by number,
\* as long as the numbers are in the range of int; a vertex line of numbers has
\* colours if there are more than three; a name keeps its inner blanks only.
AsWritten ==
    \A i \in DOMAIN lines :
        LET words == Words(Lines[i])
            arguments == Tail(words)
        IN  words # <<>> /\ PlainLine(Lines[i]) =>
              /\ words[1] = <<"f">> /\ (\A k \in DOMAIN arguments : IsCorner(arguments[k])) =>
                    lines[i].whole /\ lines[i].corners = [k \in DOMAIN arguments |-> Meant(arguments[k])]
              /\ words[1] = <<"v">> /\ (\A k \in DOMAIN arguments : IsNumber(arguments[k])) =>
                    lines[i].coloured = (Len(arguments) > 3)
              /\ words[1] \in {<<"o">>, <<"g">>, Keywords.u, Keywords.m} =>
                    lines[i].name = Rest(Lines[i])
=============================================================================
