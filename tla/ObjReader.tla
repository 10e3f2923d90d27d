----------------------------- MODULE ObjReader -----------------------------
(***************************************************************************)
(* The loop of fast_obj_read_with_callbacks: the file is read in blocks of  *)
(* BUFFER_SIZE behind the line that the previous block cut off, and handed   *)
(* to parse_buffer up to its last newline.                                  *)
(***************************************************************************)
EXTENDS Integers, Sequences, SequencesExt

CONSTANTS
    BufferSize,   \* BUFFER_SIZE, 65536
    NewLine,      \* '\n'
    Letters       \* the other characters

ASSUME BufferSizeAssumption == BufferSize \in Nat \ {0}
ASSUME CharAssumption == NewLine \notin Letters

VARIABLES
    pc,          \* "read", "parse" or "done"
    shortReads,  \* may the file_read callback return less than it is asked for?
    file,        \* what the file holds
    rest,        \* what file_read has not returned yet
    buffer,      \* buffer .. end; before a read, buffer .. start
    parsed       \* what parse_buffer has been given

vars == <<pc, shortReads, file, rest, buffer, parsed>>

Char == Letters \cup {NewLine}

Start(files) ==
    /\ pc = "read"
    /\ shortReads \in BOOLEAN
    /\ file \in files
    /\ rest = file
    /\ buffer = <<>>
    /\ parsed = <<>>

Init == Start(Seq(Char))

-----------------------------------------------------------------------------

\* Variant: the newline is missing only when something was read.
EnsureNewLineIfRead(block) ==
    IF Len(block) < BufferSize /\ block # <<>> /\ Last(block) # NewLine
    THEN Append(block, NewLine)
    ELSE block

\* "Ensure buffer ends in a newline": a block shorter than asked for is taken
\* for the last one.
EnsureNewLine(block) ==
    IF Len(block) < BufferSize /\ (block = <<>> \/ Last(block) # NewLine)
    THEN Append(block, NewLine)
    ELSE block

\* What the file_read callback may return.
ReadSizes ==
    LET most == IF Len(rest) < BufferSize THEN Len(rest) ELSE BufferSize
    IN  {n \in 0 .. most : n = most \/ shortReads}

\* Variant: the loop goes on where it should end.
ContinueLoop == pc' = "read"
BreakLoop == pc' = "done"

\* Nothing was read and nothing is left over.
Finished(n) == n = 0 /\ buffer = <<>>

ReadFile ==
    /\ pc = "read"
    /\ \E n \in ReadSizes :
         IF Finished(n)
         THEN BreakLoop /\ UNCHANGED <<rest, buffer>>
         ELSE /\ buffer' = buffer \o EnsureNewLine(SubSeq(rest, 1, n))
              /\ rest' = SubSeq(rest, n + 1, Len(rest))
              /\ pc' = "parse"
    /\ UNCHANGED <<shortReads, file, parsed>>

\* Variant: the first newline instead of the last.
IsFirstNewLine(k) ==
    /\ buffer[k] = NewLine
    /\ \A j \in 1 .. k - 1 : buffer[j] # NewLine

IsLastNewLine(k) ==
    /\ buffer[k] = NewLine
    /\ \A j \in k + 1 .. Len(buffer) : buffer[j] # NewLine

\* Variants: the newline itself is carried over; the byte behind it is not.
CarryNewLine(k) == SubSeq(buffer, k, Len(buffer))
CarryLess(k) == SubSeq(buffer, k + 2, Len(buffer))

\* The bytes memmove copies to the front of the buffer.
Carry(k) == SubSeq(buffer, k + 1, Len(buffer))

ParseBuffer ==
    /\ pc = "parse"
    /\ \E k \in DOMAIN buffer :
         /\ IsLastNewLine(k)
         /\ parsed' = parsed \o SubSeq(buffer, 1, k)
         /\ buffer' = Carry(k)
    /\ pc' = "read"
    /\ UNCHANGED <<shortReads, file, rest>>

\* "Check there actually is a new line": the loop ends in the middle of the
\* file and what was parsed so far becomes the mesh.
LineTooLong ==
    /\ pc = "parse"
    /\ \A k \in DOMAIN buffer : buffer[k] # NewLine
    /\ BreakLoop
    /\ UNCHANGED <<shortReads, file, rest, buffer, parsed>>

Done == pc = "done" /\ UNCHANGED vars

Next == ReadFile \/ ParseBuffer \/ LineTooLong \/ Done

Spec == Init /\ [][Next]_vars
FairSpec == Spec /\ WF_vars(ReadFile \/ ParseBuffer \/ LineTooLong)

-----------------------------------------------------------------------------

TypeOK ==
    /\ pc \in {"read", "parse", "done"}
    /\ shortReads \in BOOLEAN
    /\ file \in Seq(Char)
    /\ rest \in Seq(Char)
    /\ buffer \in Seq(Char)
    /\ parsed \in Seq(Char)

\* What a read writes behind the carried bytes stays in the 2 * BUFFER_SIZE
\* bytes of the buffer, the appended newline included: a carried line is
\* always shorter than a block.
WithinBuffer ==
    /\ pc = "read" => Len(buffer) < BufferSize
    /\ Len(buffer) < 2 * BufferSize

\* The file as parse_buffer should see it: its last line ended.
Completed(f) == IF f # <<>> /\ Last(f) # NewLine THEN Append(f, NewLine) ELSE f

\* As long as file_read returns short blocks at the end of the file only,
\* no character is lost, repeated or moved over the seam of two blocks.
InOrder == ~shortReads => IsPrefix(parsed, Completed(file))

\* A file whose lines are all shorter than a block is parsed to its end.
LinesFit ==
    \A i \in 1 .. Len(file) - BufferSize + 1 :
        \E j \in i .. i + BufferSize - 1 : file[j] = NewLine
CompleteWhenLinesFit ==
    pc = "done" /\ LinesFit /\ ~shortReads => parsed = Completed(file)

\* Blocks of whatever size only add newlines: the letters come in the order
\* of the file.
OnlyLetters(s) == FlattenSeq([k \in DOMAIN s |-> IF s[k] = NewLine THEN <<>> ELSE <<s[k]>>])
LettersInOrder == IsPrefix(OnlyLetters(parsed), OnlyLetters(file))

\* The loop ends for every file, also when the callback returns no bytes
\* before the end of the file.
Terminates == <>(pc = "done")
=============================================================================
