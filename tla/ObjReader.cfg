\* All files of up to 5 characters of which lines, faces and corners are made,
\* read with the library's file_read and with one that may return short blocks;
\* and files of up to three lines, most of which run over the seams of the blocks.
SPECIFICATION TextSpec
CONSTANTS
    BufferSize = 10
    NewLine = "newline"
    Letters <- MCLetters
    IntModulus = 32
    FileLetters = {"f", " ", "1", "/"}
    FileLimit = 5
    LineTexts <- MCLineTexts
    LineLimit = 3
INVARIANTS
    WithinBuffer
    InOrder
    CompleteWhenLinesFit
    LettersInOrder
    LinesApart
    AsWritten
PROPERTIES
    Terminates
