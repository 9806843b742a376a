\* Blocks of 2 bytes, at most 4 bytes, 4-bit words: first sizes below and above
\* the maximum and one that wraps, writes that fit, fill and overflow.
CONSTANTS
    Byte = {a, b}
    Junk = Junk
    Block = 2
    MaxBytes = 3
    Word = 16
    InitSizes = {0, 3, 6, 15}
    MaxWrite = 5
    Data <- AllData
    Sizes = {0, 1, 3, 5, 15}
SPECIFICATION Spec
INVARIANTS
    TypeOK
    Bounds
    NoJunk
PROPERTIES
    Stream
