\* As MBuffer_stream: two writes are enough.
CONSTANTS
    Byte = {a, b}
    Junk = Junk
    Block = 2
    MaxBytes = 3
    Word = 16
    InitSizes = {0, 3, 6, 15}
    MaxWrite = 5
    Data <- AllData
    Sizes = {0, 1, 3, 5, 15}
SPECIFICATION Spec
INVARIANT WriteReturnsPos
