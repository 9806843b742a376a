\* 8-bit numbers in every base and around them; strings of the characters that
\* safestr treats, of "n" and of a byte above 127.  Two clients, three names, two of
\* which the tables take for one, and two passwords; IDs of 8 bits.  Two objects of a
\* SET or an ENUM with two names each; the empty name is none of them.
CONSTANTS
    Word = 256
    Long = 1024
    Chars = {0, 34, 39, 92, 110, 228}
    MaxLen = 4
    Bases = {0, 1, 2, 3, 4, 5, 6, 7, 8, 9, 10, 11, 12, 13, 14, 15, 16, 17}
    Conn = {c1, c2}
    Name <- Names
    Passwort <- Passwords
    Stored <- StoredText
    NoRequest = NoRequest
    Ids <- SomeIds
    Ntohl <- Swap
    FirstByte <- TopByte
    Half = 128
    MaxCmds = 3
    Obj = {o1, o2}
    SetBits <- NameBits
    EnumNumbers <- NameNumbers
    Unknown = {}
    NoName = ""
    Bits = {0, 1}
SYMMETRY Alike
SPECIFICATION DataSpec
INVARIANTS
    LiteralWhole
    StringKept
    NumberKept
    TextRight
    Identity
    RefusedRightly
    ListedByOwner
    SetKept
    EnumKept
    IInv
\* A value's way ends, and so do sessions.
CHECK_DEADLOCK FALSE
