\* Two connections that write to each other and to themselves, with the frames
\* as long as they are, contact lists of up to one row and two commands.
CONSTANTS
    Conn = {c1, c2}
    User = {u1, u2}
    NoConn = NoConn
    NoUser = NoUser
    Parts <- Elements
    MaxCmds = 2
    MaxRows = 1
SYMMETRY Symmetry
SPECIFICATION Spec
INVARIANTS
    IInv
    StreamInStep
PROPERTY FrameOrder
