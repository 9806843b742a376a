\* Two connections, no rows, one command: fairness and no symmetry.
CONSTANTS
    Conn = {c1, c2}
    User = {u1, u2}
    NoConn = NoConn
    NoUser = NoUser
    Parts <- ShortFrames
    MaxCmds = 1
    MaxRows = 0
SPECIFICATION FairSpec
PROPERTIES
    ServiceReturns
    SessionEnds
