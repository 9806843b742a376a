\* Two connections, contact lists of one row, no commands: fairness and no symmetry.
CONSTANTS
    Conn = {c1, c2}
    User = {u1, u2}
    NoConn = NoConn
    NoUser = NoUser
    Parts <- ShortFrames
    MaxCmds = 0
    MaxRows = 1
SPECIFICATION FairSpec
PROPERTIES
    ContactsArrive
