CONSTANTS
    Conn = {c1, c2}
    User = {u1}
    NoConn = NoConn
    NoUser = NoUser
    Parts <- Elements
    MaxCmds = 1
    MaxRows = 0
SPECIFICATION Spec
INVARIANT SocketClosed
