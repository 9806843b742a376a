\* Three connections for two users: two sessions want the same user while the
\* third writes to whoever is listed.
CONSTANTS
    Conn = {c1, c2, c3}
    User = {u1, u2}
    NoConn = NoConn
    NoUser = NoUser
    Parts <- ShortFrames
    MaxCmds = 1
    MaxRows = 0
SYMMETRY Symmetry
SPECIFICATION Spec
INVARIANTS
    TypeOK
    RefCountExact
    NoUseAfterFree
    ListedSessions
    RelayReachesUser
PROPERTY Messages
