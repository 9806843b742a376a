\* All builds, all kinds of commands, two after the login.
CONSTANTS
    Platforms <- AllPlatforms
    Junk = {0, 76}
    Requests <- Logins
    Commands <- AllCommands
    Frames <- AllFrames
    MaxCmds = 3
    MaxBufferLength = 2
SPECIFICATION FairSpec
INVARIANTS
    TypeOK
    InStep
    EndsForCause
PROPERTY Served
\* The connection and the session may end.
CHECK_DEADLOCK FALSE
