\* A login and up to two more commands, answers to ADDUSER among them.
CONSTANTS
    Platforms <- AllPlatforms
    Junk = {0}
    Requests <- Logins
    Commands <- SomeCommands
    Frames <- NoFrames
    MaxCmds = 3
    MaxBufferLength = 2
SPECIFICATION Spec
INVARIANT AddsWhoWasAccepted
CHECK_DEADLOCK FALSE
