\* One connection for two sessions.
CONSTANTS
    Thread = {t1, t2}
    OpenDB = {d1}
    NULL = NULL
    MaxRows = 0
SPECIFICATION Spec
INVARIANTS
    RefusalIsTrue
\* The process may end: main returns.
CHECK_DEADLOCK FALSE
