\* Two sessions, up to four Query objects, two connections: the pool is reused,
\* grows and hits its limit.
CONSTANTS
    Thread = {t1, t2}
    OpenDB = {d1, d2}
    NULL = NULL
    MaxRows = 1
SPECIFICATION FairSpec
INVARIANTS
    TypeOK
    Exclusive
    BusyExact
    ResultsFreed
    IInv
PROPERTIES
    Leases
    NobodyWaitsForever
\* The process may end: main returns.
CHECK_DEADLOCK FALSE
