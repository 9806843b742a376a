-------------------------------- MODULE Lease --------------------------------
(***************************************************************************)
(* What the connection pool promises to its users: a Query has a database  *)
(* connection of its own while it exists, connections stay open and are    *)
(* used again, and one more is opened only when all are taken.  There are  *)
(* no list, no busy flags and no mutex here: which connections are free    *)
(* follows from which are leased.                                          *)
(***************************************************************************)
CONSTANTS Query,    \* possible Query objects
          OpenDB,   \* connections the database server accepts
          NULL      \* no connection

VARIABLES open,     \* connections the pool has opened
          lease     \* the connection of each Query, or NULL

vars == <<open, lease>>

Free == {d \in open : \A q \in Query : lease[q] # d}

Init == /\ open = {}
        /\ lease = [q \in Query |-> NULL]

\* A Query gets a connection that is open and nobody else's.
Reuse(q) ==
    /\ lease[q] = NULL
    /\ \E d \in Free : lease' = [lease EXCEPT ![q] = d]
    /\ UNCHANGED open

\* All are taken: a Query gets a new one.
Open(q) ==
    /\ lease[q] = NULL
    /\ Free = {}
    /\ \E d \in OpenDB \ open :
         /\ open' = open \cup {d}
         /\ lease' = [lease EXCEPT ![q] = d]

\* A Query ends and its connection stays open.
Return(q) ==
    /\ lease[q] # NULL
    /\ lease' = [lease EXCEPT ![q] = NULL]
    /\ UNCHANGED open

\* The pool is destroyed.
Close == /\ open' = {}
         /\ UNCHANGED lease

Next == \/ \E q \in Query : Reuse(q) \/ Open(q) \/ Return(q)
        \/ Close

Spec == Init /\ [][Next]_vars
=============================================================================
