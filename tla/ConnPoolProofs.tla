--------------------------- MODULE ConnPoolProofs ---------------------------
(***************************************************************************)
(* The pool for any number of sessions, connections and rows: its          *)
(* inductive invariant, and that it implements the leases of module Lease. *)
(***************************************************************************)
EXTENDS ConnPool, TLAPS

LEMMA CurType ==
    ASSUME NEW t \in Thread
    PROVE  Cur(t) \in Query /\ <<t, 1>> \in Query /\ <<t, 2>> \in Query
BY DEF Cur, Query

\* Queries of two threads are different objects.
LEMMA CurOwn ==
    ASSUME NEW t \in Thread, NEW u \in Thread, u # t
    PROVE  Cur(u) # Cur(t) /\ <<u, 2>> # Cur(t)
BY DEF Cur

LEMMA PoolType ==
    ASSUME TypeOK
    PROVE  Pool \subseteq OpenDB
BY DEF TypeOK, Pool

LEMMA FollowType ==
    /\ DOMAIN Follow = {"Auth", "SendContacts", "SignOnStatus", "Act"}
    /\ \A s \in DOMAIN Follow :
          Follow[s] \in {"SendContacts", "SignOnStatus", "Act", "SignOffStatus"}
BY DEF Follow

\* push_back adds one connection.
LEMMA AppendPool ==
    ASSUME NEW s \in Seq(OpenDB), NEW d \in OpenDB
    PROVE  {Append(s, d)[i] : i \in DOMAIN Append(s, d)} = {s[i] : i \in DOMAIN s} \cup {d}
<1>1. /\ DOMAIN s = 1 .. Len(s) /\ Len(s) \in Nat
      /\ DOMAIN Append(s, d) = 1 .. Len(s) + 1
      /\ \A i \in 1 .. Len(s) : Append(s, d)[i] = s[i]
      /\ Append(s, d)[Len(s) + 1] = d
  OBVIOUS
<1>2. 1 .. Len(s) + 1 = (1 .. Len(s)) \cup {Len(s) + 1}
  BY <1>1
<1> QED
  BY <1>1, <1>2

-----------------------------------------------------------------------------
LEMMA InitInv == ASSUME Init PROVE IInv
<1> USE PoolAssumption DEF Init
<1>1. TypeOK
  <2>1. m_opendbs \in Seq(OpenDB)
    OBVIOUS
  <2>2. res \in [Query -> NoRes .. MaxRows]
    BY DEF NoRes
  <2>3. pc \in [Thread -> Labels] /\ scope \in [Thread -> Scopes]
    BY DEF Labels, Asking, Scopes
  <2> QED
    BY <2>1, <2>2, <2>3 DEF TypeOK
<1>2. Pool = {}
  BY DEF Pool
<1>3. \A t \in Thread : Cur(t) \in Query /\ <<t, 2>> \in Query
  BY CurType
<1>4. Scoped
  BY <1>3 DEF Scoped, ScopedAt
<1>5. Grabbing
  BY DEF Grabbing, InGrab
<1>6. Exclusive /\ BusyExact /\ Pooled
  BY DEF Exclusive, BusyExact, Pooled
<1> QED
  BY <1>1, <1>4, <1>5, <1>6 DEF IInv

\* Types, one action at a time.
LEMMA NextType == ASSUME TypeOK, [Next]_vars PROVE TypeOK'
<1> USE PoolAssumption DEF TypeOK, Labels, Asking, Scopes, NoRes,
        threadVars, queryVars, poolVars, dbVars
<1>1. CASE UNCHANGED vars
  BY <1>1 DEF vars
<1>2. CASE DestroyPool
  BY <1>2 DEF DestroyPool
<1>3. ASSUME NEW d \in OpenDB, LinkLost(d), UNCHANGED destroyed PROVE TypeOK'
  BY <1>3 DEF LinkLost
<1>4. ASSUME NEW t \in Thread, UNCHANGED destroyed,
             Start(t) \/ GrabDB(t) \/ Use(t) \/ ActReturns(t) \/ EndQuery(t)
      PROVE  TypeOK'
  <2> USE <1>4
  <2>0. Cur(t) \in Query /\ pc[t] \in Labels /\ scope[t] \in Scopes
    BY CurType
  <2>1. CASE Start(t)
    BY <2>1 DEF Start, Declare
  <2>2. CASE ScanReuses(t)
    <3>1. \A i \in DOMAIN m_opendbs : m_opendbs[i] \in OpenDB
      OBVIOUS
    <3>2. cand' \in [Thread -> OpenDB \cup {NULL}]
      BY <2>2, <3>1 DEF ScanReuses
    <3> QED
      BY <2>2, <3>2 DEF ScanReuses, Goto
  <2>3. CASE ScanFindsNone(t)
    BY <2>3 DEF ScanFindsNone, Goto
  <2>4. CASE Ping(t)
    <3>1. odb' \in [Query -> OpenDB \cup {NULL}]
      BY <2>0, <2>4 DEF Ping
    <3>2. busy' \in [OpenDB -> BOOLEAN] /\ link' \in [OpenDB -> {"none", "up", "lost"}]
      BY <2>4 DEF Ping
    <3>3. pc' \in [Thread -> Labels]
      BY <2>4 DEF Ping, Goto, FirstUse
    <3> QED
      BY <2>4, <3>1, <3>2, <3>3 DEF Ping
  <2>5. CASE Connect(t)
    <3>1. PICK d \in OpenDB \ Pool :
            /\ m_opendbs' = Append(m_opendbs, d)
            /\ busy' = [busy EXCEPT ![d] = TRUE]
            /\ odb' = [odb EXCEPT ![Cur(t)] = d]
            /\ link' = [link EXCEPT ![d] = "up"]
      BY <2>5 DEF Connect
    <3>2. m_opendbs' \in Seq(OpenDB)
      BY <3>1
    <3>3. odb' \in [Query -> OpenDB \cup {NULL}] /\ busy' \in [OpenDB -> BOOLEAN]
          /\ link' \in [OpenDB -> {"none", "up", "lost"}]
      BY <2>0, <3>1
    <3>4. pc' \in [Thread -> Labels]
      BY <2>5 DEF Connect, Goto, FirstUse
    <3> QED
      BY <2>5, <3>2, <3>3, <3>4 DEF Connect
  <2>6. CASE ConnectFails(t)
    BY <2>6 DEF ConnectFails, Goto, FirstUse
  <2>7. CASE NameFound(t) \/ NameNotFound(t) \/ CheckPasswort(t)
    BY <2>7 DEF NameFound, NameNotFound, CheckPasswort, Goto, Reply
  <2>8. CASE InsertUser(t) \/ InsertFails(t) \/ NewID(t)
    BY <2>8 DEF InsertUser, InsertFails, NewID, Goto, Reply
  <2>9. CASE GetResult(t)
    <3>1. res' \in [Query -> NoRes .. MaxRows]
      BY <2>0, <2>9 DEF GetResult
    <3> QED
      BY <2>9, <3>1 DEF GetResult, Goto
  <2>10. CASE FetchContact(t) \/ FetchName(t)
    <3>1. res' \in [Query -> NoRes .. MaxRows]
      <4>1. res[Cur(t)] > 0 /\ res[Cur(t)] \in NoRes .. MaxRows /\ res' = [res EXCEPT ![Cur(t)] = res[Cur(t)] - 1]
        BY <2>0, <2>10 DEF FetchContact, FetchName, HasRow, TakeRow
      <4> QED
        BY <2>0, <4>1
    <3> QED
      BY <2>10, <3>1 DEF FetchContact, FetchName, Goto
  <2>11. CASE ContactUnknown(t) \/ NoMoreRows(t) \/ FreeResult(t)
    <3>1. res' \in [Query -> NoRes .. MaxRows]
      BY <2>0, <2>11 DEF ContactUnknown, NoMoreRows, FreeResult, FreeRes
    <3> QED
      BY <2>11, <3>1 DEF ContactUnknown, NoMoreRows, FreeResult, Goto
  <2>12. CASE ActReturns(t)
    BY <2>12 DEF ActReturns, Goto
  <2>13. CASE EndQuery(t)
    <3>0. Proceed(t)
      BY <2>13 DEF EndQuery, FreeDB, NothingToFree
    <3>1. pc' \in [Thread -> Labels] /\ scope' \in [Thread -> Scopes]
      <4>1. PICK p \in Labels, s \in Scopes :
              pc' = [pc EXCEPT ![t] = p] /\ scope' = [scope EXCEPT ![t] = s]
        <5>1. CASE scope[t] = "SendContactInformation"
                   /\ scope' = [scope EXCEPT ![t] = "SendContacts"]
                   /\ pc' = [pc EXCEPT ![t] = "fetch"]
          BY <5>1
        <5>2. CASE scope[t] \in DOMAIN Follow
                   /\ scope' = [scope EXCEPT ![t] = Follow[scope[t]]]
                   /\ pc' = [pc EXCEPT ![t] = "grab"]
          <6>1. Follow[scope[t]] \in Scopes
            BY <5>2, FollowType
          <6> QED
            BY <5>2, <6>1
        <5>3. CASE pc' = [pc EXCEPT ![t] = "over"] /\ scope' = scope
          <6>1. scope' = [scope EXCEPT ![t] = scope[t]]
            BY <5>3
          <6> QED
            BY <2>0, <5>3, <6>1
        <5> QED
          BY <3>0, <5>1, <5>2, <5>3 DEF Proceed
      <4> QED
        BY <4>1
    <3>2. res' \in [Query -> NoRes .. MaxRows]
      <4>1. res' = [res EXCEPT ![Cur(t)] = NoRes]
        BY <2>13 DEF EndQuery, FreeDB, NothingToFree, FreeRes
      <4> QED
        BY <2>0, <4>1
    <3>4. odb' \in [Query -> OpenDB \cup {NULL}]
      <4>1. odb' = odb \/ odb' = [odb EXCEPT ![Cur(t)] = NULL]
        BY <2>13 DEF EndQuery, FreeDB, NothingToFree
      <4> QED
        BY <2>0, <4>1
    <3>3. busy' \in [OpenDB -> BOOLEAN]
      BY <2>0, <2>13 DEF EndQuery, FreeDB, NothingToFree
    <3> QED
      BY <2>13, <3>1, <3>2, <3>3, <3>4 DEF EndQuery, FreeDB, NothingToFree
  <2> QED
    BY <2>1, <2>2, <2>3, <2>4, <2>5, <2>6, <2>7, <2>8, <2>9, <2>10, <2>11,
       <2>12, <2>13 DEF GrabDB, Use
<1> QED
  BY <1>1, <1>2, <1>3, <1>4 DEF Next

-----------------------------------------------------------------------------
\* A thread's step concerns its own position and the Query it is at.
LEMMA OthersScoped ==
    ASSUME Scoped, NEW t \in Thread,
           \A u \in Thread \ {t} : pc'[u] = pc[u] /\ scope'[u] = scope[u],
           \A q \in Query \ {Cur(t)} : odb'[q] = odb[q] /\ res'[q] = res[q],
           ScopedAt(t)'
    PROVE  Scoped'
<1>1. SUFFICES ASSUME NEW u \in Thread, u # t
               PROVE  ScopedAt(u)'
  BY DEF Scoped
<1>2. Cur(u)' = Cur(u) /\ pc'[u] = pc[u] /\ scope'[u] = scope[u]
  BY <1>1 DEF Cur
<1>3. odb'[Cur(u)] = odb[Cur(u)] /\ res'[Cur(u)] = res[Cur(u)]
      /\ odb'[<<u, 2>>] = odb[<<u, 2>>] /\ res'[<<u, 2>>] = res[<<u, 2>>]
  BY <1>1, CurType, CurOwn
<1>4. ScopedAt(u)
  BY <1>1 DEF Scoped
<1> QED
  BY <1>2, <1>3, <1>4 DEF ScopedAt

\* The same for a step that leaves the function and its connection alone.
LEMMA StaysScoped ==
    ASSUME TypeOK, Scoped, NEW t \in Thread, NEW p \in Labels,
           pc' = [pc EXCEPT ![t] = p], UNCHANGED <<scope, odb>>,
           \A q \in Query \ {Cur(t)} : res'[q] = res[q],
           p \notin InGrab \cup {"new", "over"},
           p = "grab" => odb[Cur(t)] = NULL,
           p \notin {"fetch", "done"} => res'[Cur(t)] = NoRes
    PROVE  Scoped'
<1>1. Cur(t)' = Cur(t) /\ pc'[t] = p /\ scope'[t] = scope[t]
  BY DEF TypeOK, Cur
<1>2. scope[t] # "SendContactInformation" =>
          <<t, 2>> \in Query \ {Cur(t)} /\ odb[<<t, 2>>] = NULL /\ res[<<t, 2>>] = NoRes
  BY CurType DEF Scoped, ScopedAt, Cur
<1>3. ScopedAt(t)'
  BY <1>1, <1>2 DEF ScopedAt, InGrab
<1>4. \A u \in Thread \ {t} : pc'[u] = pc[u] /\ scope'[u] = scope[u]
  BY DEF TypeOK
<1> QED
  BY <1>3, <1>4, OthersScoped

LEMMA NextScoped ==
    ASSUME TypeOK, Scoped, NEW t \in Thread,
           Start(t) \/ GrabDB(t) \/ Use(t) \/ ActReturns(t) \/ EndQuery(t)
    PROVE  Scoped'
<1> USE DEF Goto
<1>t. /\ Cur(t) \in Query /\ <<t, 1>> \in Query /\ <<t, 2>> \in Query
      /\ ScopedAt(t) /\ pc[t] \in Labels /\ scope[t] \in Scopes
      /\ odb \in [Query -> OpenDB \cup {NULL}] /\ res \in [Query -> NoRes .. MaxRows]
      /\ pc \in [Thread -> Labels] /\ scope \in [Thread -> Scopes]
  BY CurType DEF TypeOK, Scoped
<1>1. CASE Start(t)
  <2>1. pc' = [pc EXCEPT ![t] = "grab"] /\ scope' = scope
    BY <1>1, <1>t DEF Start, Declare, ScopedAt
  <2> QED
    BY <1>1, <1>t, <2>1, StaysScoped DEF Start, Declare, ScopedAt, Labels, InGrab,
       queryVars
<1>2. CASE ScanReuses(t) \/ ScanFindsNone(t) \/ Ping(t) \/ Connect(t) \/ ConnectFails(t)
  <2>1. /\ UNCHANGED <<scope, res>>
        /\ \A u \in Thread \ {t} : pc'[u] = pc[u]
        /\ \A q \in Query \ {Cur(t)} : odb'[q] = odb[q]
        /\ pc[t] \in {"grab", "ping", "connect"}
    BY <1>2, <1>t DEF ScanReuses, ScanFindsNone, Ping, Connect, ConnectFails, queryVars
  <2>2. \/ pc'[t] \in InGrab /\ UNCHANGED odb
        \/ pc'[t] \in {"name", "ask"}
    BY <1>2, <1>t DEF ScanReuses, ScanFindsNone, Ping, Connect, ConnectFails, queryVars,
       InGrab, FirstUse
  <2>3. Cur(t)' = Cur(t)
    BY <2>1 DEF Cur
  <2>4. scope[t] # "SendContactInformation" => odb'[<<t, 2>>] = odb[<<t, 2>>]
    BY <1>t, <2>1 DEF Cur
  <2>5. ScopedAt(t)'
    BY <1>t, <2>1, <2>2, <2>3, <2>4 DEF ScopedAt, InGrab
  <2> QED
    BY <2>1, <2>5, OthersScoped
<1>3. CASE NameFound(t) \/ NameNotFound(t) \/ CheckPasswort(t) \/ InsertUser(t)
           \/ InsertFails(t) \/ NewID(t)
  <2>1. PICK p \in {"passwort", "free", "newid"} : pc' = [pc EXCEPT ![t] = p]
    BY <1>3 DEF NameFound, NameNotFound, CheckPasswort, InsertUser, InsertFails, NewID
  <2>2. UNCHANGED <<scope, odb, res>> /\ pc[t] \in {"name", "passwort", "newid"}
    BY <1>3 DEF NameFound, NameNotFound, CheckPasswort, InsertUser, InsertFails, NewID,
       queryVars
  <2>3. res[Cur(t)] = NoRes
    BY <1>t, <2>2 DEF ScopedAt
  <2> QED
    BY <2>1, <2>2, <2>3, StaysScoped DEF Labels, Asking, InGrab
<1>4. CASE GetResult(t)
  <2>1. \A q \in Query \ {Cur(t)} : res'[q] = res[q]
    BY <1>4, <1>t DEF GetResult
  <2> QED
    BY <1>4, <2>1, StaysScoped DEF GetResult, Labels, InGrab
<1>5. CASE FetchContact(t) /\ scope' = scope
  <2>1. \A q \in Query \ {Cur(t)} : res'[q] = res[q]
    BY <1>5, <1>t DEF FetchContact, TakeRow
  <2>2. scope[t] = "SendContacts"
    BY <1>5 DEF FetchContact
  <2>3. pc' = pc
    BY <1>5, <1>t, <2>2 DEF FetchContact
  <2>4. pc' = [pc EXCEPT ![t] = "fetch"]
    BY <1>5, <1>t, <2>3 DEF FetchContact
  <2> QED
    BY <1>5, <2>1, <2>4, StaysScoped DEF FetchContact, Labels, InGrab
<1>6. CASE FetchContact(t) /\ pc' = [pc EXCEPT ![t] = "grab"]
           /\ scope' = [scope EXCEPT ![t] = "SendContactInformation"]
  <2>1. Cur(t) = <<t, 1>> /\ Cur(t)' = <<t, 2>> /\ scope[t] = "SendContacts"
    BY <1>6, <1>t DEF Cur, FetchContact
  <2>2. \A q \in Query \ {Cur(t)} : odb'[q] = odb[q] /\ res'[q] = res[q]
    BY <1>6, <1>t DEF FetchContact, TakeRow
  <2>3. odb'[<<t, 2>>] = NULL /\ res'[<<t, 2>>] = NoRes
    BY <1>t, <2>1, <2>2 DEF ScopedAt
  <2>4. ScopedAt(t)'
    BY <1>6, <1>t, <2>1, <2>3 DEF ScopedAt
  <2> QED
    BY <1>6, <1>t, <2>2, <2>4, OthersScoped
<1>7. CASE FetchName(t) \/ NoMoreRows(t)
  <2>1. /\ \A q \in Query \ {Cur(t)} : res'[q] = res[q]
        /\ pc' = [pc EXCEPT ![t] = "done"] /\ UNCHANGED <<scope, odb>>
    BY <1>7, <1>t DEF FetchName, NoMoreRows, TakeRow, queryVars
  <2> QED
    BY <2>1, StaysScoped DEF Labels, InGrab
<1>8. CASE ContactUnknown(t) \/ FreeResult(t)
  <2>1. /\ \A q \in Query \ {Cur(t)} : res'[q] = res[q]
        /\ res'[Cur(t)] = NoRes
        /\ pc' = [pc EXCEPT ![t] = "free"] /\ UNCHANGED <<scope, odb>>
    BY <1>8, <1>t DEF ContactUnknown, FreeResult, FreeRes
  <2> QED
    BY <2>1, StaysScoped DEF Labels, InGrab
<1>9. CASE ActReturns(t)
  <2>1. res[Cur(t)] = NoRes
    BY <1>9, <1>t DEF ActReturns, ScopedAt
  <2> QED
    BY <1>9, <2>1, StaysScoped DEF ActReturns, Labels, InGrab, queryVars
<1>10. CASE EndQuery(t)
  <2>1. /\ \A q \in Query \ {Cur(t)} : odb'[q] = odb[q] /\ res'[q] = res[q]
        /\ odb'[Cur(t)] = NULL /\ res'[Cur(t)] = NoRes
    <3>1. res' = [res EXCEPT ![Cur(t)] = NoRes]
      BY <1>10 DEF EndQuery, FreeDB, NothingToFree, FreeRes
    <3>2. \/ odb' = [odb EXCEPT ![Cur(t)] = NULL]
          \/ odb[Cur(t)] = NULL /\ odb' = odb
      BY <1>10 DEF EndQuery, FreeDB, NothingToFree
    <3> QED
      BY <1>t, <3>1, <3>2
  <2>2. odb'[<<t, 2>>] = NULL /\ res'[<<t, 2>>] = NoRes
    BY <1>t, <2>1 DEF ScopedAt, Cur
  <2>3. CASE scope[t] = "SendContactInformation"
             /\ scope' = [scope EXCEPT ![t] = "SendContacts"]
             /\ pc' = [pc EXCEPT ![t] = "fetch"]
    <3>1. ScopedAt(t)'
      BY <1>t, <2>2, <2>3 DEF ScopedAt, InGrab
    <3> QED
      BY <1>t, <2>1, <2>3, <3>1, OthersScoped
  <2>4. CASE scope[t] \in DOMAIN Follow
             /\ scope' = [scope EXCEPT ![t] = Follow[scope[t]]]
             /\ pc' = [pc EXCEPT ![t] = "grab"]
    <3>1. Cur(t) = <<t, 1>> /\ Cur(t)' = <<t, 1>>
      BY <1>t, <2>4, FollowType DEF Cur
    <3>2. ScopedAt(t)'
      BY <1>t, <2>1, <2>2, <2>4, <3>1 DEF ScopedAt
    <3> QED
      BY <1>t, <2>1, <2>4, <3>2, OthersScoped
  <2>5. CASE scope[t] \in {"Auth", "SignOffStatus"}
             /\ pc' = [pc EXCEPT ![t] = "over"] /\ scope' = scope
    <3>1. Cur(t)' = Cur(t)
      BY <2>5 DEF Cur
    <3>2. ScopedAt(t)'
      BY <1>t, <2>1, <2>2, <2>5, <3>1 DEF ScopedAt
    <3> QED
      BY <1>t, <2>1, <2>5, <3>2, OthersScoped
  <2> QED
    BY <1>10, <2>3, <2>4, <2>5 DEF EndQuery, FreeDB, NothingToFree, Proceed
<1>11. FetchContact(t) => \/ scope' = scope
                          \/ /\ pc' = [pc EXCEPT ![t] = "grab"]
                             /\ scope' = [scope EXCEPT ![t] = "SendContactInformation"]
  BY DEF FetchContact
<1> QED
  BY <1>1, <1>2, <1>3, <1>4, <1>5, <1>6, <1>7, <1>8, <1>9, <1>10, <1>11 DEF GrabDB, Use

-----------------------------------------------------------------------------
\* Calls of a Query leave the pool and every odb alone, outside grabdb.
LEMMA CallsLeavePool ==
    ASSUME TypeOK, NEW t \in Thread,
           Start(t) \/ Use(t) \/ ActReturns(t) \/ NothingToFree(t)
    PROVE  /\ UNCHANGED <<cand, odb, poolVars>>
           /\ pc[t] \notin InGrab /\ pc'[t] \notin InGrab
           /\ \A u \in Thread \ {t} : pc'[u] = pc[u]
<1> USE DEF TypeOK, InGrab, Goto, queryVars
<1>1. CASE Start(t)
  BY <1>1 DEF Start, Declare
<1>2. CASE NameFound(t) \/ NameNotFound(t) \/ CheckPasswort(t) \/ InsertUser(t)
           \/ InsertFails(t) \/ NewID(t) \/ GetResult(t) \/ FetchName(t)
           \/ ContactUnknown(t) \/ NoMoreRows(t) \/ FreeResult(t) \/ ActReturns(t)
  BY <1>2 DEF NameFound, NameNotFound, CheckPasswort, InsertUser, InsertFails, NewID,
     GetResult, FetchName, ContactUnknown, NoMoreRows, FreeResult, ActReturns
<1>3. CASE FetchContact(t)
  BY <1>3 DEF FetchContact
<1>4. CASE NothingToFree(t)
  BY <1>4 DEF NothingToFree, Proceed
<1> QED
  BY <1>1, <1>2, <1>3, <1>4 DEF Use

\* What the pool's part of the invariant says, for a step that keeps the pool.
PoolInv == Grabbing /\ Pooled /\ BusyExact

LEMMA PoolKept ==
    ASSUME TypeOK, PoolInv, NEW t \in Thread, UNCHANGED <<cand, odb, poolVars, destroyed>>,
           pc[t] \notin InGrab, pc'[t] \notin InGrab,
           \A u \in Thread \ {t} : pc'[u] = pc[u]
    PROVE  PoolInv'
<1>1. Pool' = Pool
  BY DEF Pool, poolVars
<1>2. Grabbing'
  BY <1>1 DEF PoolInv, Grabbing, InGrab, poolVars
<1> QED
  BY <1>1, <1>2 DEF PoolInv, Pooled, BusyExact, poolVars

LEMMA NextPool ==
    ASSUME TypeOK, TypeOK', Exclusive, Scoped, PoolInv, ~destroyed, UNCHANGED destroyed,
           NEW t \in Thread,
           Start(t) \/ GrabDB(t) \/ Use(t) \/ ActReturns(t) \/ EndQuery(t)
    PROVE  Exclusive' /\ PoolInv'
<1>t. /\ Cur(t) \in Query /\ pc[t] \in Labels /\ Pool \subseteq OpenDB
      /\ odb \in [Query -> OpenDB \cup {NULL}] /\ busy \in [OpenDB -> BOOLEAN]
      /\ pc \in [Thread -> Labels] /\ cand \in [Thread -> OpenDB \cup {NULL}]
      /\ m_opendbs \in Seq(OpenDB) /\ mutex \in Thread \cup {NULL}
      /\ NULL \notin Thread \cup OpenDB
  BY CurType, PoolType, PoolAssumption DEF TypeOK
<1>1. CASE Start(t) \/ Use(t) \/ ActReturns(t) \/ NothingToFree(t)
  BY <1>1, CallsLeavePool, PoolKept DEF Exclusive
<1>2. CASE ScanReuses(t)
  <2>1. PICK i \in DOMAIN m_opendbs :
          ~busy[m_opendbs[i]] /\ cand' = [cand EXCEPT ![t] = m_opendbs[i]]
    BY <1>2 DEF ScanReuses
  <2>2. UNCHANGED <<odb, m_opendbs, busy>> /\ mutex = NULL /\ mutex' = t
        /\ pc' = [pc EXCEPT ![t] = "ping"]
    BY <1>2 DEF ScanReuses, Goto, queryVars
  <2>3. Pool' = Pool
    BY <2>2 DEF Pool
  <2>4. m_opendbs[i] \in Pool /\ m_opendbs[i] \in OpenDB
    BY <1>t, <2>1 DEF Pool
  <2>5. Grabbing'
    BY <1>t, <2>1, <2>2, <2>3, <2>4 DEF PoolInv, Grabbing, InGrab
  <2> QED
    BY <2>2, <2>3, <2>5 DEF PoolInv, Pooled, BusyExact, Exclusive
<1>3. CASE ScanFindsNone(t)
  <2>1. UNCHANGED <<odb, cand, m_opendbs, busy>> /\ mutex = NULL /\ mutex' = t
        /\ pc' = [pc EXCEPT ![t] = "connect"]
        /\ \A d \in Pool : busy[d]
    BY <1>3 DEF ScanFindsNone, Goto, queryVars, Pool
  <2>2. Pool' = Pool
    BY <2>1 DEF Pool
  <2>3. Grabbing'
    BY <1>t, <2>1, <2>2 DEF PoolInv, Grabbing, InGrab
  <2> QED
    BY <2>1, <2>2, <2>3 DEF PoolInv, Pooled, BusyExact, Exclusive
<1>4. ASSUME pc[t] \in InGrab
      PROVE  /\ mutex = t
             /\ \A u \in Thread \ {t} : pc[u] \notin InGrab
             /\ odb[Cur(t)] = NULL
  BY <1>4 DEF PoolInv, Grabbing, Scoped, ScopedAt
<1>5. CASE Ping(t)
  <2> DEFINE d == cand[t]
  <2>1. d \in Pool /\ d \in OpenDB /\ ~busy[d] /\ pc[t] \in InGrab
    BY <1>t, <1>5 DEF PoolInv, Grabbing, Ping, Goto, InGrab
  <2>2. /\ busy' = [busy EXCEPT ![d] = TRUE] /\ odb' = [odb EXCEPT ![Cur(t)] = d]
        /\ m_opendbs' = m_opendbs /\ mutex' = NULL
        /\ pc'[t] \notin InGrab /\ \A u \in Thread \ {t} : pc'[u] = pc[u]
    BY <1>t, <1>5 DEF Ping, Goto, InGrab, FirstUse
  <2>3. Pool' = Pool
    BY <2>2 DEF Pool
  <2>4. \A q \in Query : odb[q] # d
    BY <2>1 DEF PoolInv, BusyExact
  <2>5. Exclusive'
    BY <1>t, <2>2, <2>4 DEF Exclusive
  <2>6. Grabbing'
    BY <1>t, <1>4, <2>1, <2>2 DEF Grabbing, InGrab
  <2>7. Pooled'
    BY <1>t, <2>1, <2>2, <2>3 DEF PoolInv, Pooled
  <2>8. BusyExact'
    BY <1>t, <1>4, <2>1, <2>2 DEF PoolInv, BusyExact
  <2> QED
    BY <2>5, <2>6, <2>7, <2>8 DEF PoolInv
<1>6. CASE Connect(t)
  <2>1. PICK d \in OpenDB \ Pool :
          /\ m_opendbs' = Append(m_opendbs, d)
          /\ busy' = [busy EXCEPT ![d] = TRUE]
          /\ odb' = [odb EXCEPT ![Cur(t)] = d]
    BY <1>6 DEF Connect
  <2>2. /\ mutex' = NULL /\ pc[t] \in InGrab /\ pc'[t] \notin InGrab
        /\ \A u \in Thread \ {t} : pc'[u] = pc[u]
    BY <1>t, <1>6 DEF Connect, Goto, InGrab, FirstUse
  <2>3. Pool' = Pool \cup {d}
    <3>1. Pool' = {Append(m_opendbs, d)[i] : i \in DOMAIN Append(m_opendbs, d)}
      BY <2>1 DEF Pool
    <3> QED
      BY <1>t, <3>1, AppendPool DEF Pool
  <2>4. \A q \in Query : odb[q] # d
    BY <1>t, <2>1 DEF PoolInv, Pooled
  <2>5. Exclusive'
    BY <1>t, <2>1, <2>4 DEF Exclusive
  <2>6. Grabbing'
    BY <1>t, <1>4, <2>2 DEF Grabbing, InGrab
  <2>7. Pooled'
    BY <1>t, <2>1, <2>3 DEF PoolInv, Pooled
  <2>8. BusyExact'
    BY <1>t, <1>4, <2>1, <2>2 DEF PoolInv, BusyExact
  <2> QED
    BY <2>5, <2>6, <2>7, <2>8 DEF PoolInv
<1>7. CASE ConnectFails(t)
  <2>1. /\ UNCHANGED <<odb, cand, m_opendbs, busy>> /\ mutex' = NULL
        /\ pc[t] \in InGrab /\ pc'[t] \notin InGrab
        /\ \A u \in Thread \ {t} : pc'[u] = pc[u]
    BY <1>t, <1>7 DEF ConnectFails, Goto, InGrab, FirstUse, queryVars
  <2>2. Pool' = Pool
    BY <2>1 DEF Pool
  <2>3. Grabbing'
    BY <1>t, <1>4, <2>1 DEF Grabbing, InGrab
  <2> QED
    BY <2>1, <2>2, <2>3 DEF PoolInv, Pooled, BusyExact, Exclusive
<1>8. CASE FreeDB(t)
  <2> DEFINE d == odb[Cur(t)]
  <2>1. /\ d \in OpenDB /\ mutex = NULL
        /\ busy' = [busy EXCEPT ![d] = FALSE] /\ odb' = [odb EXCEPT ![Cur(t)] = NULL]
        /\ UNCHANGED <<cand, m_opendbs, mutex>>
    BY <1>t, <1>8 DEF FreeDB
  <2>2. pc[t] \notin InGrab /\ pc'[t] \notin InGrab
        /\ \A u \in Thread \ {t} : pc'[u] = pc[u]
    BY <1>t, <1>8 DEF FreeDB, Proceed, InGrab
  <2>3. \A q \in Query \ {Cur(t)} : odb[q] # d
    BY <1>t, <2>1 DEF Exclusive
  <2>4. Pool' = Pool
    BY <2>1 DEF Pool
  <2>5. Exclusive' /\ Pooled'
    BY <1>t, <2>1, <2>4 DEF Exclusive, PoolInv, Pooled
  <2>6. Grabbing'
    BY <1>t, <2>1, <2>2 DEF PoolInv, Grabbing, InGrab
  <2>7. BusyExact'
    BY <1>t, <2>1, <2>3 DEF PoolInv, BusyExact
  <2> QED
    BY <2>5, <2>6, <2>7 DEF PoolInv
<1> QED
  BY <1>1, <1>2, <1>3, <1>5, <1>6, <1>7, <1>8 DEF GrabDB, EndQuery

LEMMA NextInv == ASSUME IInv, [Next]_vars PROVE IInv'
<1>1. TypeOK /\ TypeOK'
  BY NextType DEF IInv
<1>2. CASE UNCHANGED vars
  BY <1>1, <1>2 DEF IInv, vars, threadVars, queryVars, poolVars, dbVars, Exclusive, Scoped,
     ScopedAt, Cur, BusyExact, Grabbing, Pooled, Pool
<1>3. CASE ~destroyed /\ DestroyPool
  BY <1>1, <1>3 DEF IInv, DestroyPool, threadVars, queryVars, Exclusive, Scoped, ScopedAt,
     Cur, BusyExact
<1>4. ASSUME ~destroyed, NEW d \in OpenDB, LinkLost(d), UNCHANGED destroyed
      PROVE  IInv'
  BY <1>1, <1>4 DEF IInv, LinkLost, threadVars, queryVars, poolVars, Exclusive, Scoped,
     ScopedAt, Cur, BusyExact, Grabbing, Pooled, Pool
<1>5. ASSUME ~destroyed, UNCHANGED destroyed, NEW t \in Thread,
             Start(t) \/ GrabDB(t) \/ Use(t) \/ ActReturns(t) \/ EndQuery(t)
      PROVE  IInv'
  BY <1>1, <1>5, NextScoped, NextPool DEF IInv, PoolInv
<1> QED
  BY <1>2, <1>3, <1>4, <1>5 DEF Next

-----------------------------------------------------------------------------
\* The pool's data structure and its users stay consistent for ever.
THEOREM Invariance == Spec => []IInv
<1>1. Init => IInv
  BY InitInv
<1>2. IInv /\ [Next]_vars => IInv'
  BY NextInv
<1> QED
  BY <1>1, <1>2, PTL DEF Spec

\* Every variable keeps its type (Database.h, Query.h).
THEOREM PoolTypes == Spec => []TypeOK
<1>1. IInv => TypeOK
  BY DEF IInv
<1> QED
  BY <1>1, Invariance, PTL

\* Each Query has a database connection of its own (Database.h:102), for any
\* number of sessions.
THEOREM UniqueConnection == Spec => []Exclusive
<1>1. IInv => Exclusive
  BY DEF IInv
<1> QED
  BY <1>1, Invariance, PTL

\* OPENDB::busy says whether a Query has the connection.
THEOREM BusyMeansTaken == Spec => []BusyExact
<1>1. IInv => BusyExact
  BY DEF IInv
<1> QED
  BY <1>1, Invariance, PTL

\* No Query is given SQL, or destroyed, with a result it has not freed.
THEOREM NoResultLeft == Spec => []ResultsFreed
<1>1. IInv => ResultsFreed
  BY DEF IInv, Scoped, ScopedAt, ResultsFreed, Asking
<1> QED
  BY <1>1, Invariance, PTL

\* The step of a Query that gets or gives back a connection is a step of the
\* leases; every other is none.
LEMMA StepLeases ==
    ASSUME IInv, IInv', [Next]_vars
    PROVE  [L!Next]_(L!vars)
<1> USE DEF L!vars
<1>0. \A q \in Query : ~destroyed /\ odb[q] # NULL => odb[q] \in Pool /\ busy[odb[q]]
  BY PoolAssumption DEF IInv, TypeOK, Pooled, BusyExact
<1>1. CASE UNCHANGED vars
  BY <1>1 DEF vars, queryVars, poolVars, Pool
<1>2. CASE ~destroyed /\ DestroyPool
  <2>1. Pool' = {}
    BY <1>2 DEF DestroyPool, Pool
  <2> QED
    BY <1>2, <2>1 DEF DestroyPool, queryVars, L!Next, L!Close
<1>3. ASSUME NEW d \in OpenDB, LinkLost(d) PROVE [L!Next]_(L!vars)
  BY <1>3 DEF LinkLost, queryVars, poolVars, Pool
<1>4. ASSUME ~destroyed, NEW t \in Thread,
             Start(t) \/ GrabDB(t) \/ Use(t) \/ ActReturns(t) \/ EndQuery(t)
      PROVE  [L!Next]_(L!vars)
  <2>t. Cur(t) \in Query /\ odb \in [Query -> OpenDB \cup {NULL}] /\ ScopedAt(t)
        /\ TypeOK /\ Grabbing /\ BusyExact /\ m_opendbs \in Seq(OpenDB)
    BY <1>4, CurType DEF IInv, TypeOK, Scoped
  <2>1. CASE Start(t) \/ Use(t) \/ ActReturns(t) \/ NothingToFree(t)
    BY <2>1, <2>t, CallsLeavePool DEF poolVars, Pool
  <2>2. CASE ScanReuses(t) \/ ScanFindsNone(t) \/ ConnectFails(t)
    BY <2>2 DEF ScanReuses, ScanFindsNone, ConnectFails, queryVars, Pool
  <2>3. CASE Ping(t)
    <3>1. cand[t] \in Pool /\ ~busy[cand[t]]
      BY <2>3, <2>t DEF Grabbing, Ping, Goto
    <3>2. cand[t] \in L!Free
      BY <1>4, <2>t, <3>1, PoolType DEF L!Free, BusyExact
    <3>3. odb[Cur(t)] = NULL
      BY <2>3, <2>t DEF Ping, Goto, ScopedAt, InGrab
    <3>4. odb' = [odb EXCEPT ![Cur(t)] = cand[t]] /\ Pool' = Pool
      BY <2>3 DEF Ping, Pool
    <3>5. L!Reuse(Cur(t))
      BY <3>2, <3>3, <3>4 DEF L!Reuse
    <3> QED
      BY <2>t, <3>5 DEF L!Next
  <2>4. CASE Connect(t)
    <3>1. PICK d \in OpenDB \ Pool :
            m_opendbs' = Append(m_opendbs, d) /\ odb' = [odb EXCEPT ![Cur(t)] = d]
      BY <2>4 DEF Connect
    <3>2. Pool' = Pool \cup {d}
      <4>1. Pool' = {Append(m_opendbs, d)[i] : i \in DOMAIN Append(m_opendbs, d)}
        BY <3>1 DEF Pool
      <4> QED
        BY <2>t, <4>1, AppendPool DEF Pool
    <3>3. L!Free = {}
      <4>1. \A e \in Pool : e \in OpenDB /\ busy[e]
        BY <2>4, <2>t, PoolType DEF Grabbing, Connect, Goto
      <4> QED
        BY <1>4, <2>t, <4>1 DEF L!Free, BusyExact
    <3>4. odb[Cur(t)] = NULL
      BY <2>4, <2>t DEF Connect, Goto, ScopedAt, InGrab
    <3>5. L!Open(Cur(t))
      BY <3>1, <3>2, <3>3, <3>4 DEF L!Open
    <3> QED
      BY <2>t, <3>5 DEF L!Next
  <2>5. CASE FreeDB(t)
    <3>1. L!Return(Cur(t))
      BY <2>5 DEF FreeDB, L!Return, Pool
    <3> QED
      BY <2>t, <3>1 DEF L!Next
  <2> QED
    BY <1>4, <2>1, <2>2, <2>3, <2>4, <2>5 DEF GrabDB, EndQuery
<1> QED
  BY <1>1, <1>2, <1>3, <1>4 DEF Next

\* grabdb, freedb and ~Query together implement the leases of connections.
THEOREM Implements == Spec => Leases
<1>1. Init => L!Init
  BY DEF Init, L!Init, Pool
<1>2. IInv /\ IInv' /\ [Next]_vars => [L!Next]_(L!vars)
  BY StepLeases
<1> QED
  BY <1>1, <1>2, Invariance, PTL DEF Spec, Leases, L!Spec
=============================================================================
