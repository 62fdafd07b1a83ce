-------------------------- MODULE ConnTableProofs --------------------------
(***************************************************************************)
(* Theorems about the connection table, for every set of connections.      *)
(*                                                                         *)
(* IInv is inductive.  Nothing is claimed of a table that is no longer     *)
(* orderly except the types; while it is orderly, the ids in use are       *)
(* 0 .. n-1, so a new id is free, and every handle in the table belongs to *)
(* the one client that knows its id.                                       *)
(***************************************************************************)
EXTENDS ConnTable, FiniteSetTheorems, TLAPS

OrderlyInv ==
  /\ DenseIDs
  /\ OwnHandle
  /\ TableIsRegistered
  /\ NoSpurious404

IInv == TypeOK /\ OrderlyInv

-----------------------------------------------------------------------------
(***************************************************************************)
(* The update of the table by /clientClose                                 *)
(***************************************************************************)

\* Deleting an entry leaves all the others as they were.
LEMMA WithoutEntryFacts ==
  ASSUME NEW i
  PROVE  /\ DOMAIN WithoutEntry(i) = DOMAIN clientMap \ {i}
         /\ \A j \in DOMAIN clientMap \ {i} : WithoutEntry(i)[j] = clientMap[j]
BY DEF WithoutEntry

-----------------------------------------------------------------------------
(***************************************************************************)
(* Type correctness                                                        *)
(***************************************************************************)

LEMMA InitTypeOK == Init => TypeOK
<1> SUFFICES ASSUME Init PROVE TypeOK
  OBVIOUS
<1>1. DOMAIN clientMap = {}
  BY DEF Init
<1>2. IsFiniteSet(DOMAIN clientMap)
  BY <1>1, FS_EmptySet
<1>3. Handles = {}
  BY <1>1 DEF Handles
<1> QED
  BY <1>1, <1>2, <1>3 DEF Init, TypeOK, Phases

LEMMA NextTypeOK == TypeOK /\ [Next]_vars => TypeOK'
<1> SUFFICES ASSUME TypeOK, [Next]_vars PROVE TypeOK'
  OBVIOUS
<1> USE DEF TypeOK, Phases, Handles
<1>1. ASSUME NEW c \in Conns, AllocateID(c) PROVE TypeOK'
  <2>1. Cardinality(DOMAIN clientMap) \in Nat
    BY FS_CardinalityType
  <2> QED
    BY <1>1, <2>1 DEF AllocateID
<1>2. ASSUME NEW c \in Conns, BeginStore(c) PROVE TypeOK'
  BY <1>2 DEF BeginStore
<1>3. ASSUME NEW c \in Conns, EndStore(c) PROVE TypeOK'
  <2>1. CASE clientMap' = clientMap
    BY <1>3, <2>1 DEF EndStore
  <2>2. CASE clientMap' = WithEntry(connectionID[c], c)
    <3> DEFINE m == WithEntry(connectionID[c], c)
    <3>0. /\ DOMAIN m = DOMAIN clientMap \cup {connectionID[c]}
          /\ m[connectionID[c]] = c
          /\ \A j \in DOMAIN clientMap \ {connectionID[c]} : m[j] = clientMap[j]
      BY DEF WithEntry
    <3>1. /\ DOMAIN clientMap' = DOMAIN clientMap \cup {connectionID[c]}
          /\ Handles' \subseteq Handles \cup {c}
      BY <2>2, <3>0
    <3>2. IsFiniteSet(DOMAIN clientMap')
      BY <3>1, FS_AddElement
    <3> QED
      BY <1>3, <3>1, <3>2 DEF EndStore
  <2> QED
    BY <1>3, <2>1, <2>2 DEF EndStore
<1>4. ASSUME NEW c \in Conns, Resolve(c) PROVE TypeOK'
  BY <1>4 DEF Resolve
<1>5. ASSUME NEW c \in Conns, Serve(c) PROVE TypeOK'
  BY <1>5 DEF Serve
<1>6. ASSUME NEW c \in Conns, CloseConn(c) PROVE TypeOK'
  BY <1>6 DEF CloseConn
<1>7. ASSUME NEW c \in Conns, Remove(c) PROVE TypeOK'
  <2> DEFINE i == connectionID[handle[c]]
  <2>1. CASE clientMap' = clientMap
    BY <1>7, <2>1 DEF Remove, OrderlyAfterRemove
  <2>2. CASE clientMap' = WithoutEntry(i)
    <3>1. /\ DOMAIN clientMap' = DOMAIN clientMap \ {i}
          /\ Handles' \subseteq Handles
      BY <2>2, WithoutEntryFacts
    <3>2. IsFiniteSet(DOMAIN clientMap')
      BY <3>1, FS_RemoveElement
    <3>3. orderly' \in BOOLEAN
      BY <1>7 DEF Remove, OrderlyAfterRemove
    <3> QED
      BY <1>7, <3>1, <3>2, <3>3 DEF Remove
  <2> QED
    BY <1>7, <2>1, <2>2 DEF Remove
<1>8. ASSUME NEW c \in Conns, MapFault(c) PROVE TypeOK'
  BY <1>8 DEF MapFault
<1>9. ASSUME NEW c \in Conns, TransferPanics(c) PROVE TypeOK'
  BY <1>9 DEF TransferPanics
<1>10. CASE UNCHANGED vars
  BY <1>10 DEF vars
<1> QED
  BY <1>1, <1>2, <1>3, <1>4, <1>5, <1>6, <1>7, <1>8, <1>9, <1>10 DEF Next

\* The variables have their types: no handler ever works on a handle that the
\* middleware did not find in the table.
THEOREM TypeCorrect == Spec => []TypeOK
BY InitTypeOK, NextTypeOK, PTL DEF Spec

-----------------------------------------------------------------------------
(***************************************************************************)
(* The inductive invariant                                                 *)
(***************************************************************************)

\* While requests are orderly the table and the ids of the registered
\* connections are inverse to each other.
LEMMA TableInverse ==
  ASSUME IInv, orderly
  PROVE  /\ Cardinality(DOMAIN clientMap) \in Nat
         /\ \A i \in DOMAIN clientMap : /\ clientMap[i] \in Registered
                                        /\ connectionID[clientMap[i]] = i
         /\ \A c \in Registered : /\ connectionID[c] \in DOMAIN clientMap
                                  /\ clientMap[connectionID[c]] = c
<1>1. Cardinality(DOMAIN clientMap) \in Nat
  BY FS_CardinalityType DEF IInv, TypeOK
<1>2. Handles = Registered
  BY DEF IInv, OrderlyInv, TableIsRegistered
<1>3. \A i \in DOMAIN clientMap : connectionID[clientMap[i]] = i
  BY DEF IInv, OrderlyInv, DenseIDs
<1> QED
  BY <1>1, <1>2, <1>3 DEF Handles

LEMMA InitIInv == Init => IInv
<1> SUFFICES ASSUME Init PROVE IInv
  OBVIOUS
<1>1. DOMAIN clientMap = {}
  BY DEF Init
<1>2. Cardinality(DOMAIN clientMap) = 0
  BY <1>1, FS_EmptySet
<1>3. Handles = {} /\ Registered = {} /\ Pending = {}
  BY <1>1 DEF Init, Handles, Registered, Pending
<1>4. TypeOK
  BY InitTypeOK
<1>5. DenseIDs
  BY <1>1, <1>2, <1>3 DEF Init, DenseIDs
<1>6. OwnHandle
  BY <1>3 DEF Init, OwnHandle
<1>7. TableIsRegistered
  BY <1>3 DEF TableIsRegistered
<1>8. NoSpurious404
  BY DEF Init, NoSpurious404
<1> QED
  BY <1>4, <1>5, <1>6, <1>7, <1>8 DEF IInv, OrderlyInv

\* The id taken is free, and no other connection is on its way to it.
LEMMA AllocateOrderly ==
  ASSUME IInv, orderly', NEW c \in Conns, AllocateID(c)
  PROVE  OrderlyInv'
<1>1. orderly /\ Pending = {}
  BY DEF AllocateID
<1>2. /\ pc[c] = "idle" /\ pc' = [pc EXCEPT ![c] = "allocated"]
      /\ clientMap' = clientMap /\ shut' = shut /\ handle' = handle
      /\ refused' = refused
      /\ connectionID' = [connectionID EXCEPT
                            ![c] = Cardinality(DOMAIN clientMap)]
  BY DEF AllocateID
<1>3. pc \in [Conns -> Phases] /\ connectionID \in [Conns -> Nat]
  BY DEF IInv, TypeOK
<1>4. Registered' = Registered /\ c \notin Registered
  BY <1>2, <1>3 DEF Registered
<1>5. Pending' = {c}
  BY <1>1, <1>2, <1>3 DEF Pending
<1>6. Handles' = Handles
  BY <1>2 DEF Handles
<1>7. \A d \in Registered : connectionID'[d] = connectionID[d]
  BY <1>2, <1>3, <1>4 DEF Registered
<1>8. DenseIDs'
  <2>1. \A i \in DOMAIN clientMap : connectionID'[clientMap[i]] = i
    BY <1>1, <1>7, TableInverse
  <2>2. \A h \in shut : pc'[h] \in {"removing", "closed"}
    BY <1>1, <1>2, <1>3 DEF IInv, OrderlyInv, DenseIDs, TypeOK
  <2>3. connectionID'[c] = Cardinality(DOMAIN clientMap)
    BY <1>2, <1>3
  <2>4. DOMAIN clientMap = 0 .. (Cardinality(DOMAIN clientMap) - 1)
    BY <1>1 DEF IInv, OrderlyInv, DenseIDs
  <2> QED
    BY <1>2, <1>5, <2>1, <2>2, <2>3, <2>4 DEF DenseIDs
<1>9. OwnHandle'
  BY <1>1, <1>2, <1>3, <1>4, <1>7 DEF IInv, OrderlyInv, OwnHandle
<1>10. TableIsRegistered'
  BY <1>1, <1>4, <1>6 DEF IInv, OrderlyInv, TableIsRegistered
<1>11. NoSpurious404'
  BY <1>1, <1>2 DEF IInv, OrderlyInv, NoSpurious404
<1> QED
  BY <1>8, <1>9, <1>10, <1>11 DEF OrderlyInv

\* A step that changes neither the table nor which connections are pending and
\* which are registered: what is left to show is that the handlers still work on
\* their own handles and that only closed handles are shut.
LEMMA TableUntouched ==
  ASSUME IInv, orderly,
         clientMap' = clientMap, connectionID' = connectionID,
         Pending' = Pending, Registered' = Registered, refused' = refused,
         \A h \in shut' : pc'[h] \in {"removing", "closed"},
         \A c \in Conns : pc'[c] \in {"resolved", "removing"} => handle'[c] = c
  PROVE  OrderlyInv'
<1>1. DenseIDs'
  BY DEF IInv, OrderlyInv, DenseIDs
<1>2. OwnHandle'
  BY DEF IInv, OrderlyInv, OwnHandle
<1>3. TableIsRegistered'
  BY DEF IInv, OrderlyInv, TableIsRegistered, Handles
<1>4. NoSpurious404'
  BY DEF IInv, OrderlyInv, NoSpurious404
<1> QED
  BY <1>1, <1>2, <1>3, <1>4 DEF OrderlyInv

\* The handle is stored at the free id: the table grows by one at its end.
LEMMA StoreOrderly ==
  ASSUME IInv, orderly', NEW c \in Conns, EndStore(c)
  PROVE  OrderlyInv'
<1> DEFINE n == Cardinality(DOMAIN clientMap)
<1>1. /\ orderly
      /\ pc[c] = "storing" /\ pc' = [pc EXCEPT ![c] = "open"]
      /\ connectionID' = connectionID /\ handle' = handle /\ shut' = shut
      /\ refused' = refused
  BY DEF EndStore
<1>2. pc \in [Conns -> Phases] /\ connectionID \in [Conns -> Nat]
  BY DEF IInv, TypeOK
<1>3. n \in Nat /\ DOMAIN clientMap = 0 .. (n - 1)
  BY <1>1, TableInverse DEF IInv, OrderlyInv, DenseIDs
<1>4. c \in Pending /\ \A d \in Pending : d = c
  BY <1>1 DEF IInv, OrderlyInv, DenseIDs, Pending
<1>5. connectionID[c] = n
  BY <1>1, <1>4 DEF IInv, OrderlyInv, DenseIDs
<1>6. Storing = {c}
  BY <1>1, <1>4 DEF Storing, Pending
<1>7. clientMap' = WithEntry(n, c)
  BY <1>5, <1>6 DEF EndStore
<1>8. /\ DOMAIN clientMap' = 0 .. n
      /\ clientMap'[n] = c
      /\ \A i \in 0 .. (n - 1) : clientMap'[i] = clientMap[i]
  BY <1>3, <1>7 DEF WithEntry
<1>9. Cardinality(DOMAIN clientMap') = n + 1
  BY <1>3, <1>8, FS_Interval
<1>10. Pending' = {}
  BY <1>1, <1>2, <1>4 DEF Pending
<1>11. Registered' = Registered \cup {c} /\ c \notin Registered
  BY <1>1, <1>2 DEF Registered
<1>12. \A d \in Registered : connectionID[d] \in 0 .. (n - 1)
  BY <1>1, <1>3, TableInverse
<1>13. DenseIDs'
  <2>1. \A i \in DOMAIN clientMap' : connectionID'[clientMap'[i]] = i
    BY <1>1, <1>3, <1>5, <1>8, TableInverse
  <2>2. \A h \in shut : pc'[h] \in {"removing", "closed"}
    BY <1>1, <1>2 DEF IInv, OrderlyInv, DenseIDs, TypeOK
  <2>3. DOMAIN clientMap' = 0 .. (Cardinality(DOMAIN clientMap') - 1)
    BY <1>3, <1>8, <1>9
  <2> QED
    BY <1>1, <1>10, <2>1, <2>2, <2>3 DEF DenseIDs
<1>14. OwnHandle'
  <2>1. \A d \in Registered : connectionID[d] # connectionID[c]
    BY <1>3, <1>5, <1>12
  <2>2. \A d, e \in Registered' : d # e => connectionID'[d] # connectionID'[e]
    BY <1>1, <1>11, <2>1 DEF IInv, OrderlyInv, OwnHandle
  <2>3. \A d \in Conns : pc'[d] \in {"resolved", "removing"} => handle'[d] = d
    BY <1>1, <1>2 DEF IInv, OrderlyInv, OwnHandle
  <2> QED
    BY <2>2, <2>3 DEF OwnHandle
<1>15. TableIsRegistered'
  <2>1. DOMAIN clientMap' = DOMAIN clientMap \cup {n}
    BY <1>3, <1>8
  <2>2. \A i \in DOMAIN clientMap : clientMap'[i] = clientMap[i]
    BY <1>3, <1>8
  <2>3. Handles' = {clientMap'[i] : i \in DOMAIN clientMap \cup {n}}
    BY <2>1 DEF Handles
  <2>4. ASSUME NEW x PROVE x \in Handles' <=> x \in Handles \cup {c}
    <3>1. x \in Handles' => x \in Handles \cup {c}
      BY <1>8, <2>2, <2>3 DEF Handles
    <3>2. x \in Handles => x \in Handles'
      BY <2>2, <2>3 DEF Handles
    <3>3. c \in Handles'
      BY <1>8, <2>3
    <3> QED
      BY <3>1, <3>2, <3>3
  <2>5. Handles' = Handles \cup {c}
    BY <2>4
  <2> QED
    BY <1>1, <1>11, <2>5 DEF IInv, OrderlyInv, TableIsRegistered
<1>16. NoSpurious404'
  BY <1>1 DEF IInv, OrderlyInv, NoSpurious404
<1> QED
  BY <1>13, <1>14, <1>15, <1>16 DEF OrderlyInv

\* The entry deleted is the last one of the table, and it is the client's own.
LEMMA RemoveOrderly ==
  ASSUME IInv, orderly', NEW c \in Conns, Remove(c)
  PROVE  OrderlyInv'
<1> DEFINE n == Cardinality(DOMAIN clientMap)
           i == connectionID[c]
<1>1. /\ orderly /\ pc[c] = "removing" /\ handle[c] = c
      /\ pc' = [pc EXCEPT ![c] = "closed"]
      /\ connectionID' = connectionID /\ handle' = handle /\ shut' = shut
      /\ refused' = refused
  BY DEF Remove, OrderlyAfterRemove, IInv, OrderlyInv, OwnHandle
<1>2. Pending = {} /\ \A j \in DOMAIN clientMap : j <= i
  BY <1>1 DEF Remove, OrderlyAfterRemove
<1>3. clientMap' = WithoutEntry(i)
  BY <1>1, <1>2 DEF Remove, Storing, Pending
<1>4. pc \in [Conns -> Phases] /\ connectionID \in [Conns -> Nat]
  BY DEF IInv, TypeOK
<1>5. n \in Nat /\ DOMAIN clientMap = 0 .. (n - 1)
  BY <1>1, TableInverse DEF IInv, OrderlyInv, DenseIDs
<1>6. i \in DOMAIN clientMap /\ clientMap[i] = c
  BY <1>1, TableInverse DEF Registered
<1>7. i = n - 1 /\ n - 1 \in Nat
  <2>1. i \in Nat /\ i <= n - 1
    BY <1>5, <1>6
  <2>2. n - 1 \in DOMAIN clientMap
    BY <1>5, <2>1
  <2>3. n - 1 <= i
    BY <1>2, <2>2
  <2> QED
    BY <1>5, <2>1, <2>3
<1>8. /\ DOMAIN clientMap' = 0 .. (n - 2)
      /\ DOMAIN clientMap' = DOMAIN clientMap \ {i}
      /\ \A j \in DOMAIN clientMap' : clientMap'[j] = clientMap[j]
  BY <1>3, <1>5, <1>7 DEF WithoutEntry
<1>9. Cardinality(DOMAIN clientMap') = n - 1
  BY <1>5, <1>7, <1>8, FS_Interval
<1>10. Pending' = {}
  BY <1>1, <1>2, <1>4 DEF Pending
<1>11. Registered' = Registered \ {c}
  BY <1>1, <1>4 DEF Registered
<1>12. DenseIDs'
  <2>1. \A j \in DOMAIN clientMap' : connectionID'[clientMap'[j]] = j
    BY <1>1, <1>8, TableInverse
  <2>2. \A h \in shut : pc'[h] \in {"removing", "closed"}
    BY <1>1, <1>4 DEF IInv, OrderlyInv, DenseIDs, TypeOK
  <2>3. DOMAIN clientMap' = 0 .. (Cardinality(DOMAIN clientMap') - 1)
    BY <1>5, <1>8, <1>9
  <2> QED
    BY <1>1, <1>10, <2>1, <2>2, <2>3 DEF DenseIDs
<1>13. OwnHandle'
  <2>1. \A d \in Conns : pc'[d] \in {"resolved", "removing"} => handle'[d] = d
    BY <1>1, <1>4 DEF IInv, OrderlyInv, OwnHandle
  <2> QED
    BY <1>1, <1>11, <2>1 DEF IInv, OrderlyInv, OwnHandle
<1>14. TableIsRegistered'
  <2>1. \A j \in DOMAIN clientMap' : clientMap'[j] \in Registered'
    BY <1>1, <1>6, <1>8, <1>11, TableInverse
  <2>2. \A d \in Registered' : /\ connectionID[d] \in DOMAIN clientMap'
                               /\ clientMap'[connectionID[d]] = d
    BY <1>1, <1>6, <1>8, <1>11, TableInverse
  <2> QED
    BY <2>1, <2>2 DEF TableIsRegistered, Handles
<1>15. NoSpurious404'
  BY <1>1 DEF IInv, OrderlyInv, NoSpurious404
<1> QED
  BY <1>12, <1>13, <1>14, <1>15 DEF OrderlyInv

\* A call of a client whose connection is open finds its own handle.
LEMMA ResolveOrderly ==
  ASSUME IInv, orderly', NEW c \in Conns, Resolve(c)
  PROVE  OrderlyInv'
<1>1. /\ orderly /\ pc[c] = "open" /\ shut' = shut
      /\ clientMap' = clientMap /\ connectionID' = connectionID
  BY DEF Resolve
<1>2. /\ pc \in [Conns -> Phases] /\ shut \subseteq Conns
      /\ handle \in [Conns -> Conns \cup {NoHandle}]
  BY DEF IInv, TypeOK
<1>3. connectionID[c] \in DOMAIN clientMap /\ clientMap[connectionID[c]] = c
  BY <1>1, TableInverse DEF Registered
<1>4. /\ handle' = [handle EXCEPT ![c] = c] /\ refused' = refused
      /\ pc' = [pc EXCEPT ![c] = "resolved"]
  BY <1>3 DEF Resolve
<1>5. Pending' = Pending /\ Registered' = Registered
  BY <1>1, <1>2, <1>4 DEF Pending, Registered
<1>6. \A h \in shut : pc'[h] \in {"removing", "closed"}
  BY <1>1, <1>2, <1>4 DEF IInv, OrderlyInv, DenseIDs
<1>7. \A d \in Conns : pc'[d] \in {"resolved", "removing"} => handle'[d] = d
  BY <1>1, <1>2, <1>4 DEF IInv, OrderlyInv, OwnHandle
<1> QED
  BY <1>1, <1>4, <1>5, <1>6, <1>7, TableUntouched

\* The handle closed is the client's own, and nobody closed it before.
LEMMA CloseConnOrderly ==
  ASSUME IInv, orderly', NEW c \in Conns, CloseConn(c)
  PROVE  OrderlyInv'
<1>1. /\ orderly /\ pc[c] = "resolved" /\ handle' = handle
      /\ clientMap' = clientMap /\ connectionID' = connectionID
      /\ refused' = refused
  BY DEF CloseConn
<1>2. pc \in [Conns -> Phases] /\ shut \subseteq Conns
  BY DEF IInv, TypeOK
<1>3. handle[c] = c /\ c \notin shut
  BY <1>1 DEF IInv, OrderlyInv, OwnHandle, DenseIDs
<1>4. shut' = shut \cup {c} /\ pc' = [pc EXCEPT ![c] = "removing"]
  BY <1>3 DEF CloseConn
<1>5. Pending' = Pending /\ Registered' = Registered
  BY <1>1, <1>2, <1>4 DEF Pending, Registered
<1>6. \A h \in shut' : pc'[h] \in {"removing", "closed"}
  BY <1>1, <1>2, <1>4 DEF IInv, OrderlyInv, DenseIDs
<1>7. \A d \in Conns : pc'[d] \in {"resolved", "removing"} => handle'[d] = d
  BY <1>1, <1>2, <1>3, <1>4 DEF IInv, OrderlyInv, OwnHandle
<1> QED
  BY <1>1, <1>4, <1>5, <1>6, <1>7, TableUntouched

LEMMA NextIInv == IInv /\ [Next]_vars => IInv'
<1> SUFFICES ASSUME IInv, [Next]_vars PROVE IInv'
  OBVIOUS
<1>1. TypeOK'
  BY NextTypeOK DEF IInv
<1>2. CASE ~orderly'
  BY <1>1, <1>2 DEF IInv, OrderlyInv, DenseIDs, OwnHandle, TableIsRegistered,
                    NoSpurious404
<1>3. CASE orderly'
  <2> USE <1>3
  <2> SUFFICES OrderlyInv'
    BY <1>1 DEF IInv
  <2>0. pc \in [Conns -> Phases] /\ shut \subseteq Conns
    BY DEF IInv, TypeOK
  <2>1. ASSUME NEW c \in Conns, AllocateID(c) PROVE OrderlyInv'
    BY <2>1, AllocateOrderly
  <2>2. ASSUME NEW c \in Conns, BeginStore(c) PROVE OrderlyInv'
    <3>1. Pending' = Pending /\ Registered' = Registered /\ orderly
      BY <2>0, <2>2 DEF BeginStore, Pending, Registered
    <3>2. \A h \in shut : pc'[h] \in {"removing", "closed"}
      BY <2>0, <2>2, <3>1 DEF BeginStore, IInv, OrderlyInv, DenseIDs
    <3>3. \A d \in Conns : pc'[d] \in {"resolved", "removing"} => handle'[d] = d
      BY <2>0, <2>2, <3>1 DEF BeginStore, IInv, OrderlyInv, OwnHandle
    <3> QED
      BY <2>2, <3>1, <3>2, <3>3, TableUntouched DEF BeginStore
  <2>3. ASSUME NEW c \in Conns, EndStore(c) PROVE OrderlyInv'
    BY <2>3, StoreOrderly
  <2>4. ASSUME NEW c \in Conns, Resolve(c) PROVE OrderlyInv'
    BY <2>4, ResolveOrderly
  <2>5. ASSUME NEW c \in Conns, Serve(c) PROVE OrderlyInv'
    <3>1. Pending' = Pending /\ Registered' = Registered /\ orderly
      BY <2>0, <2>5 DEF Serve, Pending, Registered
    <3>2. \A h \in shut : pc'[h] \in {"removing", "closed"}
      BY <2>0, <2>5, <3>1 DEF Serve, IInv, OrderlyInv, DenseIDs
    <3>3. \A d \in Conns : pc'[d] \in {"resolved", "removing"} => handle'[d] = d
      BY <2>0, <2>5, <3>1 DEF Serve, IInv, OrderlyInv, OwnHandle
    <3> QED
      BY <2>5, <3>1, <3>2, <3>3, TableUntouched DEF Serve
  <2>6. ASSUME NEW c \in Conns, CloseConn(c) PROVE OrderlyInv'
    BY <2>6, CloseConnOrderly
  <2>7. ASSUME NEW c \in Conns, Remove(c) PROVE OrderlyInv'
    BY <2>7, RemoveOrderly
  <2>8. ASSUME UNCHANGED <<clientMap, connectionID, pc, handle, shut, refused,
                           orderly>>
        PROVE OrderlyInv'
    <3>1. Pending' = Pending /\ Registered' = Registered
      BY <2>8 DEF Pending, Registered
    <3> QED
      BY <2>8, <3>1, TableUntouched DEF IInv, OrderlyInv, DenseIDs, OwnHandle
  <2>9. ASSUME NEW c \in Conns, MapFault(c) \/ TransferPanics(c)
        PROVE OrderlyInv'
    BY <2>8, <2>9 DEF MapFault, TransferPanics
  <2>10. CASE UNCHANGED vars
    BY <2>8, <2>10 DEF vars
  <2> QED
    BY <2>1, <2>2, <2>3, <2>4, <2>5, <2>6, <2>7, <2>9, <2>10 DEF Next
<1> QED
  BY <1>2, <1>3

LEMMA IInvHolds == Spec => []IInv
BY InitIInv, NextIInv, PTL DEF Spec

-----------------------------------------------------------------------------
(***************************************************************************)
(* What follows from it                                                    *)
(***************************************************************************)

\* While requests are orderly, a call is only ever served by the handle that the
\* caller's own /newRequest created.
THEOREM CallsReachTheirHandle == Spec => []OwnHandle
<1>1. IInv => OwnHandle
  BY DEF IInv, OrderlyInv
<1> QED
  BY <1>1, IInvHolds, PTL

\* While requests are orderly, the table holds exactly the open connections.
THEOREM TableIsExact == Spec => []TableIsRegistered
<1>1. IInv => TableIsRegistered
  BY DEF IInv, OrderlyInv
<1> QED
  BY <1>1, IInvHolds, PTL

\* While requests are orderly, no call is answered 404.
THEOREM CallsFindTheirHandle == Spec => []NoSpurious404
<1>1. IInv => NoSpurious404
  BY DEF IInv, OrderlyInv
<1> QED
  BY <1>1, IInvHolds, PTL

\* While requests are orderly, the ids in use are 0 .. n-1 and a new id is free.
THEOREM IDsAreDense == Spec => []DenseIDs
<1>1. IInv => DenseIDs
  BY DEF IInv, OrderlyInv
<1> QED
  BY <1>1, IInvHolds, PTL

\* The log of /newRequest is right while requests are orderly: the id it gives
\* out is of no entry of the table.  (NewIDIsNew says so of all requests.)
THEOREM OrderlyIDsAreNew ==
  Spec => [][orderly => \A c \in Conns : pc[c] = "idle" /\ pc'[c] = "allocated"
                          => connectionID'[c] \notin DOMAIN clientMap]_vars
<1> DEFINE IDIsNew(c) == pc[c] = "idle" /\ pc'[c] = "allocated"
                           => connectionID'[c] \notin DOMAIN clientMap
<1>1. IInv /\ [Next]_vars => (orderly => \A c \in Conns : IDIsNew(c))
  <2> SUFFICES ASSUME IInv, [Next]_vars, orderly, NEW c \in Conns,
                      pc[c] = "idle", pc'[c] = "allocated"
               PROVE  connectionID'[c] \notin DOMAIN clientMap
    OBVIOUS
  <2>1. AllocateID(c)
    <3>1. PICK d \in Conns :
            \/ AllocateID(d) \/ BeginStore(d) \/ EndStore(d) \/ Resolve(d)
            \/ Serve(d) \/ CloseConn(d) \/ Remove(d) \/ MapFault(d)
            \/ TransferPanics(d)
      BY DEF Next, vars
    <3>2. pc \in [Conns -> Phases]
      BY DEF IInv, TypeOK
    <3>3. pc' = [pc EXCEPT ![d] = pc'[d]] /\ d = c
      BY <3>1, <3>2 DEF AllocateID, BeginStore, EndStore, Resolve, Serve,
                        CloseConn, Remove, MapFault, TransferPanics
    <3> QED
      BY <3>1, <3>2, <3>3
         DEF BeginStore, EndStore, Resolve, Serve, CloseConn, Remove, MapFault,
             TransferPanics
  <2>2. connectionID'[c] = Cardinality(DOMAIN clientMap)
    BY <2>1 DEF AllocateID, IInv, TypeOK
  <2>3. DOMAIN clientMap = 0 .. (Cardinality(DOMAIN clientMap) - 1)
    BY DEF IInv, OrderlyInv, DenseIDs
  <2>4. Cardinality(DOMAIN clientMap) \in Nat
    BY FS_CardinalityType DEF IInv, TypeOK
  <2> QED
    BY <2>2, <2>3, <2>4
<1> QED
  BY <1>1, IInvHolds, PTL DEF Spec

=============================================================================
