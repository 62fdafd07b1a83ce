----------------------------- MODULE ConnTable -----------------------------
(***************************************************************************)
(* The connection table of the HTTP tunnel: the map "clientMap" from       *)
(* connection ids to client handles that HttpSidecarServer.                *)
(* InitRequestRouter (http_handler/server_main.go) shares between the four *)
(* endpoints /newRequest, /clientWrite, /clientRead and /clientClose.      *)
(*                                                                         *)
(* Every connection is opened by one /newRequest, so a member of Conns     *)
(* names the remote client, the request that opened its connection and the *)
(* handle the request created.  A client makes one call at a time.         *)
(*                                                                         *)
(* newConnLock only ever protects one access of the map, never a sequence  *)
(* of them, so each critical section is one step and the lock itself needs *)
(* no variable.  The store of the handle is made outside the lock and is   *)
(* split into a begin and an end step: an access of the map in between is  *)
(* a data race.                                                            *)
(***************************************************************************)
EXTENDS Naturals, FiniteSets

CONSTANTS
  Conns,    \* the connections, one per /newRequest
  NoHandle  \* "no handle resolved yet"

ASSUME ConnsAssumption == IsFiniteSet(Conns) /\ NoHandle \notin Conns

VARIABLES
  clientMap,     \* partial function from connection ids to handles
  connectionID,  \* the id each /newRequest took
  pc,            \* where the handler of each client's current call stands
  handle,        \* the handle the middleware last found for each client
  shut,          \* the handles whose protocolConn has been closed
  dead,          \* the sidecar process is gone
  refused,       \* history: the clients the middleware answered 404
  orderly        \* history: see OrderlyAfterRemove

vars == <<clientMap, connectionID, pc, handle, shut, dead, refused, orderly>>

(***************************************************************************)
(* "idle"       /newRequest not received yet                               *)
(* "allocated"  id taken, newConnLock released, handle not stored yet      *)
(* "storing"    the store into the map has begun                           *)
(* "open"       stored; no handler is at work for the client               *)
(* "resolved"   the middleware found a handle, the endpoint is at work     *)
(* "removing"   /clientClose closed protocolConn, the entry is still there *)
(* "closed"     /clientClose is over                                       *)
(***************************************************************************)
Phases == {"idle", "allocated", "storing", "open", "resolved", "removing",
           "closed"}

Pending == {c \in Conns : pc[c] \in {"allocated", "storing"}}
Storing == {c \in Conns : pc[c] = "storing"}

\* The connections that were opened and whose client has not closed them.
Registered == {c \in Conns : pc[c] \in {"open", "resolved", "removing"}}

Handles == {clientMap[i] : i \in DOMAIN clientMap}

Init ==
  /\ clientMap = [i \in {} |-> NoHandle]
  /\ connectionID = [c \in Conns |-> 0]
  /\ pc = [c \in Conns |-> "idle"]
  /\ handle = [c \in Conns |-> NoHandle]
  /\ shut = {}
  /\ dead = FALSE
  /\ refused = {}
  /\ orderly = TRUE

-----------------------------------------------------------------------------
(***************************************************************************)
(* /newRequest                                                             *)
(***************************************************************************)

\* Mutant: the id is taken from one less than the size of the table.
AllocateIDOffByOne(c) ==
  /\ ~dead
  /\ pc[c] = "idle"
  /\ connectionID' = [connectionID EXCEPT ![c] =
                        IF DOMAIN clientMap = {} THEN 0
                        ELSE Cardinality(DOMAIN clientMap) - 1]
  /\ pc' = [pc EXCEPT ![c] = "allocated"]
  /\ orderly' = (orderly /\ Pending = {})
  /\ UNCHANGED <<clientMap, handle, shut, dead, refused>>

\* The id is the size of the table, read under newConnLock.
AllocateID(c) ==
  /\ ~dead
  /\ pc[c] = "idle"
  /\ connectionID' = [connectionID EXCEPT ![c] = Cardinality(DOMAIN clientMap)]
  /\ pc' = [pc EXCEPT ![c] = "allocated"]
  /\ orderly' = (orderly /\ Pending = {})
  /\ UNCHANGED <<clientMap, handle, shut, dead, refused>>

\* "clientMap[connectionID] = handle" begins; newConnLock is not held.
BeginStore(c) ==
  /\ ~dead
  /\ pc[c] = "allocated"
  /\ pc' = [pc EXCEPT ![c] = "storing"]
  /\ UNCHANGED <<clientMap, connectionID, handle, shut, dead, orderly, refused>>

WithEntry(i, h) ==
  [j \in DOMAIN clientMap \cup {i} |-> IF j = i THEN h ELSE clientMap[j]]

WithoutEntry(i) == [j \in DOMAIN clientMap \ {i} |-> clientMap[j]]

\* The store ends, and the client is told its id.  A store that raced with
\* another one undetected may be lost.
EndStore(c) ==
  /\ ~dead
  /\ pc[c] = "storing"
  /\ \/ clientMap' = WithEntry(connectionID[c], c)
     \/ Storing # {c} /\ clientMap' = clientMap
  /\ pc' = [pc EXCEPT ![c] = "open"]
  /\ UNCHANGED <<connectionID, handle, shut, dead, orderly, refused>>

-----------------------------------------------------------------------------
(***************************************************************************)
(* The calls on an open connection                                         *)
(***************************************************************************)

\* Mutant: a missing entry is not answered with 404.
ResolveUnchecked(c) ==
  /\ ~dead
  /\ pc[c] = "open"
  /\ handle' = [handle EXCEPT ![c] = IF connectionID[c] \in DOMAIN clientMap
                                     THEN clientMap[connectionID[c]]
                                     ELSE NoHandle]
  /\ pc' = [pc EXCEPT ![c] = "resolved"]
  /\ UNCHANGED <<clientMap, connectionID, shut, dead, refused, orderly>>

\* NewConnectionIDFromHeaderMiddleware: look the id up, or answer 404.  A
\* lookup that raced with a store undetected may miss an entry.
Resolve(c) ==
  /\ ~dead
  /\ pc[c] = "open"
  /\ \/ /\ connectionID[c] \in DOMAIN clientMap
        /\ handle' = [handle EXCEPT ![c] = clientMap[connectionID[c]]]
        /\ pc' = [pc EXCEPT ![c] = "resolved"]
        /\ UNCHANGED <<refused, orderly>>
     \/ /\ connectionID[c] \notin DOMAIN clientMap \/ Storing # {}
        /\ refused' = refused \cup {c}
        /\ orderly' = (orderly /\ connectionID[c] \notin DOMAIN clientMap)
        /\ UNCHANGED <<handle, pc>>
  /\ UNCHANGED <<clientMap, connectionID, shut, dead>>

\* /clientWrite or /clientRead answers; neither changes the table.
Serve(c) ==
  /\ ~dead
  /\ pc[c] = "resolved"
  /\ pc' = [pc EXCEPT ![c] = "open"]
  /\ UNCHANGED <<clientMap, connectionID, handle, shut, dead, orderly, refused>>

\* /clientClose, holding the handle's rwLock, closes protocolConn.  Closing it
\* a second time is an error, which is answered without touching the table.
CloseConn(c) ==
  /\ ~dead
  /\ pc[c] = "resolved"
  /\ \A d \in Conns : pc[d] = "removing" => handle[d] # handle[c]
  /\ \/ /\ handle[c] \notin shut
        /\ shut' = shut \cup {handle[c]}
        /\ pc' = [pc EXCEPT ![c] = "removing"]
     \/ /\ handle[c] \in shut
        /\ pc' = [pc EXCEPT ![c] = "closed"]
        /\ UNCHANGED shut
  /\ UNCHANGED <<clientMap, connectionID, handle, dead, orderly, refused>>

(***************************************************************************)
(* "orderly" turns false when two /newRequest overlap between taking the   *)
(* id and storing the handle, when an entry is removed while a /newRequest *)
(* is in between, when the entry removed is not the one with the largest   *)
(* id, or when a lookup misses an entry because it raced with a store.  The *)
(* theorem of ConnTableProofs is that these four are the only ways for the *)
(* table to go wrong.                                                      *)
(***************************************************************************)
OrderlyAfterRemove(i) ==
  orderly /\ Pending = {} /\ \A j \in DOMAIN clientMap : j <= i

\* Mutant: delete is called with the id of some other entry of the table.
RemoveOther(c) ==
  /\ ~dead
  /\ pc[c] = "removing"
  /\ \E i \in DOMAIN clientMap :
       /\ clientMap' = WithoutEntry(i)
       /\ orderly' = OrderlyAfterRemove(i)
  /\ pc' = [pc EXCEPT ![c] = "closed"]
  /\ UNCHANGED <<connectionID, handle, shut, dead, refused>>

\* Mutant: the entry is never deleted.
RemoveNothing(c) ==
  /\ ~dead
  /\ pc[c] = "removing"
  /\ pc' = [pc EXCEPT ![c] = "closed"]
  /\ UNCHANGED <<clientMap, orderly, connectionID, handle, shut, dead, refused>>

\* /clientClose deletes the entry under newConnLock: the entry at the id of
\* the handle it closed, whoever it belongs to by now.  A delete that raced
\* with a store undetected may be lost.
Remove(c) ==
  /\ ~dead
  /\ pc[c] = "removing"
  /\ LET i == connectionID[handle[c]]
     IN  /\ \/ clientMap' = WithoutEntry(i)
            \/ Storing # {} /\ clientMap' = clientMap
         /\ orderly' = OrderlyAfterRemove(i)
  /\ pc' = [pc EXCEPT ![c] = "closed"]
  /\ UNCHANGED <<connectionID, handle, shut, dead, refused>>

-----------------------------------------------------------------------------
(***************************************************************************)
(* The ends of the process                                                 *)
(***************************************************************************)

\* An access of the map while another handler stores into it: the Go runtime
\* detects it ("concurrent map read and map write") and ends the process.
MapFault(c) ==
  /\ ~dead
  /\ pc[c] \in {"allocated", "open", "removing"}
  /\ Storing # {}
  /\ dead' = TRUE
  /\ UNCHANGED <<clientMap, connectionID, pc, handle, shut, orderly, refused>>

\* DoTransfer runs in a goroutine of its own, started once the handle is
\* stored; a panic in it is not recovered and ends the process.
TransferPanics(c) ==
  /\ ~dead
  /\ pc[c] \notin {"idle", "allocated", "storing"}
  /\ dead' = TRUE
  /\ UNCHANGED <<clientMap, connectionID, pc, handle, shut, orderly, refused>>

Next ==
  \E c \in Conns :
    \/ AllocateID(c)
    \/ BeginStore(c)
    \/ EndStore(c)
    \/ Resolve(c)
    \/ Serve(c)
    \/ CloseConn(c)
    \/ Remove(c)
    \/ MapFault(c)
    \/ TransferPanics(c)

Spec == Init /\ [][Next]_vars

-----------------------------------------------------------------------------
(***************************************************************************)
(* Properties                                                              *)
(***************************************************************************)

\* The types of the variables.
TypeOK ==
  /\ DOMAIN clientMap \subseteq Nat
  /\ IsFiniteSet(DOMAIN clientMap)
  /\ Handles \subseteq Conns
  /\ connectionID \in [Conns -> Nat]
  /\ pc \in [Conns -> Phases]
  /\ handle \in [Conns -> Conns \cup {NoHandle}]
  /\ \A c \in Conns : pc[c] \in {"resolved", "removing"} => handle[c] \in Conns
  /\ shut \subseteq Conns
  /\ dead \in BOOLEAN
  /\ refused \subseteq Conns
  /\ orderly \in BOOLEAN

\* While requests are orderly, every call of a client is served by the handle
\* that client's own /newRequest created, and by no other: no two connections
\* in use have the same id, although the id is only the size of the table.
OwnHandle ==
  orderly =>
    /\ \A c, d \in Registered : c # d => connectionID[c] # connectionID[d]
    /\ \A c \in Conns : pc[c] \in {"resolved", "removing"} => handle[c] = c

\* While requests are orderly, the table holds exactly the connections that
\* are open: none is lost while its client uses it, none stays once its client
\* has closed it (the delete of /clientClose reached its own entry).
TableIsRegistered == orderly => Handles = Registered

\* While requests are orderly, no client is told that its connection "does not
\* exist" by the middleware.
NoSpurious404 == orderly => refused = {}

\* The inductive invariant that carries the three properties above: while
\* requests are orderly the ids in use are exactly 0 .. n-1, n the size of the
\* table, the one id that may be on its way into the table is n, an entry is
\* where its handle says, and only handles that were closed are shut.
DenseIDs ==
  orderly =>
    /\ DOMAIN clientMap = 0 .. (Cardinality(DOMAIN clientMap) - 1)
    /\ \A c \in Pending : connectionID[c] = Cardinality(DOMAIN clientMap)
    /\ \A c, d \in Pending : c = d
    /\ \A i \in DOMAIN clientMap : connectionID[clientMap[i]] = i
    /\ \A h \in shut : pc[h] \in {"removing", "closed"}

\* A connection that is being opened gets an id that no entry of the table has:
\* what "new connection id:" in the log of /newRequest says.
NewIDIsNew ==
  [][\A c \in Conns : pc[c] = "idle" /\ pc'[c] = "allocated"
                        => connectionID'[c] \notin DOMAIN clientMap]_vars

=============================================================================
