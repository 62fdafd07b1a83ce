-------------------------- MODULE HttpTunnelProofs --------------------------
(***************************************************************************)
(* Theorems about the HTTP tunnel: it uses the table as ConnTable says,    *)
(* with pipes, locks and goroutines of any number, so what ConnTableProofs *)
(* proves of the table holds in the tunnel.                                *)
(***************************************************************************)
EXTENDS HttpTunnel, TLAPS

TP == INSTANCE ConnTableProofs

LEMMA InitRefines == Init => T!Init
BY DEF Init

\* Every step of the tunnel is a step of the table or leaves it alone.
LEMMA NextRefines == [Next]_vars => [T!Next]_(T!vars)
<1> SUFFICES ASSUME [Next]_vars PROVE T!Next \/ UNCHANGED tableVars
  BY DEF tableVars, T!vars
<1>1. ASSUME NEW c \in Conns, Handler(c) PROVE T!Next \/ UNCHANGED tableVars
  <2>1. CASE NewRequest(c)
    BY <2>1 DEF NewRequest, T!Next
  <2>2. CASE NewRequestStores(c)
    BY <2>2 DEF NewRequestStores, T!Next
  <2>3. CASE NewRequestReplies(c)
    BY <2>3 DEF NewRequestReplies, T!Next
  <2>4. CASE Call(c)
    BY <2>4 DEF Call, T!Next
  <2>5. CASE LockHandle(c)
    BY <2>5 DEF LockHandle
  <2>6. CASE ClientWrite(c)
    BY <2>6 DEF ClientWrite, T!Next
  <2>7. CASE ClientRead(c)
    BY <2>7 DEF ClientRead, T!Next
  <2>8. CASE ClientReadEOF(c)
    BY <2>8 DEF ClientReadEOF, T!Next
  <2>9. CASE CloseStart(c)
    BY <2>9 DEF CloseStart, T!Next
  <2>10. CASE CloseEnd(c)
    BY <2>10 DEF CloseEnd, T!Next
  <2> QED
    BY <1>1, <2>1, <2>2, <2>3, <2>4, <2>5, <2>6, <2>7, <2>8, <2>9, <2>10
       DEF Handler
<1>2. ASSUME NEW h \in Conns, Goroutine(h) PROVE T!Next \/ UNCHANGED tableVars
  BY <1>2 DEF Goroutine, WriterEnters, WriterFails, DrainReads, DrainEnds
<1>3. ASSUME NEW h \in Conns, NEW why, Panic(h, why)
      PROVE  T!Next
  BY <1>3 DEF Panic, T!Next
<1>4. ASSUME NEW h \in Conns, NEW why, Take(h) \/ BreaksSession(h, why)
      PROVE  UNCHANGED tableVars
  BY <1>4 DEF Take, BreaksSession
<1>5. ASSUME NEW h \in Conns, Transfer(h) PROVE T!Next \/ UNCHANGED tableVars
  <2>1. CASE ServerReads(h) \/ AlertWritten(h)
    BY <1>3, <1>4, <2>1 DEF ServerReads, AlertWritten
  <2>2. CASE ServerReadFails(h)
    BY <1>3, <2>2 DEF ServerReadFails
  <2>3. CASE BackendAnswers(h)
    BY <2>3 DEF BackendAnswers
  <2>4. CASE ServerWrites(h)
    BY <1>3, <2>4 DEF ServerWrites
  <2>5. CASE ServerWrote(h)
    BY <1>3, <2>5 DEF ServerWrote
  <2> QED
    BY <1>5, <2>1, <2>2, <2>3, <2>4, <2>5 DEF Transfer
<1>6. ASSUME NEW c \in Conns, Environment(c) PROVE T!Next \/ UNCHANGED tableVars
  <2>1. CASE BodyPasses(c) \/ ServerRejects(c)
    BY <1>3, <1>4, <2>1 DEF BodyPasses, ServerRejects
  <2>2. CASE BackendFails(c)
    BY <1>3, <2>2 DEF BackendFails
  <2>3. CASE NetworkFails(c)
    BY <2>3 DEF NetworkFails
  <2>4. CASE MapFault(c)
    BY <2>4 DEF MapFault, T!Next
  <2> QED
    BY <1>6, <2>1, <2>2, <2>3, <2>4 DEF Environment
<1>7. CASE UNCHANGED vars
  BY <1>7 DEF vars
<1> QED
  BY <1>1, <1>2, <1>5, <1>6, <1>7 DEF Next

\* The table of the tunnel behaves as the table that ConnTableProofs is about.
LEMMA TunnelIsTable == Spec => TP!Spec
<1>1. T!Init => TP!Init
  BY DEF T!Init, TP!Init
<1>2. [T!Next]_(T!vars) => [TP!Next]_(TP!vars)
  <2>1. \A c \in Conns : T!AllocateID(c) => TP!AllocateID(c)
    BY DEF T!AllocateID, TP!AllocateID, T!Pending, TP!Pending, T!Cardinality,
           TP!Cardinality
  <2>2. \A c \in Conns : T!BeginStore(c) => TP!BeginStore(c)
    BY DEF T!BeginStore, TP!BeginStore
  <2>3. \A c \in Conns : T!EndStore(c) => TP!EndStore(c)
    BY DEF T!EndStore, TP!EndStore, T!WithEntry, TP!WithEntry, T!Storing,
           TP!Storing
  <2>4. \A c \in Conns : T!Resolve(c) => TP!Resolve(c)
    BY DEF T!Resolve, TP!Resolve, T!Storing, TP!Storing
  <2>5. \A c \in Conns : T!Serve(c) => TP!Serve(c)
    BY DEF T!Serve, TP!Serve
  <2>6. \A c \in Conns : T!CloseConn(c) => TP!CloseConn(c)
    BY DEF T!CloseConn, TP!CloseConn
  <2>7. \A c \in Conns : T!Remove(c) => TP!Remove(c)
    BY DEF T!Remove, TP!Remove, T!WithoutEntry, TP!WithoutEntry, T!Storing,
           TP!Storing, T!OrderlyAfterRemove, TP!OrderlyAfterRemove, T!Pending,
           TP!Pending
  <2>8. \A c \in Conns : T!MapFault(c) => TP!MapFault(c)
    BY DEF T!MapFault, TP!MapFault, T!Storing, TP!Storing
  <2>9. \A c \in Conns : T!TransferPanics(c) => TP!TransferPanics(c)
    BY DEF T!TransferPanics, TP!TransferPanics
  <2> QED
    BY <2>1, <2>2, <2>3, <2>4, <2>5, <2>6, <2>7, <2>8, <2>9
       DEF T!Next, TP!Next, T!vars, TP!vars
<1> QED
  BY <1>1, <1>2, InitRefines, NextRefines, PTL DEF Spec, TP!Spec

\* While requests are orderly, no call is answered 404 and every call of a client
\* works on the pipes, the lock and the session of the client's own handle.
THEOREM TunnelCallsReachTheirHandle ==
  Spec => [](T!OwnHandle /\ T!NoSpurious404)
<1>1. TP!ConnsAssumption
  BY TunnelAssumption DEF TP!ConnsAssumption, TP!IsFiniteSet, IsFiniteSet
<1>2. TP!Spec => []TP!OwnHandle
  BY <1>1, TP!CallsReachTheirHandle, PTL
<1>3. TP!Spec => []TP!NoSpurious404
  BY <1>1, TP!CallsFindTheirHandle, PTL
<1>4. TP!OwnHandle /\ TP!NoSpurious404 => T!OwnHandle /\ T!NoSpurious404
  BY DEF TP!OwnHandle, TP!NoSpurious404, TP!Registered,
         T!OwnHandle, T!NoSpurious404, T!Registered
<1> QED
  BY <1>2, <1>3, <1>4, TunnelIsTable, PTL

-----------------------------------------------------------------------------
(***************************************************************************)
(* The rwLock and the goroutine that drains the pipe                       *)
(***************************************************************************)

\* Where a handler that holds the lock stands.
HolderFacts ==
  \A c \in Conns :
    /\ locked[c] # "none" => pc[c] \in {"resolved", "removing"}
    /\ locked[c] = "read" => op[c] = "clientRead"
    /\ locked[c] = "write" => op[c] \in {"clientWrite", "clientClose"}
    /\ pc[c] = "removing" => locked[c] = "write" /\ op[c] = "clientClose"

\* A writer excludes every other holder.
Exclusion ==
  \A c, d, h \in Conns :
    Holds(c, h, "write") /\ (Holds(d, h, "write") \/ Holds(d, h, "read"))
      => c = d

\* While the draining goroutine can still read, a /clientClose holds the lock.
DrainIsHeld ==
  \A h \in Conns : drain[h] /\ ~hungUp[h] =>
    \E c \in Conns : Holds(c, h, "write") /\ op[c] = "clientClose"

\* A handle is between the two halves of its first Close only under the lock.
ShutIsHeld ==
  \A h \in Conns : h \in shut /\ ~hungUp[h] =>
    \E c \in Conns : Holds(c, h, "write") /\ pc[c] = "removing"

LockTypes ==
  /\ locked \in [Conns -> {"none", "read", "write"}]
  /\ op \in [Conns -> {"none", "newRequest", "clientWrite", "clientRead",
                       "clientClose"}]
  /\ drain \in [Conns -> BOOLEAN]
  /\ hungUp \in [Conns -> BOOLEAN]

TableTypes ==
  /\ pc \in [Conns -> T!Phases]
  /\ handle \in [Conns -> Conns \cup {NoHandle}]
  /\ \A c \in Conns : pc[c] \in {"resolved", "removing"} => handle[c] \in Conns
  /\ shut \subseteq Conns

LockInv ==
  /\ LockTypes
  /\ HolderFacts
  /\ Exclusion
  /\ DrainIsHeld
  /\ ShutIsHeld

lockVars == <<locked, op, drain, hungUp, pc, handle, shut>>

LEMMA LockInvInit == Init => LockInv
BY DEF Init, T!Init, LockInv, LockTypes, HolderFacts, Exclusion, DrainIsHeld,
       ShutIsHeld, Holds

\* A step of a handler that holds no lock, outside /clientClose.
LEMMA UnlockedStep ==
  ASSUME LockInv, TableTypes, LockTypes', NEW c \in Conns,
         locked[c] = "none", pc'[c] # "removing",
         UNCHANGED <<locked, drain, hungUp, shut>>,
         \A d \in Conns \ {c} :
           pc'[d] = pc[d] /\ op'[d] = op[d] /\ handle'[d] = handle[d]
  PROVE  LockInv'
<1>1. \A d, h \in Conns : \A m \in {"read", "write"} :
        /\ Holds(d, h, m)' = Holds(d, h, m)
        /\ Holds(d, h, m) => d # c
  BY DEF Holds, LockInv, LockTypes
<1>2. HolderFacts'
  BY DEF LockInv, HolderFacts, LockTypes
<1>3. Exclusion'
  BY <1>1 DEF LockInv, Exclusion
<1>4. DrainIsHeld'
  BY <1>1 DEF LockInv, DrainIsHeld
<1>5. ShutIsHeld'
  BY <1>1 DEF LockInv, ShutIsHeld
<1> QED
  BY <1>2, <1>3, <1>4, <1>5 DEF LockInv

\* A handler answers and gives the lock back; /clientClose only does so when the
\* server end of the pipes is closed.
LEMMA ReleasingStep ==
  ASSUME LockInv, TableTypes, LockTypes', NEW c \in Conns, Reply(c),
         UNCHANGED <<drain, shut, handle>>,
         pc'[c] \notin {"resolved", "removing"},
         \A d \in Conns \ {c} : pc'[d] = pc[d],
         \A h \in Conns : hungUp[h] => hungUp'[h],
         op[c] = "clientClose" => hungUp'[handle[c]]
  PROVE  LockInv'
<1>1. \A d, h \in Conns : \A m \in {"read", "write"} :
        Holds(d, h, m)' <=> d # c /\ Holds(d, h, m)
  BY DEF Holds, Reply, LockInv, LockTypes
<1>2. \A d \in Conns \ {c} : op'[d] = op[d] /\ locked'[d] = locked[d]
  BY DEF Reply, LockInv, LockTypes
<1>3. locked'[c] = "none"
  BY DEF Reply, LockInv, LockTypes
<1>4. HolderFacts'
  BY <1>2, <1>3 DEF LockInv, HolderFacts
<1>5. Exclusion'
  BY <1>1 DEF LockInv, Exclusion
<1>6. DrainIsHeld'
  <2> SUFFICES ASSUME NEW h \in Conns, drain[h], ~hungUp'[h]
               PROVE  \E d \in Conns :
                        Holds(d, h, "write")' /\ op'[d] = "clientClose"
    BY DEF DrainIsHeld
  <2>1. PICK d \in Conns : Holds(d, h, "write") /\ op[d] = "clientClose"
    BY DEF LockInv, DrainIsHeld
  <2>2. d # c
    BY <2>1 DEF Holds
  <2> QED
    BY <1>1, <1>2, <2>1, <2>2
<1>7. ShutIsHeld'
  <2> SUFFICES ASSUME NEW h \in Conns, h \in shut, ~hungUp'[h]
               PROVE  \E d \in Conns :
                        Holds(d, h, "write")' /\ pc'[d] = "removing"
    BY DEF ShutIsHeld
  <2>1. PICK d \in Conns : Holds(d, h, "write") /\ pc[d] = "removing"
    BY DEF LockInv, ShutIsHeld
  <2>2. d # c
    BY <2>1 DEF Holds, LockInv, HolderFacts
  <2> QED
    BY <1>1, <1>2, <2>1, <2>2
<1> QED
  BY <1>4, <1>5, <1>6, <1>7 DEF LockInv

\* A handler takes the lock.
LEMMA LockingStep ==
  ASSUME LockInv, TableTypes, NEW c \in Conns, LockHandle(c)
  PROVE  LockInv'
<1>1. /\ pc[c] = "resolved" /\ locked[c] = "none" /\ handle[c] \in Conns
      /\ UNCHANGED <<op, pc, handle, shut, hungUp>>
      /\ \A d \in Conns : ~Holds(d, handle[c], "write")
  BY DEF LockHandle, tableVars, TableTypes
<1>2. CASE /\ op[c] = "clientRead" /\ drain' = drain
           /\ locked' = [locked EXCEPT ![c] = "read"]
  <2>1. LockTypes'
    BY <1>1, <1>2 DEF LockInv, LockTypes
  <2>2. HolderFacts'
    BY <1>1, <1>2 DEF LockInv, HolderFacts, LockTypes
  <2>3. Exclusion'
    BY <1>1, <1>2 DEF LockInv, Exclusion, LockTypes, Holds
  <2>4. DrainIsHeld'
    BY <1>1, <1>2 DEF LockInv, DrainIsHeld, LockTypes, Holds
  <2>5. ShutIsHeld'
    BY <1>1, <1>2 DEF LockInv, ShutIsHeld, LockTypes, Holds
  <2> QED
    BY <2>1, <2>2, <2>3, <2>4, <2>5 DEF LockInv
<1>3. CASE /\ op[c] \in {"clientWrite", "clientClose"}
           /\ \A d \in Conns : ~Holds(d, handle[c], "read")
           /\ locked' = [locked EXCEPT ![c] = "write"]
           /\ drain' = [drain EXCEPT ![handle[c]] = @ \/ op[c] = "clientClose"]
  <2>1. LockTypes'
    BY <1>1, <1>3 DEF LockInv, LockTypes
  <2>2. HolderFacts'
    BY <1>1, <1>3 DEF LockInv, HolderFacts, LockTypes
  <2>3. Exclusion'
    BY <1>1, <1>3 DEF LockInv, Exclusion, LockTypes, Holds
  <2>4. DrainIsHeld'
    <3> SUFFICES ASSUME NEW h \in Conns, drain'[h], ~hungUp[h]
                 PROVE  \E d \in Conns :
                          Holds(d, h, "write")' /\ op[d] = "clientClose"
      BY <1>1 DEF DrainIsHeld
    <3>1. CASE drain[h]
      BY <1>1, <1>3, <3>1 DEF LockInv, DrainIsHeld, LockTypes, Holds
    <3>2. CASE ~drain[h]
      <4>1. h = handle[c] /\ op[c] = "clientClose"
        BY <1>1, <1>3, <3>2 DEF LockInv, LockTypes
      <4>2. Holds(c, h, "write")'
        BY <1>1, <1>3, <4>1 DEF Holds, LockInv, LockTypes
      <4> QED
        BY <4>1, <4>2
    <3> QED
      BY <3>1, <3>2
  <2>5. ShutIsHeld'
    BY <1>1, <1>3 DEF LockInv, ShutIsHeld, LockTypes, Holds
  <2> QED
    BY <2>1, <2>2, <2>3, <2>4, <2>5 DEF LockInv
<1> QED
  BY <1>2, <1>3 DEF LockHandle

\* /clientClose closes protocolConn, for the first or for a second time.
LEMMA ClosingStep ==
  ASSUME LockInv, TableTypes, NEW c \in Conns, CloseStart(c)
  PROVE  LockInv'
<1> DEFINE h == handle[c]
<1>1. /\ op[c] = "clientClose" /\ locked[c] = "write" /\ pc[c] = "resolved"
      /\ h \in Conns /\ UNCHANGED <<drain, handle>>
  BY DEF CloseStart, T!CloseConn, TableTypes
<1>2. CASE h \notin shut
  <2>1. /\ shut' = shut \cup {h} /\ pc' = [pc EXCEPT ![c] = "removing"]
    BY <1>1, <1>2 DEF CloseStart, T!CloseConn
  <2>2. /\ UNCHANGED <<op, locked>>
        /\ hungUp' = hungUp \/ hungUp' = [hungUp EXCEPT ![h] = TRUE]
    BY <1>1, <2>1 DEF CloseStart, handlerVars, TableTypes
  <2>3. LockTypes'
    BY <1>1, <2>2 DEF LockInv, LockTypes
  <2>4. HolderFacts'
    BY <1>1, <2>1, <2>2 DEF LockInv, HolderFacts, TableTypes
  <2>5. Exclusion'
    BY <1>1, <2>2 DEF LockInv, Exclusion, Holds
  <2>6. DrainIsHeld'
    BY <1>1, <2>2 DEF LockInv, DrainIsHeld, Holds, LockTypes
  <2>7. ShutIsHeld'
    <3>1. \A g \in Conns : ~hungUp'[g] => ~hungUp[g]
      BY <2>2 DEF LockInv, LockTypes
    <3>2. handle'[c] = h /\ locked'[c] = "write" /\ pc'[c] = "removing"
      BY <1>1, <2>1, <2>2 DEF TableTypes
    <3>3. \A d, g \in Conns : Holds(d, g, "write") /\ pc[d] = "removing" =>
            Holds(d, g, "write")' /\ pc'[d] = "removing"
      BY <1>1, <2>1, <2>2 DEF Holds, TableTypes
    <3> SUFFICES ASSUME NEW g \in Conns, g \in shut', ~hungUp'[g]
                 PROVE  \E d \in Conns :
                          Holds(d, g, "write")' /\ pc'[d] = "removing"
      BY DEF ShutIsHeld
    <3>4. CASE g = h
      BY <3>2, <3>4 DEF Holds
    <3>5. CASE g \in shut
      <4>1. PICK d \in Conns : Holds(d, g, "write") /\ pc[d] = "removing"
        BY <3>1, <3>5 DEF LockInv, ShutIsHeld
      <4> QED
        BY <3>3, <4>1
    <3> QED
      BY <2>1, <3>4, <3>5
  <2> QED
    BY <2>3, <2>4, <2>5, <2>6, <2>7 DEF LockInv
<1>3. CASE h \in shut
  <2>1. /\ UNCHANGED shut /\ pc' = [pc EXCEPT ![c] = "closed"]
    BY <1>1, <1>3 DEF CloseStart, T!CloseConn
  <2>2. Reply(c) /\ UNCHANGED hungUp
    BY <1>1, <2>1 DEF CloseStart, TableTypes
  <2>3. hungUp[h]
    <3>1. SUFFICES ASSUME ~hungUp[h] PROVE FALSE
      OBVIOUS
    <3>2. PICK d \in Conns : Holds(d, h, "write") /\ pc[d] = "removing"
      BY <1>1, <1>3, <3>1 DEF LockInv, ShutIsHeld
    <3>3. d = c
      BY <1>1, <3>2 DEF LockInv, Exclusion, Holds
    <3> QED
      BY <1>1, <3>2, <3>3
  <2>4. LockTypes'
    BY <1>1, <2>2 DEF LockInv, LockTypes, Reply
  <2>5. \A d \in Conns \ {c} : pc'[d] = pc[d]
    BY <2>1 DEF TableTypes
  <2>6. pc'[c] \notin {"resolved", "removing"}
    BY <2>1 DEF TableTypes
  <2> QED
    BY <1>1, <2>1, <2>2, <2>3, <2>4, <2>5, <2>6, ReleasingStep
<1> QED
  BY <1>2, <1>3

\* The other steps touch neither the lock nor who is where; the draining
\* goroutine may end.
LEMMA OtherStep ==
  ASSUME LockInv, UNCHANGED <<locked, op, hungUp, pc, handle, shut>>,
         drain' \in [Conns -> BOOLEAN], \A h \in Conns : drain'[h] => drain[h]
  PROVE  LockInv'
<1>1. LockTypes'
  BY DEF LockInv, LockTypes
<1>2. HolderFacts'
  BY DEF LockInv, HolderFacts
<1>3. Exclusion'
  BY DEF LockInv, Exclusion, Holds
<1>4. DrainIsHeld'
  BY DEF LockInv, DrainIsHeld, Holds
<1>5. ShutIsHeld'
  BY DEF LockInv, ShutIsHeld, Holds
<1> QED
  BY <1>1, <1>2, <1>3, <1>4, <1>5 DEF LockInv

LEMMA LockInvNext == LockInv /\ TableTypes /\ [Next]_vars => LockInv'
<1> SUFFICES ASSUME LockInv, TableTypes, [Next]_vars PROVE LockInv'
  OBVIOUS
<1>0. /\ drain \in [Conns -> BOOLEAN]
      /\ UNCHANGED lockVars => LockInv'
  BY OtherStep DEF LockInv, LockTypes, lockVars
<1>1. ASSUME NEW c \in Conns, Handler(c) PROVE LockInv'
  <2>1. CASE NewRequest(c)
    <3>1. locked[c] = "none" /\ pc'[c] # "removing"
      BY <2>1 DEF NewRequest, T!AllocateID, LockInv, HolderFacts, LockTypes,
                  TableTypes
    <3>2. LockTypes'
      BY <2>1 DEF NewRequest, LockInv, LockTypes, pipeVars
    <3>3. /\ UNCHANGED <<locked, drain, hungUp, shut>>
          /\ \A d \in Conns \ {c} :
               pc'[d] = pc[d] /\ op'[d] = op[d] /\ handle'[d] = handle[d]
      BY <2>1 DEF NewRequest, T!AllocateID, pipeVars, TableTypes, LockInv,
                  LockTypes
    <3> QED
      BY <3>1, <3>2, <3>3, UnlockedStep
  <2>2. CASE NewRequestStores(c)
    <3>1. locked[c] = "none" /\ pc'[c] # "removing"
      BY <2>2 DEF NewRequestStores, T!BeginStore, LockInv, HolderFacts,
                  LockTypes, TableTypes
    <3>2. LockTypes'
      BY <2>2 DEF NewRequestStores, LockInv, LockTypes, pipeVars, handlerVars
    <3>3. /\ UNCHANGED <<locked, drain, hungUp, shut>>
          /\ \A d \in Conns \ {c} :
               pc'[d] = pc[d] /\ op'[d] = op[d] /\ handle'[d] = handle[d]
      BY <2>2 DEF NewRequestStores, T!BeginStore, pipeVars, handlerVars,
                  TableTypes
    <3> QED
      BY <3>1, <3>2, <3>3, UnlockedStep
  <2>3. CASE NewRequestReplies(c)
    <3>1. locked[c] = "none" /\ pc'[c] # "removing"
      BY <2>3 DEF NewRequestReplies, T!EndStore, LockInv, HolderFacts,
                  LockTypes, TableTypes
    <3>2. LockTypes'
      BY <2>3 DEF NewRequestReplies, LockInv, LockTypes, pipeVars
    <3>3. /\ UNCHANGED <<locked, drain, hungUp, shut>>
          /\ \A d \in Conns \ {c} :
               pc'[d] = pc[d] /\ op'[d] = op[d] /\ handle'[d] = handle[d]
      BY <2>3 DEF NewRequestReplies, T!EndStore, pipeVars, TableTypes, LockInv,
                  LockTypes
    <3> QED
      BY <3>1, <3>2, <3>3, UnlockedStep
  <2>4. CASE Call(c)
    <3>1. locked[c] = "none" /\ pc'[c] # "removing"
      BY <2>4 DEF Call, T!Resolve, LockInv, HolderFacts, LockTypes, TableTypes
    <3>2. LockTypes'
      BY <2>4 DEF Call, NextCall, LockInv, LockTypes, pipeVars
    <3>3. /\ UNCHANGED <<locked, drain, hungUp, shut>>
          /\ \A d \in Conns \ {c} :
               pc'[d] = pc[d] /\ op'[d] = op[d] /\ handle'[d] = handle[d]
      BY <2>4 DEF Call, T!Resolve, pipeVars, TableTypes, LockInv, LockTypes
    <3> QED
      BY <3>1, <3>2, <3>3, UnlockedStep
  <2>5. CASE LockHandle(c)
    BY <2>5, LockingStep
  <2>6. CASE ClientWrite(c) \/ ClientRead(c) \/ ClientReadEOF(c)
    <3>1. /\ Reply(c) /\ UNCHANGED <<drain, hungUp, shut, handle>>
          /\ op[c] # "clientClose" /\ pc' = [pc EXCEPT ![c] = "open"]
      BY <2>6 DEF ClientWrite, ClientRead, ClientReadEOF, T!Serve, pipeVars
    <3>2. LockTypes'
      BY <3>1 DEF LockInv, LockTypes, Reply
    <3>3. /\ pc'[c] \notin {"resolved", "removing"}
          /\ \A d \in Conns \ {c} : pc'[d] = pc[d]
      BY <3>1 DEF TableTypes
    <3> QED
      BY <3>1, <3>2, <3>3, ReleasingStep
  <2>7. CASE CloseStart(c)
    BY <2>7, ClosingStep
  <2>8. CASE CloseEnd(c)
    <3>1. /\ Reply(c) /\ UNCHANGED <<drain, shut, handle>>
          /\ hungUp' = [hungUp EXCEPT ![handle[c]] = TRUE]
          /\ pc[c] = "removing" /\ pc' = [pc EXCEPT ![c] = "closed"]
      BY <2>8 DEF CloseEnd, T!Remove
    <3>2. LockTypes'
      BY <3>1 DEF LockInv, LockTypes, Reply
    <3>3. /\ pc'[c] \notin {"resolved", "removing"}
          /\ \A d \in Conns \ {c} : pc'[d] = pc[d]
      BY <3>1 DEF TableTypes
    <3>4. hungUp'[handle[c]] /\ \A h \in Conns : hungUp[h] => hungUp'[h]
      BY <3>1 DEF LockInv, LockTypes, TableTypes
    <3> QED
      BY <3>1, <3>2, <3>3, <3>4, ReleasingStep
  <2> QED
    BY <1>1, <2>1, <2>2, <2>3, <2>4, <2>5, <2>6, <2>7, <2>8 DEF Handler
<1>2. ASSUME NEW h \in Conns, Goroutine(h) PROVE LockInv'
  <2>1. CASE WriterEnters(h) \/ WriterFails(h) \/ DrainReads(h)
    BY <1>0, <2>1 DEF WriterEnters, WriterFails, DrainReads, tableVars,
                      handlerVars, lockVars
  <2>2. CASE DrainEnds(h)
    <3>1. /\ UNCHANGED <<locked, op, hungUp, pc, handle, shut>>
          /\ drain' = [drain EXCEPT ![h] = FALSE]
      BY <2>2 DEF DrainEnds, tableVars, handlerVars
    <3>2. drain' \in [Conns -> BOOLEAN] /\ \A g \in Conns : drain'[g] => drain[g]
      BY <1>0, <3>1
    <3> QED
      BY <3>1, <3>2, OtherStep
  <2> QED
    BY <1>2, <2>1, <2>2 DEF Goroutine
<1>3. ASSUME NEW h \in Conns, NEW why, Panic(h, why) PROVE LockInv'
  BY <1>0, <1>3 DEF Panic, T!TransferPanics, handlerVars, pipeVars, lockVars
<1>4. ASSUME NEW h \in Conns, NEW why, Take(h) \/ BreaksSession(h, why)
      PROVE  LockInv'
  BY <1>0, <1>4 DEF Take, BreaksSession, tableVars, handlerVars, lockVars
<1>5. ASSUME NEW h \in Conns, Transfer(h) PROVE LockInv'
  <2>1. CASE ServerReads(h) \/ AlertWritten(h)
    BY <1>3, <1>4, <2>1 DEF ServerReads, AlertWritten
  <2>2. CASE ServerReadFails(h)
    BY <1>3, <2>2 DEF ServerReadFails
  <2>3. CASE BackendAnswers(h)
    BY <1>0, <2>3 DEF BackendAnswers, tableVars, handlerVars, pipeVars, lockVars
  <2>4. CASE ServerWrites(h)
    BY <1>0, <1>3, <2>4 DEF ServerWrites, tableVars, handlerVars, lockVars
  <2>5. CASE ServerWrote(h)
    BY <1>0, <1>3, <2>5 DEF ServerWrote, tableVars, handlerVars, pipeVars,
                            lockVars
  <2> QED
    BY <1>5, <2>1, <2>2, <2>3, <2>4, <2>5 DEF Transfer
<1>6. ASSUME NEW c \in Conns, Environment(c) PROVE LockInv'
  <2>1. CASE BodyPasses(c) \/ ServerRejects(c)
    BY <1>3, <1>4, <2>1 DEF BodyPasses, ServerRejects
  <2>2. CASE BackendFails(c)
    BY <1>3, <2>2 DEF BackendFails
  <2>3. CASE NetworkFails(c)
    BY <1>0, <2>3 DEF NetworkFails, tableVars, handlerVars, pipeVars, lockVars
  <2>4. CASE MapFault(c)
    BY <1>0, <2>4 DEF MapFault, T!MapFault, handlerVars, pipeVars, lockVars
  <2> QED
    BY <1>6, <2>1, <2>2, <2>3, <2>4 DEF Environment
<1>7. CASE UNCHANGED vars
  BY <1>0, <1>7 DEF vars, tableVars, handlerVars, pipeVars, lockVars
<1> QED
  BY <1>1, <1>2, <1>5, <1>6, <1>7 DEF Next

\* The table and the handlers have the types ConnTable gives them.
LEMMA TableTypesHold == Spec => []TableTypes
<1>1. TP!ConnsAssumption
  BY TunnelAssumption DEF TP!ConnsAssumption, TP!IsFiniteSet, IsFiniteSet
<1>2. TP!Spec => []TP!TypeOK
  BY <1>1, TP!TypeCorrect, PTL
<1>3. TP!TypeOK => TableTypes
  BY DEF TP!TypeOK, TP!Phases, TableTypes, T!Phases
<1> QED
  BY <1>2, <1>3, TunnelIsTable, PTL

\* Whatever the table does, /clientRead and the goroutine with which /clientClose
\* drains the pipe never compete for a piece: the rwLock and the order of the two
\* halves of tls.Conn.Close see to it.
THEOREM ReadAndDrainExclude == Spec => []ReadNeverRacesDrain
<1>1. LockInv => ReadNeverRacesDrain
  BY DEF LockInv, DrainIsHeld, Exclusion, Holds, ReadNeverRacesDrain
<1> QED
  BY <1>1, LockInvInit, LockInvNext, TableTypesHold, PTL DEF Spec

=============================================================================
