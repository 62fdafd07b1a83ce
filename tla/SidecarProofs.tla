--------------------------- MODULE SidecarProofs ---------------------------
(***************************************************************************)
(* Theorems about the process of the sidecar, for every set of             *)
(* connections and configurations and every number of processes.           *)
(*                                                                         *)
(* A step of a running process is a step of ConnTable, for which           *)
(* ConnTableProofs has the invariant; what is left is the end of a process *)
(* and the start of the next one, on an empty table.                       *)
(***************************************************************************)
EXTENDS Sidecar, ConnTableProofs

ProcessInv == SidecarTypeOK /\ NeverHalfAlive

SInv == IInv /\ ProcessInv

-----------------------------------------------------------------------------
(***************************************************************************)
(* The table                                                               *)
(***************************************************************************)

\* A restart leaves an empty table, which is a good one.
LEMMA RestartKeepsTable == IInv /\ Restart => IInv'
<1> SUFFICES ASSUME IInv, Restart PROVE IInv'
  OBVIOUS
<1>1. PICK survivors \in SUBSET {c \in Conns : pc[c] = "open"} :
        /\ pc' = [c \in Conns |-> IF pc[c] = "idle" \/ c \in survivors
                                  THEN pc[c] ELSE "closed"]
        /\ orderly' = (survivors = {})
  BY DEF Restart
<1>2. /\ clientMap' = EmptyTable
      /\ handle' = [c \in Conns |-> NoHandle]
      /\ shut' = {} /\ refused' = {} /\ dead' = FALSE
      /\ connectionID' = connectionID
  BY DEF Restart
<1>3. DOMAIN clientMap' = {} /\ Handles' = {}
  BY <1>2 DEF EmptyTable, Handles
<1>4. IsFiniteSet(DOMAIN clientMap') /\ Cardinality(DOMAIN clientMap') = 0
  BY <1>3, FS_EmptySet
<1>5. \A c \in Conns : pc'[c] \in {"idle", "open", "closed"}
  BY <1>1
<1>6. TypeOK'
  BY <1>1, <1>2, <1>3, <1>4, <1>5 DEF IInv, TypeOK, Phases
<1>7. Pending' = {}
  BY <1>5 DEF Pending
<1>8. orderly' => Registered' = {}
  BY <1>1 DEF Registered
<1>9. DenseIDs'
  BY <1>2, <1>3, <1>4, <1>7 DEF DenseIDs
<1>10. OwnHandle'
  BY <1>5, <1>8 DEF OwnHandle
<1>11. TableIsRegistered' /\ NoSpurious404'
  BY <1>2, <1>3, <1>8 DEF TableIsRegistered, NoSpurious404
<1> QED
  BY <1>6, <1>9, <1>10, <1>11 DEF IInv, OrderlyInv

\* The end of a process changes nothing the invariant says.
LEMMA DeathKeepsTable == IInv /\ Dies => IInv'
<1> SUFFICES ASSUME IInv, Dies PROVE IInv'
  OBVIOUS
<1>1. /\ UNCHANGED <<clientMap, connectionID, pc, handle, shut, refused,
                     orderly>>
      /\ dead' = TRUE
  BY DEF Dies
<1>2. Handles' = Handles /\ Registered' = Registered /\ Pending' = Pending
  BY <1>1 DEF Handles, Registered, Pending
<1>3. TypeOK'
  BY <1>1, <1>2 DEF IInv, TypeOK
<1>4. OrderlyInv'
  BY <1>1, <1>2
  DEF IInv, OrderlyInv, DenseIDs, OwnHandle, TableIsRegistered, NoSpurious404
<1> QED
  BY <1>3, <1>4 DEF IInv

\* Every other step is one of ConnTable, or none.
LEMMA RunningIsConnTable ==
  ASSUME [SidecarNext]_sidecarVars
  PROVE  [Next]_vars \/ Dies \/ Restart
<1>1. CASE Main
  BY <1>1 DEF Main, ReadConfig, StartServer, Waits
<1>2. CASE \E s \in Servers : Listen(s)
  BY <1>2 DEF Listen
<1>3. CASE Ends
  BY <1>3 DEF Ends, Interrupt, RunFails
<1>4. ASSUME NEW c \in Conns, Tunnel(c) PROVE [Next]_vars
  BY <1>4 DEF Tunnel, Opens, Uses, TransferDies, Next
<1>5. CASE UNCHANGED sidecarVars
  BY <1>5 DEF sidecarVars
<1> QED
  BY <1>1, <1>2, <1>3, <1>4, <1>5 DEF SidecarNext

LEMMA TableInvStep == IInv /\ [SidecarNext]_sidecarVars => IInv'
BY NextIInv, RestartKeepsTable, DeathKeepsTable, RunningIsConnTable

-----------------------------------------------------------------------------
(***************************************************************************)
(* main and the servers                                                    *)
(***************************************************************************)

LEMMA SInvInit == SidecarInit => SInv
<1> SUFFICES ASSUME SidecarInit PROVE SInv
  OBVIOUS
<1>1. IInv
  BY InitIInv DEF SidecarInit
<1>2. SidecarTypeOK
  BY DEF SidecarInit, Init, SidecarTypeOK, MainSteps
<1>3. NeverHalfAlive
  BY DEF SidecarInit, NeverHalfAlive
<1> QED
  BY <1>1, <1>2, <1>3 DEF SInv, ProcessInv

\* A step that leaves main and the servers alone, and opens no connection.
LEMMA SameProcess ==
  ASSUME ProcessInv, UNCHANGED <<mainVars, since>>, dead' \/ ~dead,
         \A c \in Conns : pc'[c] # "idle" => pc[c] # "idle"
  PROVE  ProcessInv'
<1>1. UNCHANGED <<process, main, config, starting, listening, since>>
  BY DEF mainVars
<1>2. SidecarTypeOK'
  BY <1>1 DEF ProcessInv, SidecarTypeOK
<1>3. NeverHalfAlive'
  BY <1>1 DEF ProcessInv, NeverHalfAlive
<1> QED
  BY <1>2, <1>3 DEF ProcessInv

\* The tunnels do not open a connection except by /newRequest.
LEMMA UsesOpensNone ==
  ASSUME TypeOK, NEW c \in Conns, Uses(c) \/ TransferDies(c)
  PROVE  /\ dead' \/ ~dead
         /\ UNCHANGED <<mainVars, since>>
         /\ \A d \in Conns : pc'[d] # "idle" => pc[d] # "idle"
<1>1. UNCHANGED <<mainVars, since>>
  BY DEF Uses, TransferDies
<1>2. CASE \/ BeginStore(c) \/ EndStore(c) \/ Resolve(c) \/ Serve(c)
           \/ CloseConn(c) \/ Remove(c)
  <2>1. ~dead /\ pc[c] # "idle"
    BY <1>2 DEF BeginStore, EndStore, Resolve, Serve, CloseConn, Remove
  <2>2. \A d \in Conns : d # c => pc'[d] = pc[d]
    BY <1>2
    DEF TypeOK, BeginStore, EndStore, Resolve, Serve, CloseConn, Remove
  <2> QED
    BY <1>1, <2>1, <2>2
<1>3. CASE MapFault(c) \/ TransferPanics(c)
  BY <1>1, <1>3 DEF MapFault, TransferPanics
<1> QED
  BY <1>2, <1>3 DEF Uses, TransferDies

LEMMA ProcessStep ==
  ASSUME SInv, [SidecarNext]_sidecarVars PROVE ProcessInv'
<1>0. ProcessInv /\ TypeOK
  BY DEF SInv, IInv
<1> USE <1>0 DEF MainSteps, Servers
<1>1. CASE Dies
  BY <1>1, SameProcess DEF Dies
<1>2. CASE ReadConfig /\ ~Dies
  <2>1. PICK g \in Configs :
          /\ Usable(g) /\ config' = g
          /\ main = "config" /\ main' = "request"
          /\ UNCHANGED <<vars, process, starting, listening, since>>
    BY <1>2 DEF ReadConfig
  <2>2. UNCHANGED <<pc, dead, since>>
    BY <2>1 DEF vars
  <2>3. SidecarTypeOK'
    <3>1. /\ config'.trusted = {"cert"}
          /\ config'.cert = "cert" /\ config'.key = "rsa"
      BY <2>1, SidecarAssumption
      DEF Usable, ParsesAsCert, ParsesAsKey, ConfigType
    <3> QED
      BY <2>1, <2>2, <3>1 DEF ProcessInv, SidecarTypeOK
  <2>4. NeverHalfAlive'
    BY <2>1 DEF NeverHalfAlive
  <2> QED
    BY <2>3, <2>4 DEF ProcessInv
<1>3. ASSUME NEW s \in Servers, StartServer(s) PROVE ProcessInv'
  <2>1. /\ main = s /\ starting' = starting \cup {s}
        /\ main' = IF s = "request" THEN "wrap" ELSE "notify"
        /\ UNCHANGED <<process, config, listening, pc, dead, since>>
    BY <1>3 DEF StartServer, vars
  <2>2. SidecarTypeOK'
    BY <2>1 DEF ProcessInv, SidecarTypeOK
  <2>3. NeverHalfAlive'
    BY <2>1 DEF ProcessInv, NeverHalfAlive
  <2> QED
    BY <2>2, <2>3 DEF ProcessInv
<1>4. ASSUME NEW s \in Servers, Listen(s) PROVE ProcessInv'
  <2>1. /\ s \in starting /\ starting' = starting \ {s}
        /\ listening' = listening \cup {s}
        /\ UNCHANGED <<process, main, config, pc, dead, since>>
    BY <1>4 DEF Listen, vars
  <2>2. SidecarTypeOK'
    BY <2>1 DEF ProcessInv, SidecarTypeOK
  <2>3. NeverHalfAlive'
    BY <2>1 DEF ProcessInv, NeverHalfAlive
  <2> QED
    BY <2>2, <2>3 DEF ProcessInv
<1>5. CASE Waits
  <2>1. /\ main \in {"notify", "receive"} /\ main' \in {"receive", "waiting"}
        /\ UNCHANGED <<process, config, starting, listening, pc, dead, since>>
    BY <1>5 DEF Waits, vars
  <2>2. SidecarTypeOK'
    BY <2>1 DEF ProcessInv, SidecarTypeOK
  <2>3. NeverHalfAlive'
    BY <2>1 DEF ProcessInv, NeverHalfAlive
  <2> QED
    BY <2>2, <2>3 DEF ProcessInv
<1>6. ASSUME NEW c \in Conns, Opens(c) PROVE ProcessInv'
  <2>1. /\ "request" \in listening /\ ~dead /\ pc[c] = "idle"
        /\ pc' = [pc EXCEPT ![c] = "allocated"]
        /\ since' = [since EXCEPT ![c] = process]
        /\ UNCHANGED <<process, main, config, starting, listening, dead>>
    BY <1>6 DEF Opens, AllocateID, mainVars
  <2>2. main # "config" /\ process \in 0 .. process
    BY <2>1 DEF ProcessInv, SidecarTypeOK
  <2>3. SidecarTypeOK'
    BY <2>1, <2>2 DEF ProcessInv, SidecarTypeOK
  <2>4. NeverHalfAlive'
    BY <2>1 DEF ProcessInv, NeverHalfAlive
  <2> QED
    BY <2>3, <2>4 DEF ProcessInv
<1>7. ASSUME NEW c \in Conns, Uses(c) \/ TransferDies(c) PROVE ProcessInv'
  BY <1>7, UsesOpensNone, SameProcess
<1>8. CASE Restart
  <2>1. /\ main' = "config" /\ config' = NoConfig /\ process' = process + 1
        /\ starting' = {} /\ listening' = {} /\ since' = since
    BY <1>8 DEF Restart
  <2>2. \A c \in Conns : since[c] \in 0 .. process'
                         /\ since[c] # process'
    BY <2>1 DEF ProcessInv, SidecarTypeOK
  <2>3. SidecarTypeOK'
    BY <2>1, <2>2 DEF ProcessInv, SidecarTypeOK
  <2>4. NeverHalfAlive'
    BY <2>1 DEF NeverHalfAlive
  <2> QED
    BY <2>3, <2>4 DEF ProcessInv
<1>9. CASE UNCHANGED sidecarVars
  <2>1. UNCHANGED <<mainVars, since, pc, dead>>
    BY <1>9 DEF sidecarVars, vars
  <2> QED
    BY <2>1, SameProcess
<1> QED
  BY <1>1, <1>2, <1>3, <1>4, <1>5, <1>6, <1>7, <1>8, <1>9
  DEF SidecarNext, Main, Ends, Interrupt, RunFails, Tunnel

-----------------------------------------------------------------------------
(***************************************************************************)
(* The theorems                                                            *)
(***************************************************************************)

THEOREM SInvHolds == SidecarSpec => []SInv
<1>1. SInv /\ [SidecarNext]_sidecarVars => SInv'
  BY TableInvStep, ProcessStep DEF SInv
<1> QED
  BY <1>1, SInvInit, PTL DEF SidecarSpec

\* The types, in every process.
THEOREM SidecarTypeCorrect == SidecarSpec => [](TypeOK /\ SidecarTypeOK)
<1>1. SInv => TypeOK /\ SidecarTypeOK
  BY DEF SInv, IInv, ProcessInv
<1> QED
  BY <1>1, SInvHolds, PTL

\* What ConnTableProofs shows of one process holds of every process in a row: as
\* long as no client survives a restart, and requests are orderly otherwise,
\* every call is served by the handle its own /newRequest created, the table is
\* exact and no call is told its connection does not exist.
THEOREM TableSurvivesRestarts ==
  SidecarSpec => [](DenseIDs /\ OwnHandle /\ TableIsRegistered /\ NoSpurious404)
<1>1. SInv => DenseIDs /\ OwnHandle /\ TableIsRegistered /\ NoSpurious404
  BY DEF SInv, IInv, OrderlyInv
<1> QED
  BY <1>1, SInvHolds, PTL

\* No server of a process is missing as long as the process is there.
THEOREM ServersLiveTogether == SidecarSpec => []NeverHalfAlive
<1>1. SInv => NeverHalfAlive
  BY DEF SInv, ProcessInv
<1> QED
  BY <1>1, SInvHolds, PTL

=============================================================================
