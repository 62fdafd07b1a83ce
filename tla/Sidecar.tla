------------------------------ MODULE Sidecar ------------------------------
(***************************************************************************)
(* The process of the sidecar (cmd/main.go), and what its end and its next *)
(* start do to the connection table of ConnTable.                          *)
(*                                                                         *)
(* main reads the certificates and the key of the configuration            *)
(* (config/cert_kv.go, cert_manager/cert_utils.go), starts the server of   *)
(* the tunnels (:9090) and that of /wrap (:18080) in goroutines of their   *)
(* own and waits for an interrupt.  Every error is a panic, and a panic    *)
(* anywhere ends the process; that of a handshake or of DoTransfer is      *)
(* TransferPanics of ConnTable.  The table is in memory only, so a new     *)
(* process counts its ids from 0 again; the clients are other processes,   *)
(* and those that are between two calls do not notice the restart.         *)
(***************************************************************************)
EXTENDS ConnTable

CONSTANTS
  Configs,   \* what the configuration may say when a process starts
  NoConfig,  \* it has not been read
  Processes  \* bound: how many processes there are, one after another

(***************************************************************************)
(* What a value of the configuration contains: "cert" is a PEM block with  *)
(* a certificate, "rsa" and "ec" one with a PKCS #8 key, "other" anything  *)
(* else, no PEM block included.                                            *)
(***************************************************************************)
Values == {"cert", "rsa", "ec", "other"}

ConfigType == [trusted : SUBSET Values, cert : Values, key : Values]

ASSUME SidecarAssumption ==
  /\ Configs \subseteq ConfigType
  /\ NoConfig \notin Configs
  /\ Processes \in Nat

VARIABLES
  process,   \* the number of the process that runs, or ran last
  main,      \* what main does next, see MainSteps
  config,    \* what ReadAndParse made of the configuration
  starting,  \* the servers whose goroutine runs, but does not listen yet
  listening, \* the servers that accept calls
  since      \* the process each connection was opened in

mainVars    == <<process, main, config, starting, listening>>
sidecarVars == <<vars, mainVars, since>>

MainSteps == {"config", "request", "wrap", "notify", "receive", "waiting"}
Servers   == {"request", "wrap"}

EmptyTable == [i \in {} |-> NoHandle]

SidecarInit ==
  /\ Init
  /\ process = 0
  /\ main = "config"
  /\ config = NoConfig
  /\ starting = {}
  /\ listening = {}
  /\ since = [c \in Conns |-> 0]

-----------------------------------------------------------------------------
(***************************************************************************)
(* main                                                                    *)
(***************************************************************************)

\* The process ends; its table is as it was until a new process starts.
Dies ==
  /\ ~dead
  /\ dead' = TRUE
  /\ UNCHANGED <<clientMap, connectionID, pc, handle, shut, refused, orderly>>
  /\ UNCHANGED <<mainVars, since>>

\* ReadAndParse of a certificate and of a key, without a panic.
ParsesAsCert(v) == v = "cert"
ParsesAsKey(v)  == v = "rsa"

\* Mutant: the first trusted certificate is not taken.
UsableWithoutTrust(g) ==
  /\ \A v \in g.trusted : ParsesAsCert(v)
  /\ ParsesAsCert(g.cert)
  /\ ParsesAsKey(g.key)

\* The last step before the servers takes the first trusted certificate.
Usable(g) ==
  /\ \A v \in g.trusted : ParsesAsCert(v)
  /\ ParsesAsCert(g.cert)
  /\ ParsesAsKey(g.key)
  /\ g.trusted # {}

ReadConfig ==
  /\ main = "config"
  /\ \E g \in Configs :
       \/ ~Usable(g) /\ Dies
       \/ /\ ~dead
          /\ Usable(g)
          /\ config' = g
          /\ main' = "request"
          /\ UNCHANGED <<vars, process, starting, listening, since>>

\* The goroutines of the servers are started, one after the other.
StartServer(s) ==
  /\ ~dead
  /\ main = s
  /\ starting' = starting \cup {s}
  /\ main' = IF s = "request" THEN "wrap" ELSE "notify"
  /\ UNCHANGED <<vars, process, config, listening, since>>

\* engine.Run and wrapEngine.Run.
Listen(s) ==
  /\ ~dead
  /\ s \in starting
  /\ starting' = starting \ {s}
  /\ listening' = listening \cup {s}
  /\ UNCHANGED <<vars, process, main, config, since>>

\* Mutant: a server that cannot run only logs its error.
RunFailsSilently(s) ==
  /\ ~dead
  /\ s \in starting
  /\ starting' = starting \ {s}
  /\ UNCHANGED <<vars, process, main, config, listening, since>>

\* The port is taken, or a server that runs fails: the goroutine panics.
RunFails(s) == s \in starting \cup listening /\ Dies

\* signal.Notify, and the receive from sigChan.
Waits ==
  /\ ~dead
  /\ \/ main = "notify" /\ main' = "receive"
     \/ main = "receive" /\ main' = "waiting"
  /\ UNCHANGED <<vars, process, config, starting, listening, since>>

\* An interrupt ends the process, by its default action before Notify and by
\* the end of main in the receive.  In between it is lost: sigChan has no buffer.
Interrupt == main # "receive" /\ Dies

-----------------------------------------------------------------------------
(***************************************************************************)
(* The tunnels of one process                                              *)
(***************************************************************************)

Opens(c) ==
  /\ "request" \in listening
  /\ AllocateID(c)
  /\ since' = [since EXCEPT ![c] = process]
  /\ UNCHANGED mainVars

\* The other accesses of the table.
Uses(c) ==
  /\ "request" \in listening
  /\ \/ BeginStore(c) \/ EndStore(c) \/ Resolve(c) \/ Serve(c)
     \/ CloseConn(c) \/ Remove(c) \/ MapFault(c)
  /\ UNCHANGED <<mainVars, since>>

\* DoTransfer, on a connection this process opened.
TransferDies(c) ==
  /\ since[c] = process
  /\ TransferPanics(c)
  /\ UNCHANGED <<mainVars, since>>

-----------------------------------------------------------------------------
(***************************************************************************)
(* Another process takes the place of a dead one.  Of the clients with a   *)
(* connection, those in a call see it fail and end, and so may the others; *)
(* some, survivors, keep their id and make their next call to the new      *)
(* process.  The table is orderly only if there are none.                  *)
(***************************************************************************)

Restart ==
  /\ dead
  /\ process + 1 < Processes
  /\ process' = process + 1
  /\ \E survivors \in SUBSET {c \in Conns : pc[c] = "open"} :
       /\ pc' = [c \in Conns |-> IF pc[c] = "idle" \/ c \in survivors
                                 THEN pc[c] ELSE "closed"]
       /\ orderly' = (survivors = {})
  /\ clientMap' = EmptyTable
  /\ handle' = [c \in Conns |-> NoHandle]
  /\ shut' = {}
  /\ refused' = {}
  /\ dead' = FALSE
  /\ main' = "config"
  /\ config' = NoConfig
  /\ starting' = {}
  /\ listening' = {}
  /\ UNCHANGED <<connectionID, since>>

-----------------------------------------------------------------------------
Main ==
  \/ ReadConfig
  \/ \E s \in Servers : StartServer(s)
  \/ Waits

Ends == Interrupt \/ \E s \in Servers : RunFails(s)

Tunnel(c) == Opens(c) \/ Uses(c) \/ TransferDies(c)

SidecarNext ==
  \/ Main
  \/ \E s \in Servers : Listen(s)
  \/ Ends
  \/ \E c \in Conns : Tunnel(c)
  \/ Restart

SidecarSpec == SidecarInit /\ [][SidecarNext]_sidecarVars

-----------------------------------------------------------------------------
(***************************************************************************)
(* Properties.  TypeOK, DenseIDs, OwnHandle, TableIsRegistered and         *)
(* NoSpurious404 of ConnTable are properties of this system too, for       *)
(* processes that replace each other.                                      *)
(***************************************************************************)

\* The types of the variables; a server is only started, and a connection only
\* opened, in a process whose configuration has a certificate and a key, and a
\* certificate of a trusted deployment, at each place it is read from.
SidecarTypeOK ==
  /\ process \in Nat
  /\ main \in MainSteps
  /\ config \in Configs \cup {NoConfig}
  /\ main # "config" =>
       /\ config \in Configs
       /\ config.trusted = {"cert"} /\ config.cert = "cert" /\ config.key = "rsa"
  /\ starting \subseteq Servers /\ listening \subseteq Servers
  /\ starting \cup listening # {} => main # "config"
  /\ since \in [Conns -> 0 .. process]
  /\ \A c \in Conns : since[c] = process /\ pc[c] # "idle" => main # "config"

\* The sidecar is never half alive: a server that main has started is running, or
\* about to, as long as the process is there.
NeverHalfAlive ==
  ~dead =>
    /\ main \notin {"config", "request"} => "request" \in starting \cup listening
    /\ main \notin {"config", "request", "wrap"} =>
         "wrap" \in starting \cup listening

\* A connection that does not exist in this process, because it was opened in an
\* earlier one, is refused: "connection id:%d does not exist".
StaleIDsAreRefused ==
  \A c \in Conns : pc[c] \in {"resolved", "removing"} => since[c] = process

=============================================================================
