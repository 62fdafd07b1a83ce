------------------------------ MODULE Callers ------------------------------
(***************************************************************************)
(* The callers of the tunnels, and what travels with a request.            *)
(*   - /wrap (http_handler/server_main.go and ws_handler/server_main.go):  *)
(*     an application asks its sidecar to call a service of a deployment.  *)
(*   - tlsRequest (cmd/wasm/main.go): a page asks for a call with the      *)
(*     certificate of its user, and gets a promise (wasm/promise.go).      *)
(*   - At the other end, DoTransfer (transfer.go) says in the headers who  *)
(*     calls (trust_center/identity.go) and has the backend execute.       *)
(*                                                                         *)
(* In between is a tunnel, as RemoteCall promises it.  Some of its         *)
(* failures are panics: gin recovers one in /wrap, but one in the          *)
(* goroutine of a promise ends the program, with all promises of the page, *)
(* and one in DoTransfer ends the remote sidecar, if the tunnel is HTTP.   *)
(***************************************************************************)
CONSTANTS
  WrapCalls,      \* the requests to /wrap
  BrowserCalls,   \* the calls of tlsRequest, by one page
  Deploys,        \* the deployments an application may name
  DeployHostMap,  \* the host of each deployment the sidecar knows
  Services,       \* the services; a sidecar is a host and a service
  Peers,          \* who a certificate can name: a deployment and a service
  SelfPeer,       \* who the certificate of the sidecar of /wrap names
  NoPeer,         \* a certificate, or a header, that names nobody
  Identities,     \* the values of X-Identity-Type, "" when it is missing
  WrapInputs,     \* what an application may ask for
  BrowserInputs,  \* what a page may ask for
  NoInput,        \* before the call
  NoSidecar       \* no tunnel was opened

Calls    == WrapCalls \cup BrowserCalls
Sidecars == {DeployHostMap[d] : d \in DOMAIN DeployHostMap} \X Services
Tunnels  == {"ws", "http", "other"}

(***************************************************************************)
(* from is X-From-Deploy and X-From-Service.  In an input, headers is what *)
(* the caller sends, valid says whether http.NewRequest takes method and   *)
(* URL, tunnel is the scheme ("other" is one there is no tunnel for), and  *)
(* peer is who the certificate of the user names.                          *)
(***************************************************************************)
HeadersType == [identity : Identities, from : Peers \cup {NoPeer}]

WrapInputType == [deploy : Deploys, service : Services, valid : BOOLEAN,
                  tunnel : Tunnels \ {"other"}, headers : HeadersType]

BrowserInputType == [sidecar : Sidecars, valid : BOOLEAN, tunnel : Tunnels,
                     headers : HeadersType, peer : Peers \cup {NoPeer}]

ASSUME CallersAssumption ==
  /\ WrapCalls \cap BrowserCalls = {}
  /\ {"", "cert-rpc", "user-anonymous"} \subseteq Identities
  /\ SelfPeer \in Peers
  /\ NoPeer \notin Peers
  /\ WrapInputs \subseteq WrapInputType
  /\ BrowserInputs \subseteq BrowserInputType
  /\ NoInput \notin WrapInputs \cup BrowserInputs
  /\ NoSidecar \notin Sidecars

VARIABLES
  input,      \* what the caller asked for
  caller,     \* "idle", "spawned", "calling" or "over"
  result,     \* "none"; of /wrap "404", "400", "500", "answer"; of a promise
              \*   "rejected", "resolved"
  exited,     \* the program of the page has ended
  sidecar,    \* the sidecar the tunnel leads to
  panicked,   \* the tunnel failed with a panic
  headers,    \* the headers of the request, wherever it is
  passed,     \* the waits without timeout that the call has behind it: "dial",
              \*   "body"
  cut,        \* the calls whose tunnel ended with the process of the sidecar
  down,       \* the sidecars whose process has ended
  executedBy, \* of RemoteCall
  outcome     \* of RemoteCall

linkVars   == <<passed, cut, down>>
callVars   == <<executedBy, outcome, linkVars>>
callerVars == <<input, caller, result, exited>>
vars       == <<callerVars, sidecar, panicked, headers, callVars>>

\* Each call that gets there has a run of DoTransfer of its own.
RC == INSTANCE RemoteCall WITH Servers <- Sidecars \X Calls

NoHeaders == [identity |-> "", from |-> NoPeer]

Init ==
  /\ input = [c \in Calls |-> NoInput]
  /\ caller = [c \in Calls |-> "idle"]
  /\ result = [c \in Calls |-> "none"]
  /\ exited = FALSE
  /\ sidecar = [c \in Calls |-> NoSidecar]
  /\ panicked = [c \in Calls |-> FALSE]
  /\ headers = [c \in Calls |-> NoHeaders]
  /\ passed = [c \in Calls |-> {}]
  /\ cut = {}
  /\ down = {}
  /\ RC!Init

Returns(c, what) ==
  /\ caller' = [caller EXCEPT ![c] = "over"]
  /\ result' = [result EXCEPT ![c] = what]

OpensTunnel(c, s) ==
  /\ caller' = [caller EXCEPT ![c] = "calling"]
  /\ sidecar' = [sidecar EXCEPT ![c] = s]

-----------------------------------------------------------------------------
(***************************************************************************)
(* /wrap                                                                   *)
(***************************************************************************)

\* Mutant: no return after the 404.
WrapContinues(c) ==
  /\ caller[c] = "idle"
  /\ \E i \in WrapInputs :
       /\ input' = [input EXCEPT ![c] = i]
       /\ \E s \in Sidecars : OpensTunnel(c, s)
       /\ result' = [result EXCEPT ![c] =
            IF i.deploy \in DOMAIN DeployHostMap THEN @ ELSE "404"]
       /\ headers' = [headers EXCEPT ![c] = i.headers]
  /\ UNCHANGED <<exited, panicked, callVars>>

\* The request to /wrap, up to NewWSClient or NewHttpClient.
Wrap(c) ==
  /\ caller[c] = "idle"
  /\ \E i \in WrapInputs :
       /\ input' = [input EXCEPT ![c] = i]
       /\ \/ /\ i.deploy \notin DOMAIN DeployHostMap
             /\ Returns(c, "404")
             /\ UNCHANGED <<sidecar, headers>>
          \/ /\ i.deploy \in DOMAIN DeployHostMap
             /\ ~i.valid
             /\ Returns(c, "400")
             /\ UNCHANGED <<sidecar, headers>>
          \/ /\ i.deploy \in DOMAIN DeployHostMap
             /\ i.valid
             /\ OpensTunnel(c, <<DeployHostMap[i.deploy], i.service>>)
             /\ headers' = [headers EXCEPT ![c] =
                  [i.headers EXCEPT !.identity = "cert-rpc"]]
             /\ UNCHANGED result
  /\ UNCHANGED <<exited, panicked, callVars>>

\* The answer is passed on; an error, and a panic that gin recovers, is a 500.
WrapReturns(c) ==
  /\ caller[c] = "calling"
  /\ \/ outcome[c] = "done" /\ Returns(c, "answer")
     \/ outcome[c] = "failed" /\ Returns(c, "500")
  /\ UNCHANGED <<input, exited, sidecar, panicked, headers, callVars>>

-----------------------------------------------------------------------------
(***************************************************************************)
(* tlsRequest and its promise                                              *)
(***************************************************************************)

\* The part of tlsRequest before the promise; a panic ends the program.
TLSRequest(c) ==
  /\ ~exited
  /\ caller[c] = "idle"
  /\ \E i \in BrowserInputs :
       /\ input' = [input EXCEPT ![c] = i]
       /\ headers' = [headers EXCEPT ![c] = i.headers]
       /\ \/ ~i.valid /\ exited' = TRUE /\ UNCHANGED caller
          \/ /\ i.valid
             /\ caller' = [caller EXCEPT ![c] = "spawned"]
             /\ UNCHANGED exited
  /\ UNCHANGED <<result, sidecar, panicked, callVars>>

\* Mutant: no default case for the scheme.
RunPromiseAnyScheme(c) ==
  /\ ~exited
  /\ caller[c] = "spawned"
  /\ \/ /\ input[c].tunnel = "other"
        /\ caller' = [caller EXCEPT ![c] = "calling"]
        /\ UNCHANGED sidecar
     \/ /\ input[c].tunnel # "other"
        /\ OpensTunnel(c, input[c].sidecar)
  /\ UNCHANGED <<input, result, exited, panicked, headers, callVars>>

\* The goroutine of the promise, up to NewWSClient or NewHttpClient.
RunPromise(c) ==
  /\ ~exited
  /\ caller[c] = "spawned"
  /\ \/ /\ input[c].tunnel = "other"
        /\ exited' = TRUE
        /\ UNCHANGED <<caller, sidecar>>
     \/ /\ input[c].tunnel # "other"
        /\ OpensTunnel(c, input[c].sidecar)
        /\ UNCHANGED exited
  /\ UNCHANGED <<input, result, panicked, headers, callVars>>

\* Mutant: the error of the tunnel is not handed to reject.
SettleForgetsReject(c) ==
  /\ ~exited
  /\ caller[c] = "calling"
  /\ outcome[c] = "done"
  /\ Returns(c, "resolved")
  /\ UNCHANGED <<input, exited, sidecar, panicked, headers, callVars>>

\* The rest of it: resolve, reject, or a panic nobody recovers.
Settle(c) ==
  /\ ~exited
  /\ caller[c] = "calling"
  /\ \/ outcome[c] = "done" /\ Returns(c, "resolved") /\ UNCHANGED exited
     \/ /\ outcome[c] = "failed" /\ ~panicked[c]
        /\ Returns(c, "rejected")
        /\ UNCHANGED exited
     \/ /\ outcome[c] = "failed" /\ panicked[c]
        /\ exited' = TRUE
        /\ UNCHANGED <<caller, result>>
  /\ UNCHANGED <<input, sidecar, panicked, headers, callVars>>

-----------------------------------------------------------------------------
(***************************************************************************)
(* The other end, and the tunnel                                           *)
(***************************************************************************)

\* Who the certificate of the caller names.
Peer(c) == IF c \in WrapCalls THEN SelfPeer ELSE input[c].peer

\* Mutant: what the caller says of itself is kept.
HandleIdentityKeepsFrom(h, peer) ==
  CASE h.identity = ""                            ->
         [h EXCEPT !.identity = "user-anonymous"]
    [] h.identity = "cert-rpc" /\ h.from = NoPeer -> [h EXCEPT !.from = peer]
    [] OTHER                                      -> h

HandleIdentity(h, peer) ==
  CASE h.identity = ""         -> [h EXCEPT !.identity = "user-anonymous"]
    [] h.identity = "cert-rpc" -> [h EXCEPT !.from = peer]
    [] OTHER                   -> h

\* The name of a peer without organizational unit is an index out of range.
Unnamed(c) == headers[c].identity = "cert-rpc" /\ Peer(c) = NoPeer

\* DoTransfer runs, whether or not the caller still waits.
InTransfer(c) ==
  /\ "dial" \in passed[c]
  /\ c \notin cut
  /\ executedBy[c] = {}

\* The request gets to the backend.
DoTransfer(c) ==
  /\ InTransfer(c)
  /\ ~Unnamed(c)
  /\ RC!Execute(c, <<sidecar[c], c>>)
  /\ headers' = [headers EXCEPT ![c] = HandleIdentity(@, Peer(c))]
  /\ UNCHANGED <<callerVars, sidecar, panicked, linkVars>>

\* DoTransfer panics.  Over the websocket gin recovers it, and the tunnel ends;
\* over HTTP it ends the process, with every tunnel it has.
TransferPanics(c) ==
  /\ InTransfer(c)
  /\ Unnamed(c)
  /\ \/ /\ input[c].tunnel = "ws"
        /\ cut' = cut \cup {c}
        /\ UNCHANGED down
     \/ /\ input[c].tunnel = "http"
        /\ cut' = cut \cup {d \in Calls : sidecar[d] = sidecar[c]
                                          /\ "dial" \in passed[d]}
        /\ down' = down \cup {sidecar[c]}
  /\ UNCHANGED <<callerVars, sidecar, panicked, headers, passed, executedBy,
                 outcome>>

\* The process of a sidecar is started again.
Restarts(s) ==
  /\ s \in down
  /\ down' = down \ {s}
  /\ UNCHANGED <<callerVars, sidecar, panicked, headers, passed, cut, executedBy,
                 outcome>>

\* The code of a tunnel runs in the program of its caller.
InTunnel(c) ==
  /\ caller[c] = "calling"
  /\ outcome[c] = "active"
  /\ c \in BrowserCalls => ~exited

\* websocket.Dial, or MockClientConn.Init, gets to the sidecar.  The body of a
\* page is in memory, that of /wrap comes from the application.
Connects(c) ==
  /\ InTunnel(c)
  /\ passed[c] = {}
  /\ sidecar[c] \notin down
  /\ passed' = [passed EXCEPT ![c] =
       IF c \in BrowserCalls THEN {"dial", "body"} ELSE {"dial"}]
  /\ UNCHANGED <<callerVars, sidecar, panicked, headers, cut, down, executedBy,
                 outcome>>

\* The application has supplied its request to the end.
BodyRead(c) ==
  /\ InTunnel(c)
  /\ passed[c] = {"dial"}
  /\ passed' = [passed EXCEPT ![c] = @ \cup {"body"}]
  /\ UNCHANGED <<callerVars, sidecar, panicked, headers, cut, down, executedBy,
                 outcome>>

TunnelAnswers(c) ==
  /\ InTunnel(c)
  /\ RC!Answer(c)
  /\ UNCHANGED <<callerVars, sidecar, panicked, headers, linkVars>>

TunnelFails(c) ==
  /\ InTunnel(c)
  /\ RC!Fail(c)
  /\ \E b \in BOOLEAN : panicked' = [panicked EXCEPT ![c] = b]
  /\ UNCHANGED <<callerVars, sidecar, headers, linkVars>>

-----------------------------------------------------------------------------
Next ==
  \/ \E c \in WrapCalls : Wrap(c) \/ WrapReturns(c)
  \/ \E c \in BrowserCalls : TLSRequest(c) \/ RunPromise(c) \/ Settle(c)
  \/ \E c \in Calls : \/ Connects(c) \/ BodyRead(c)
                       \/ DoTransfer(c) \/ TransferPanics(c)
                       \/ TunnelAnswers(c) \/ TunnelFails(c)
  \/ \E s \in Sidecars : Restarts(s)

Spec == Init /\ [][Next]_vars

(***************************************************************************)
(* Handlers and goroutines run.  A call over a websocket comes to its end  *)
(* once nothing is left to wait for but the websocket (ClientEnds of       *)
(* WsTunnel); the HTTP tunnel does not promise that.                       *)
(***************************************************************************)
WsTunnelEnds(c) ==
  /\ passed[c] = {"dial", "body"} /\ input[c].tunnel = "ws"
  /\ TunnelAnswers(c) \/ TunnelFails(c)

FairSpec ==
  /\ Spec
  /\ \A c \in WrapCalls : WF_vars(WrapReturns(c))
  /\ \A c \in BrowserCalls : WF_vars(RunPromise(c)) /\ WF_vars(Settle(c))
  /\ \A c \in Calls : WF_vars(WsTunnelEnds(c))

-----------------------------------------------------------------------------
(***************************************************************************)
(* Properties                                                              *)
(***************************************************************************)

\* The types of the variables; who is in a tunnel has opened it to a sidecar.
TypeOK ==
  /\ input \in [Calls -> WrapInputs \cup BrowserInputs \cup {NoInput}]
  /\ caller \in [Calls -> {"idle", "spawned", "calling", "over"}]
  /\ result \in [Calls -> {"none", "404", "400", "500", "answer",
                           "rejected", "resolved"}]
  /\ exited \in BOOLEAN
  /\ sidecar \in [Calls -> Sidecars \cup {NoSidecar}]
  /\ \A c \in Calls : caller[c] = "calling" => sidecar[c] # NoSidecar
  /\ panicked \in [Calls -> BOOLEAN]
  /\ headers \in [Calls -> HeadersType]
  /\ passed \in [Calls -> SUBSET {"dial", "body"}]
  /\ cut \subseteq Calls
  /\ down \subseteq Sidecars
  /\ executedBy \in [Calls -> SUBSET (Sidecars \X Calls)]
  /\ outcome \in [Calls -> {"active", "done", "failed"}]

\* A backend that is told "cert-rpc" is told who calls by the certificate of the
\* caller, whatever headers came with the request, and never executes for a
\* certificate that names nobody; of a request that came through /wrap it is
\* always told so.
RpcNamesThePeer ==
  \A c \in Calls : executedBy[c] # {} =>
    /\ headers[c].identity = "cert-rpc" =>
         headers[c].from = Peer(c) /\ Peer(c) # NoPeer
    /\ c \in WrapCalls =>
         headers[c] = [identity |-> "cert-rpc", from |-> SelfPeer]

\* An application that gets an answer gets it from a backend behind the sidecar
\* of the deployment and service it named; one that gets 404 or 400 knows that
\* its request is not executed anywhere, now or later.  A 500 says neither.
ResultIsOfTarget ==
  \A c \in WrapCalls :
    /\ result[c] = "answer" =>
         executedBy[c] =
           {<< <<DeployHostMap[input[c].deploy], input[c].service>>, c>>}
    /\ result[c] \in {"404", "400"} => executedBy[c] = {}

\* A call over a websocket is answered to the application, and its promise is
\* settled unless the program of the page has ended, or its tunnel waits for ever
\* where it has no timeout: for the dial, or for the application to go on with
\* its request.
Settles ==
  \A c \in Calls :
    caller[c] \in {"spawned", "calling"} /\ input[c].tunnel # "http"
      ~> \/ caller[c] = "over"
         \/ c \in BrowserCalls /\ exited
         \/ [](InTunnel(c) /\ passed[c] # {"dial", "body"})

=============================================================================
