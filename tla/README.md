# A verification project for tls-sidecar

tls-sidecar puts a sidecar beside a service. A call from one service to another
leaves through the local sidecar (`/wrap`), crosses a mutually authenticated TLS
session to the remote sidecar and reaches the remote service as plain HTTP. The
TLS session does not run over TCP but over something a browser and an ingress let
through: a websocket, or a sequence of ordinary HTTP calls. The second one, the
*HTTP tunnel*, is where the program keeps its state and does its concurrency, and
is the core of this project.

## 1. Inventory

### Components and their state

| Component | Source | State | Operations |
|---|---|---|---|
| Connection table | `http_handler/server_main.go` | `clientMap` (id → handle), `newConnLock` | take an id, store, look up, delete |
| Server endpoints and pipes | `http_handler/server_main.go` | per handle: `rwLock`, two unbuffered pipes (`mock_conn`), one goroutine per write, one per close | `/newRequest`, `/clientWrite`, `/clientRead`, `/clientClose` |
| HTTP tunnel client | `http_handler/client_conn.go`, `http_client.go` | `connectionID`, the TLS session | `Init`, `Read`, `Write`, `Close`; `NewHttpClient` |
| DoTransfer | `transfer.go` | the TLS session of a handle | handshake, read a request, call the backend, write the answer |
| WebSocket tunnel | `ws_handler/*.go` | one websocket per request, a one-minute timeout on each side | `/tlsRequest`, `NewWSClient` |
| Wrap endpoints | both `server_main.go` | none | look up a deployment, forward one request |
| Identity headers | `trust_center/*.go` | none | `HandleIdentity` |
| Process set-up | `cmd/main.go` | how far `main` is, two servers | read the configuration, start the servers, wait for an interrupt; end and restart |
| TLS configuration, certificates and configuration | `tls_config_factory.go`, `tls_utils.go`, `cert_manager`, `config` | what was read at start-up | parse, or panic; the configurations of TLS |
| Service router, API report | `service_router.go`, `proto_impl`, the pipeline of `cmd/inbound` | `PathRouterInfoMap` | report, look up, decide, proxy (not started by `cmd/main.go`) |
| TLS wrapper | `tls_wrapper.go`, `deployment.go` | `deployIDDeployInfoMap` | proxy (not started by `cmd/main.go`) |
| Browser client | `cmd/wasm`, `wasm` | a promise per request and per reader of a body, the body | `tlsRequest`, `text`, `json`, `arrayBuffer` |
| Adapters, start-up of the legacy entry points, example, generated code | see PROJECT.json | – | – |

### How they interact

A `/wrap` call runs `NewHttpClient`: `tls.Client` over a `MockClientConn`, whose
`Init`, `Write`, `Read` and `Close` are HTTP calls to the remote sidecar.
`/newRequest` makes a handle, stores it in the table and starts `DoTransfer` in a
goroutine with a `tls.Server` over one end of the handle's `mock_conn`.
`/clientWrite` gives its bytes to a goroutine that writes them to the other end;
`/clientRead` reads from that end; `/clientClose` starts a goroutine that drains
that end, closes the TLS connection and deletes the entry. So four kinds of
goroutine meet at one handle: the handler of the current call, the writers, the
drain, and `DoTransfer`; and all handles meet in the table.

The table lives as long as the process, which ends with any panic of any goroutine
(`DoTransfer` has one for every error), with either of its two servers and with an
interrupt. Its clients are other processes and go on.

In the older, unwired half of the program an application sends a request to the TLS
wrapper, which passes it over mutual TLS to the service router of the deployment it
names; the backend behind that router reports its API map over gRPC meanwhile. Two
reverse proxies, each with a Director of its own, act on one request.

### What is hard, and what must be right

* **Ids.** An id is `len(clientMap)`, taken under a lock that is released before
  the handle is stored. Right means: a call reaches the handle its own client
  opened, no open connection is lost or told that it does not exist, none leaks.
* **Order and blocking of the pipes.** Writes are asynchronous. Right means: the
  session gets its pieces in order; no cycle of waits among client, handlers,
  goroutines, `DoTransfer` and backend; a close neither cuts an answer short nor
  lets the drain take a piece a reader waits for.
* **Failures.** Every error in `DoTransfer` is a panic outside any recovery, so it
  ends the process for all connections: a refused client, a certificate that names no
  service and a failing backend included. Right means: only what is known to do this
  does it, and a client that fails was told by its own session.
* **Termination.** There is no timeout anywhere in the HTTP tunnel. Right means: a
  client is answered and everything it used is given back.
* **Timeouts.** Each side of a websocket gives it one minute, and they start at
  different times; neither bounds the dial, the wait for the body of the caller, or the
  wait for the backend and its body. Right means: both sides come to an end unless they
  wait for one of these; only an expiry, the network, the caller, a refusal, the backend
  or a slow client costs a call its answer; no client takes half an answer for a whole
  one.
* **Callers.** A tunnel that fails may still have its request executed, and some of
  its failures are panics. Right means: what a caller is told, and what a backend is
  told about the caller, stays true while a request outlives the one who sent it.
* **Ends and restarts.** Ids are counted from 0 by every process and the configuration
  is read once. Right means: the next process confuses no two connections, a client
  of the one before is not let in to somebody else's, no server starts on an unusable
  configuration, and no process lives with half of its servers.
* **The unlocked map** (service router). Right means: a request is decided by one
  reported entry, which was not out of date when the request came, and no report undoes
  a newer one.
* **Two proxies in a row.** Right means: what the application is answered tells it what
  was decided, although neither proxy knows what the other does to path and headers.
* **One body, several readers** (browser). Right means: whichever goroutine runs first,
  one reader gets the whole body and none part of it.

The full list, each at its line and with the properties that watch it, is under
"hazards" in PROJECT.json.

## 2. Modules

### ConnTable – the connection table

`clientMap`, `connectionID` and the position `pc` of the handler of each client's
current call. One connection is one `/newRequest`, so a member of `Conns` names the
client, its request and the handle made for it. Each critical section of
`newConnLock` is one access of the map and therefore one step; the store of line
90, made without the lock, is two steps (`BeginStore`, `EndStore`). Between
them any access by another handler is a data race: the Go runtime may end the
process (`MapFault`), or the racing update may be lost (second disjuncts of
`EndStore` and `Remove`).

The history variable `orderly` turns false in exactly three cases: two
`/newRequest` overlap between taking the id and storing; an entry is deleted while
a `/newRequest` is in between; an entry is deleted that is not the one with the
largest id. The properties say that these are the *only* ways for the table to go
wrong; the run `table_new_id` shows that they do go wrong. `refused` records who
was answered 404.

### Sidecar – the process around the table

Extends ConnTable: every step on the table is one of its actions, taken while the
server of the tunnels listens.

| Code | Model |
|---|---|
| `main`, line by line | `main`; `ReadConfig`, `StartServer`, `Waits` |
| `ReadAndParse`, `ParseCertificate`, `ParseKey` | `ParsesAsCert`, `ParsesAsKey`, `Usable`; anything else is a panic |
| `engine.Run`, `wrapEngine.Run` in their goroutines | `starting`, `listening`; `Listen`, `RunFails` |
| `signal.Notify`, `<-sigChan` | `Interrupt`; between the two the signal is lost, as the channel has no buffer |
| a panic of a handshake or of `DoTransfer` | `TransferDies` |
| the end of the process and the next one | `dead`, `process`; `Restart` |

`Restart` empties everything a process keeps and leaves what its clients keep: those
in a call see it fail, of the others some (`survivors`) do not notice and make their
next call with their old id. Such a table is not orderly any more; `sidecar_stale`
shows what happens then. A value of the configuration is a certificate, an RSA key,
another key, or none of these; parsing is modelled by which of them it accepts. Whose
certificates they are is left out: nothing at start-up looks at it, and what a handshake
makes of it is the hazard `"rejected"` of the tunnels.

### HttpTunnel – the data plane

Composes the table (`T == INSTANCE ConnTable`, same variables: every step on the
table is one of its actions, with the rest of the handler conjoined), the
handlers under the `rwLock`, the pipes, the goroutines, the client and
`DoTransfer`.

| Code | Model |
|---|---|
| `NewHttpClient`, `MockClientConn` | `client`, `wrote`, `got`; `NextCall`, `AnswerComplete`, `CallFails` |
| `/newRequest` | `NewRequest`, `NewRequestStores`, `NewRequestReplies` |
| the middleware | `Call` |
| `rwLock` | `locked`; `LockHandle`, `Reply` |
| `/clientWrite` and its goroutine | `ClientWrite`; `spawned`, `inPipe`; `WriterEnters`, `WriterFails` |
| `/clientRead` | `ClientRead`, `ClientReadEOF`; `outPipe` |
| `/clientClose` and its goroutine | `CloseStart`, `CloseEnd`; `drain`, `hungUp`; `DrainReads`, `DrainEnds` |
| `DoTransfer` | `stage`, `session`, `rcvd`, `sent`, `writing`, `untilClose`; `ServerReads`, `ServerReadFails`, `BodyPasses`, `BackendAnswers`, `BackendFails`, `ServerWrites`, `ServerWrote`; every error is `Panic` |
| a client that is refused: by the handshake, by `ReadRequest`, for a certificate without organizational unit | `ServerRejects` |
| a session that breaks: the alert, then the error | `alert`; `BreaksSession`, `AlertWritten` |
| failing calls | `NetworkFails` |

`cause`, `overtaken` and `discarded` are history variables.

What is abstracted:

* *Data.* What crosses a pipe in one `Write` is one numbered piece that knows its
  sender; a client writes its hello, the end of the handshake, `ReqPieces` pieces
  of the request and close_notify; the server side writes one flight and
  `RespPieces` pieces of the answer. Several `/clientRead` calls for one long
  `Write` are one call. JSON, malformed bodies (400) and headers are left out.
* *TLS* is external. A session takes the pieces of its own peer, each once and in
  order, and breaks on any other (`Fits`, `Accepts`). The server side then writes an
  alert to the unbuffered pipe, and `DoTransfer` gets its error, and panics, only when a
  `/clientRead` or the drain has taken it or the pipe is closed; the client may have
  failed by then, in a process that is still alive. The alert of a *client* whose session
  breaks on a piece that is not its own, one more `/clientWrite` before it fails, is left
  out. That piece can only come from the handle of another client, in a state that is not
  orderly; the client never refuses the server's certificate (`InsecureSkipVerify`), and
  answers neither an alert nor a failed call with an alert.
* *The rwLock* excludes writers from everyone and admits readers together; Go's
  preference for waiting writers is not modelled, which only adds behaviours.
* *The backend* answers whenever it likes, and reads as much of the request body as
  it likes first (`BodyPasses` is an environment step). A broken piece of the body that
  is read after the head of the answer came always ends in a panic; in the program it may
  go unnoticed. Its alert waits while `DoTransfer` is inside a Write, so such a piece is
  only read when it is not.
* *Restart* is in Sidecar: here a dead process stays dead. Clients do not reconnect.

### RemoteCall – what a tunnel promises

The abstract specification of both tunnels: `executedBy` (the runs of `DoTransfer`
that had a call executed) and `outcome`. A request is executed at most once, no
`DoTransfer` executes two, an answered call was executed; a failed one may have
been, or may yet be. `HttpTunnel!CallRefinement` and `WsTunnel!CallRefinement` map
the detailed state to it, and `Callers` is built on it.

### WsTunnel – the websocket tunnel

| Code | Model |
|---|---|
| `websocket.Dial`, `websocket.Accept` | `Accept`, `Dial`, `DialFails`; not fair, as they get no timeout |
| `NewWSClient` | `client`, `wrote`, `got`, `ended`; `ClientWrites`, `ClientReads`, `ClientReadsEnd`, `ClientReadFails`, `ClientWriteFails`, `ClientCloses` |
| the body of the request, which `request.Write` reads as it goes | `loaded`; `CallerContinues`, `CallerFails` |
| the handler of `/tlsRequest` with `DoTransfer` | `stage`, `rcvd`, `sent`, `untilClose`; `ServerReads`, `ServerRejects`, `BodyPasses`, `BackendAnswers`, `ServerWrites`, and the failures, which are panics gin recovers |
| the body of the answer, which `resp.Write` reads as it goes | `ready`; `BackendContinues`, `BackendFails` |
| `defer tlsConn.Close()` | `serverEnd`; `ServerCloses`, `CloseDiscards`, `CloseEnds` |
| the two `context.WithTimeout` | `late`; `Expire` |
| the network | `lost`; `LinkLost` |

The websocket keeps the order of what is written and buffers `LinkPieces` pieces in
each direction, so the counts `wrote`/`rcvd` and `sent`/`got` stand for what is in
it. `nhooyr.io/websocket` is external and modelled from its use: a context that
expires breaks the connection, `Close` says a close frame and discards what arrives
until the other's frame or five seconds later. After an expiry a read or write may
still succeed (it may have been under way), but none waits for ever. `executed`
and `trouble` (what befell a call apart from an expiry) are histories.

`ServerRejects` is what `DoTransfer` and its handshake may refuse: an untrusted
certificate, one without organizational unit, a malformed request. They are panics after
which the deferred `Close` runs; the alert of the handshake and the close_notify of the
others reach the client in the same way.

### Callers – `/wrap`, `tlsRequest` and the identity headers

| Code | Model |
|---|---|
| both `/wrap` handlers | `Wrap`, `WrapReturns` |
| `TLSRequest` of `cmd/wasm/main.go` up to the promise | `TLSRequest` |
| `NewGoroutinePromise` and the goroutine | `RunPromise`, `Settle`; `exited` when it panics |
| `DoTransfer`, `HandleIdentity` | `DoTransfer`, `HandleIdentity`; `headers` |
| its panic for a certificate without organizational unit | `TransferPanics`; `cut`: this tunnel, or every tunnel of a process that ends (`down`) until it is started again (`Restarts`) |
| a tunnel | `TunnelAnswers`, `TunnelFails`, which are steps of `RemoteCall` |
| what a tunnel waits for without a timeout | `passed`; `Connects`, `BodyRead` |

The headers of a request are one variable that changes where the code changes it: in
`/wrap` (the identity type) and in `DoTransfer` (the peer). A sidecar is a host and a
service, since the ingress in front of the sidecars routes by the service id in the
path. A caller that gave up, or a page whose program ended, does not stop
`DoTransfer`.

### BrowserResponse – the readers of a body

Extends Callers with what a page does after its promise was resolved. `text()`,
`json()` and `arrayBuffer()` (`CallReader`) each start a promise whose goroutine
(`Read`) reads `resp.Body` to the end; all share the body (`unread`). In a page
goroutines run one at a time and the body is in memory, so `Read` is one step. The
content of a body matters only as far as `json()` tells: an object, other text,
nothing. `Settle` of Callers becomes `WrapHttpResponse`, which adds the body.

### ServiceRouter – the API map and the Director

`ReportHTTPAPI` takes the entries of a report and assigns them one by one (`BeginAdd`,
`EndAdd`: the map has no lock, so an access in between is a data race, with `MapFault`,
a lost update or a lookup that misses what is there as outcomes), then answers
(`AckReport`). A request passes `HandleRequest` (the certificate of the peer, which
closes the channel if it has no organizational unit, and the target headers),
`GetAPIInfoByPath`, `Direct` (method, identity type, token) and `RoundTrip`; each may
end it with the error code of the source, or with the 502 of the proxy, when the
transport refuses the request or the service cannot be reached. The entry found is kept:
reports may replace it in the map before the request is forwarded. A path is the
sequence of its segments. The rewriting of headers and JSON are left out. `cmd/main.go`
does not start this handler; the pipeline of `cmd/inbound`, which it used to call, does.

### TLSWrapper – the wrapper in front of the router

Extends ServiceRouter: a channel carries either the call of an application through
the wrapper or a request of somebody else.

| Code | Model |
|---|---|
| `HandleRead`, `HandleWrite`, the lookup of the deployment | `WrapperHandles`; 40400 |
| the Director: service in front of the path, identity headers | `Wrapped` |
| the transport | `Sends`, `Returns`, `TransportFails`; `answer` |

The scheme that the wrapper sets does not cross the connection: what the transport
writes is the path, so the request is not in absolute form when the router gets it. The
wrapper's own certificate is taken to name its deployment.

### MC modules

`MCSidecar`, `MCTLSWrapper` and `MCHttpTunnel` add the symmetry sets (the first two also
the sets of configurations, reports and requests), `MCCallers` and `MCBrowserResponse` the
sets of inputs and headers; the other constants are in the .cfg files. ConnTable is
checked as part of Sidecar and ServiceRouter as part of TLSWrapper: their own
specifications are those of the theorems. `WsTunnel` needs no MC module.

## 3. Runs

| Run | Bounds | What it shows |
|---|---|---|
| `sidecar` | 3 connections, symmetric; 2 processes, 6 configurations; 243 950 states | `TypeOK`, `SidecarTypeOK`, `DenseIDs`, `OwnHandle`, `TableIsRegistered`, `NoSpurious404`, `NeverHalfAlive` |
| `table_new_id` | 3 connections | **violated**: `NewIDIsNew`. c1 and c2 open (ids 0, 1), c1 closes, c3 gets id 1, which is c2's |
| `sidecar_stale` | 2 connections, 2 processes | **violated**: `StaleIDsAreRefused`. c1 opens (id 0), the process is replaced, c2 opens (id 0), c1's next call reaches the handle of c2 |
| `tunnel_failures` | 2 clients, 1 piece of request and 2 of answer, all hazards; 645 802 states | `TypeOK`, `PanicCauses`, `AnswerIntegrity`, `CloseDelimitedNeverEnds`, `ReadNeverRacesDrain`, `CallRefinement`, `FailedStaysInTable` |
| `tunnel_live` | 2 clients, 2 pieces and 1, answers with and without length, refused clients; fair; 339 149 states | `FailuresAreTold`, `DoneIsClosed`, `NoDiscard`, `Answered`, `Released` while requests are orderly |
| `tunnel_order` | 1 client | **violated**: `InOrder`. The end of the handshake and the first piece of the request are both acknowledged; the second goroutine enters the pipe first |
| `ws_timers` | 1 call, request and answer of 3 pieces, a websocket of 2, all hazards; 9 293 states; timers fair | `TypeOK`, `FailureCauses`, `TruncatedByBackendOnly`, `CallRefinement`, `ClientEnds`, `HandlerEnds` |
| `ws_answered` | 1 call, 4 and 4 pieces, a websocket of 1, a network, a server side and a backend that may fail; 6 888 states; timers not fair | `Answered` |
| `callers` | 1 `/wrap`, 2 promises; 525 210 states; fair | `TypeOK`, `RpcNamesThePeer`, `ResultIsOfTarget`, `Settles` |
| `response` | 2 promises, 3 readers, bodies with and without JSON; 103 871 states | `BodyGoesToOne` |
| `router` | 2 reports on 2 paths, 2 infos, 1 request of every kind, through the wrapper or not; 4 179 445 states | `TypeOK`, `RoutedAsReported`, `NoFalse404`, `NotSuperseded`, `AckedIsInForce`, `AnswerTells` |
| `router_rpc` | the same | **violated**: `RpcIsLetThrough`. A permitted request with identity type rpc ends with 502 |

Why the bounds are enough. Two connections already collide (overlapping `/newRequest`,
or one that closes while the other opens); three are needed for an id that is reused
while its owner is still open. Two processes are enough for a stale id, and for a
configuration that differs from the one before; a third process meets nothing the second
did not, since a restart keeps only ids and clients. Of the configurations one can be
used, and one is for each way `ReadConfig` panics. Two pieces in flight are enough for
one to overtake another, two pieces of request let the backend answer with the request
half read, two of answer let a client close with the answer half read. Calls over
websockets share nothing, so one is enough; its websocket is shorter than the request
and the answer, so that either side can block in a write, and both can. Calls of `/wrap`
and promises share only the end of a program, that of the page or that of the sidecar
they are connected to, for which two promises and a call of `/wrap` are enough: one has
no name in its certificate, the others lose their tunnels with it or do not. Three
readers on two bodies are two on one of them at least. Two reports overlap, lose an
update or undo each other; requests share nothing but the map. A client opens one
connection, as `NewHttpClient` does.

`tunnel_live` leaves out the states where requests are not orderly any more
(`CONSTRAINT Orderly`). All five of its properties are about behaviours all of whose
states are orderly, or about orderly states, and no step makes a disorderly state
orderly again, so nothing that they speak of is left out.

`CHECK_DEADLOCK FALSE` is in every .cfg because the system does stop: when all
clients are done, when the process has died, or when a client waits for ever for
the end of an answer without length. That nothing else stops it is what `Answered`
and `Released` say.

### Fairness

Go runs every goroutine that can run, so there is weak fairness on the handler of
each client's current call and on the client's next call (`Handler`), on each
kind of goroutine and on `DoTransfer`. `Transfer` includes `BackendAnswers` and
`ServerWrites`: the backend is assumed to answer and the body of its answer to come.
`Handler` includes the writes of a client: the body of its request is assumed to be at
hand. (The code waits for all three without a timeout; `WsTunnel`, where there are
timeouts to compare them with, models the waits.) Nothing is assumed of `BodyPasses` (how
much of a body a backend reads) nor of anything that fails, a refusal included. Weak
fairness on `WriterEnters` says that some waiting write enters a free pipe, not which one.

`WsTunnel` has two fair specifications. `TimerSpec`: both sides take the steps they can
take and the minutes pass; nothing is assumed of the dial, of the caller that supplies the
request, or of the backend, for none of which the code has a timeout. `ClientEnds` and
`HandlerEnds` hold under it: once the dial has returned a client ends, unless it waits for
ever for its caller, and a handler ends, even when the dial at the other side hangs,
unless it waits for ever for its backend, for the answer or in its body. `BackendSpec`:
the dial, the caller and the backend do their part and nothing is assumed of the timers,
so `Answered` shows that the timers are not needed for a call that nothing befalls.

`Callers` assumes that a call over a websocket ends when nothing but the websocket is left
to wait for, which is `ClientEnds`, and nothing of calls over HTTP, of dials, or of an
application that is to go on with its request; `Settles` has these waits as exceptions.
The other runs need no fairness.

### Findings

* `NewIDIsNew`: the id of a new connection can be in use
  (`http_handler/server_main.go:75`).
* `StaleIDsAreRefused`: a client that did not notice a restart is let in to the
  connection that has its id now (`http_handler/server_main.go:75`), where the middleware
  means to answer "does not exist".
* `InOrder`: `/clientWrite` does not keep the order of what it acknowledged
  (`http_handler/server_main.go:116`), which ends in a TLS error, a panic in
  `DoTransfer` and the end of the process (`PanicCauses`).
* `RpcIsLetThrough`: the Director of the service router never sets the scheme of the
  URL (`service_router.go:125`), so the transport refuses what the checks let through,
  unless the request came in absolute form.

## 4. Theorems

All are checked by TLAPS, for every value of the constants, from the assumptions the
modules name: `ConnsAssumption` and `TunnelAssumption` (the set of connections is
finite, `NoHandle` is not one of them), `NothingAssumption` (the marker of an empty pipe
is not a piece), `WsAssumption` (the sizes are positive),
`CallersAssumption` (inputs have their types, the two kinds of callers differ),
`SidecarAssumption`, `RouterAssumption` and `WrapperAssumption` (configurations, requests
and reports have their types; the markers for "none" are none of them).

**ConnTableProofs.** `TypeCorrect` is inductive by itself. The others follow from
`IInv == TypeOK /\ DenseIDs /\ OwnHandle /\ TableIsRegistered /\ NoSpurious404`.
`OwnHandle` alone is not inductive: that the id just taken is free needs that the
ids in use are `0 .. n-1` with `n` the size of the table, which is `DenseIDs`; that
a store only adds and a delete only removes the last entry needs that the table
and the ids of the open connections are inverse to each other
(`TableInverse`, from `DenseIDs` and `TableIsRegistered`). There is one lemma for
each action that changes the table (`AllocateOrderly`, `StoreOrderly`,
`RemoveOrderly`) or resolves and closes a handle (`ResolveOrderly`,
`CloseConnOrderly`); `TableUntouched` serves the rest. Theorems:
`CallsReachTheirHandle`, `TableIsExact`, `CallsFindTheirHandle`, `IDsAreDense`, and
`OrderlyIDsAreNew`, the counterpart of the finding `NewIDIsNew`: as long as requests are
orderly no `/newRequest` takes an id that an entry of the table has.

**HttpTunnelProofs.** The tunnel uses the table as ConnTable says (`TunnelIsTable`; this
holds by the way the module is written and is a lemma only), so what ConnTableProofs shows
carries over (`TunnelCallsReachTheirHandle`). `ReadAndDrainExclude` proves
`ReadNeverRacesDrain` for any number of clients, with or without colliding ids, by
the inductive invariant `LockInv`: a writer excludes every other holder of the
same handle's lock, an unfinished drain has a `/clientClose` that holds the lock,
and so does a handle that is closed but not hung up. The last part is needed for
the second `/clientClose` on one handle: it fails, gives the lock back, and must
find the pipes closed by the first.

**HttpTunnelCallProofs** extends HttpTunnelProofs. `TunnelTypeCorrect`,
`AnswersAreWhole` (`AnswerIntegrity`), `TunnelRefinesCall` (the refinement of
`RemoteCall`) and `FailuresLeak` (`FailedStaysInTable`), for any number of clients and
pieces. The first three hold whatever the table does with ids: a client may write to the
handle of another and read from it, so what protects a call is TLS, and the invariant
`CallInv` follows the pieces. `HelloInv`: the hello of a client is in one place at most (a
goroutine, a pipe, a session) and in none before it was written, so two handles never
have a session with one client; this is "at most once". `GotInv`: when a client has n
pieces, the handle it has its session with has written n; with `OutPipeInv`, what is in a
pipe is the piece being written. `ClientInv` and `ServerInv` say how far either end is by
what it read and wrote, which the types need (no count passes the last piece) and which
makes an answered request an executed one. `FailuresLeak` adds `TableIsRegistered` from
ConnTableProofs.

**HttpTunnelOrderlyProofs** extends HttpTunnelCallProofs with what holds while requests
are orderly, for any number of clients, any sizes and all hazards:
`PanicsHaveTheirCause` (`PanicCauses`: the process dies of its backend, of a client it
refuses, of a piece that was overtaken, or of a lookup during a store; never of a
connection closed under `DoTransfer` or of another client's piece),
`FailedClientsWereTold` (`FailuresAreTold`: without failing calls, a client fails only
when its own `DoTransfer` broke or refused the session and said so),
`AnswersAreNotDiscarded` (`NoDiscard`), `CloseDelimitedAnswersHang`
(`CloseDelimitedNeverEnds`), and `DoneClientsGiveBack` (`DoneIsClosed`): a client that
is done has closed its pipes and its entry is gone. A call works on the handle of its
own client (`OwnHandle`, from the table), so a step of one client leaves every other
connection alone (`OtherHandlers`, `OtherGoroutines`), and the invariant `OrderlyInv` is
about one connection:

| Part | Says | Why it is needed |
|---|---|---|
| `OwnPieces` | the goroutines, the pipe and the session are of the handle's own client | no panic for another client's piece |
| `NoGap` | until the session breaks or the pipe closes, the pieces between the last one read and the last one written are all on their way, each once; the one in the pipe is the next, unless it was overtaken | a piece out of order has a cause; nothing is missing when nothing is in flight |
| `InStep` | a client that has not failed has read exactly what the server side wrote | what comes next is what the client accepts |
| `ClosedWhenAnswered` | a handle is closed, drained or has close_notify in its pipe only when its client has the whole answer | `DoTransfer` never writes to, or reads from, a pipe closed under it; the drain finds nothing |
| `BrokenByOvertaking` | a session that broke on a piece had one overtaken | the alert, and the panic after it, come steps after the piece is gone |
| `SameEnd` | every piece of an answer says the same of how it ends | the last piece decides that the answer is whole |

None of the properties is inductive, and most of these parts lean on others: that the
client closes only when the server side has nothing left to write
(`AnsweredConn`) takes `InStep` and `SameEnd`, and that the server side is there at all
takes `NoGap`. The lemmas that follow say in which steps the process can die (`WaysToDie`),
a client fail (`WaysToFail`) or be done (`WaysToBeDone`); each theorem excludes those it
must.

**WsTunnelProofs.** `TypeCorrect`, `FailuresExplained`, `TruncationByBackendOnly`, and
`WsRefinesCall`, the refinement of `RemoteCall`. All follow from
`IInv == TypeOK` and four facts about each call: `Progress` (how far client and handler
are by what they wrote and read of each other, which makes the two counts of one
direction consistent), `Execution` (when the request has been executed, or refused),
`Closing` (what the end of the server side says about what was sent, needed to
tell a whole answer from a truncated one) and `Calm` (a call that nothing befell has
not failed, and its handler was not aborted). `FailureCauses` is not inductive because
a client fails by what its handler did steps before.

**CallersProofs.** `TypeCorrect`, `PeersAreNamed` (`RpcNamesThePeer`) and
`ResultsAreOfTarget` (`ResultIsOfTarget`), from `IInv == TypeOK` and, for each call,
`Route`, `Result`, `Asked` and `Identity`, which follow a request from what was asked
for to its execution, as that may come after the caller is over.
`BodiesGoToOne` (`BodyGoesToOne`, of BrowserResponse) is on top of it: `PageCalls` shows
that the page makes its calls as Callers says, so `IInv` holds there too; `ResponseInv`
adds `ReaderInv` (a reader is of a response there is, and has no value before it read) and
`BodyInv`. That one reader at most has the body needs that the body is gone once anyone
has read, which the property does not say.

**SidecarProofs** extends ConnTableProofs. `SidecarTypeCorrect`,
`TableSurvivesRestarts` (`OwnHandle`, with the rest of the table's `IInv`)
and `ServersLiveTogether` (`NeverHalfAlive`), for any number of restarts. The invariant is
that of the table and `ProcessInv`, which is the two properties of the process together.
The steps on the table are those of ConnTableProofs; `RestartKeepsTable` is the new one.

**ServiceRouterProofs.** `TypeCorrect`, `DecidedByOneEntry` (`RoutedAsReported`),
`KnownPathsAreFound` (`NoFalse404`), `AcknowledgedIsInForce` (`AckedIsInForce`) and
`ChecksAreUpToDate` (`NotSuperseded`), for any number of reports and requests. `InForce`
strengthens `AckedIsInForce` to reports that are not answered yet, for the paths they
have assigned: an assignment may only take the place of one whose report had not been
answered when its own came. A lookup then reads one that is no older than what was
answered (`ReadableInForce`), from which `NotSuperseded` follows: reports that were
answered when the request came are answered when it is looked up. `KnownInv` keeps that
no path ever leaves the map.

The last part of the module is about TLSWrapper. `AnswersTell` (`AnswerTells`) and
`RouterBehindWrapper`, which carries the theorems of the router over to the composition.
`CallInv` ties the call of an application to what its channel carries and to where the
router is with it.

Only model-checked: the liveness properties (`Answered` and `Released` of the HTTP
tunnel, `Answered`, `ClientEnds` and `HandlerEnds` of the websocket tunnel, `Settles`),
as fairness and ENABLED are outside the prover's reach. Every other property of a
passing run is a theorem. What the other runs show violated needs no proof: a
counterexample is one.

## 5. Not modelled

PROJECT.json lists every component with the reason. In short:

* TLS itself, the websocket library, gin and `net/http` are external. The
  tunnel's calls are PUTs and POSTs, which `http.Transport` does not send again once it
  has written any of them, so its retries are not modelled.
* What the certificates say: that one is not trusted, or that certificate and key do not
  belong together, only shows as a refused handshake (`"rejected"`).
* `NewClientConfig` has no state, and with `InsecureSkipVerify` it accepts every peer.
  `cert_gen.go` and the readers and writers of files have no caller in the sidecar.
  `AddDeploy` and `GetServiceInfo` have none either, so the deployments of the wrapper
  are a constant.
* The plugins that a configuration may name, CORS, logging, and the copying of the
  headers of a response.
* `ReadableStream` of `wasm` is never wired to a response; `bodyUsed` is a constant of
  the object made of one.
* The adapters of connections and responses are used by nothing that is wired; of the
  legacy entry points only the pipeline of `cmd/inbound` is modelled, as the way to the
  service router, and not their start-up; generated code is not modelled.
* That an interrupt between `Notify` and the receive is lost is in the model, but nothing
  in the code or its docs says it must not be, so no property forbids it.

## 6. Plan

Done, in this order: ConnTable, HttpTunnel, their proofs, RemoteCall, WsTunnel and its
proofs, ServiceRouter, Callers and its proofs; then Sidecar, TLSWrapper, BrowserResponse,
the proofs of Sidecar, ServiceRouter and TLSWrapper, those of the HTTP tunnel as a call,
and those of the orderly HTTP tunnel and of the readers of a body. Next:

1. **Retries**: an application that repeats a call of `/wrap` after a 500; what
   RemoteCall implies for the number of executions.
2. **What liveness rests on**, as safety theorems: that a client that waits always has
   someone who can take the next step (`OrderlyInv` has most of it), for the HTTP tunnel
   and for the websocket tunnel.
