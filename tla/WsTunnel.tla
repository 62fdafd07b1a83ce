------------------------------ MODULE WsTunnel ------------------------------
(***************************************************************************)
(* The websocket tunnel: a TLS session over one websocket, for one         *)
(* request.                                                                *)
(*   - The client is NewWSClient (ws_handler/ws_client.go): dial, write    *)
(*     the request, read the answer, close.                                *)
(*   - The server side is the handler of /tlsRequest                       *)
(*     (ws_handler/server_main.go): accept, DoTransfer (transfer.go), and  *)
(*     a deferred close.  gin recovers its panics, so a panic of           *)
(*     DoTransfer ends this request only.                                  *)
(* Each side gives the websocket a context that expires one minute after   *)
(* it was set up.  Setting it up has no timeout: websocket.Dial gets the   *)
(* background context.                                                     *)
(*                                                                         *)
(* The websocket is ordered and buffers a few pieces in each direction, so *)
(* a count of the pieces written and of those read stands for it.  After   *)
(* an expiry a read or write may still succeed, but one that has to wait   *)
(* does not wait for ever.                                                 *)
(***************************************************************************)
EXTENDS Naturals, FiniteSets

CONSTANTS
  Calls,       \* the requests, each with its websocket
  ReqPieces,   \* the number of writes that carry the HTTP request
  RespPieces,  \* the number of writes that carry the HTTP response
  LinkPieces,  \* how many pieces the websocket buffers in one direction
  Hazards      \* what the environment may do: see HazardKinds

(***************************************************************************)
(* "dial"        the websocket cannot be set up                            *)
(* "lost"        the network stops carrying anything, silently             *)
(* "caller"      the body of the request cannot be read to its end         *)
(* "rejected"    the server side refuses the client: no trusted deployment *)
(*               has signed its certificate, the certificate names no      *)
(*               service, or its request is not one of HTTP                *)
(* "backend"     the request to the backend service fails, or reading its  *)
(*               answer does                                               *)
(***************************************************************************)
HazardKinds == {"dial", "lost", "caller", "rejected", "backend"}

ASSUME WsAssumption ==
  /\ ReqPieces \in Nat \ {0}
  /\ RespPieces \in Nat \ {0}
  /\ LinkPieces \in Nat \ {0}
  /\ Hazards \subseteq HazardKinds

VARIABLES
  \* the client
  client,      \* "dial", "active", then "done", "failed" or "panicked"
  wrote,       \* the number of pieces it wrote
  loaded,      \* its caller has supplied the next piece of the request
  got,         \* the number of pieces it read
  ended,       \* it has read the end of the connection
  \* the handler of /tlsRequest
  stage,       \* how far it has come
  rcvd,        \* the number of pieces it read
  sent,        \* the number of pieces it wrote
  ready,       \* the backend has supplied the next piece of the answer
  untilClose,  \* the answer it forwards ends with the connection
  serverEnd,   \* its end of the websocket: "open", "notified" or "aborted"
  \* the two of them
  late,        \* the sides whose minute is over
  lost,        \* the network has stopped
  \* histories
  executed,    \* the request was passed to the backend
  trouble      \* what befell the call apart from an expiry

clientVars  == <<client, wrote, loaded, got, ended>>
serverVars  == <<stage, rcvd, sent, ready, untilClose, serverEnd>>
linkVars    == <<late, lost>>
historyVars == <<executed, trouble>>

vars == <<clientVars, serverVars, linkVars, historyVars>>

(***************************************************************************)
(* The client writes its hello, the end of the handshake, then the         *)
(* request.  The server side writes its part of the handshake, then the    *)
(* response.                                                               *)
(***************************************************************************)
LastReq  == 2 + ReqPieces
LastUnit == 1 + RespPieces

Sides == {"client", "server"}

Init ==
  /\ client = [c \in Calls |-> "dial"]
  /\ wrote = [c \in Calls |-> 0]
  /\ loaded = [c \in Calls |-> TRUE]
  /\ got = [c \in Calls |-> 0]
  /\ ended = [c \in Calls |-> FALSE]
  /\ stage = [c \in Calls |-> "none"]
  /\ rcvd = [c \in Calls |-> 0]
  /\ sent = [c \in Calls |-> 0]
  /\ ready = [c \in Calls |-> FALSE]
  /\ untilClose = [c \in Calls |-> FALSE]
  /\ serverEnd = [c \in Calls |-> "open"]
  /\ late = [c \in Calls |-> {}]
  /\ lost = [c \in Calls |-> FALSE]
  /\ executed = [c \in Calls |-> FALSE]
  /\ trouble = [c \in Calls |-> {}]

-----------------------------------------------------------------------------
(***************************************************************************)
(* The two contexts, and the network                                       *)
(***************************************************************************)
Befalls(c, what) == trouble' = [trouble EXCEPT ![c] = @ \cup {what}]

\* The server side learns that the client has closed, or is gone.
ClientClosed(c) == client[c] \in {"done", "failed", "panicked"} /\ ~lost[c]

Running(c, side) ==
  \/ side = "client" /\ client[c] = "active"
  \/ side = "server" /\ stage[c] \notin {"none", "ended"}

\* Mutant: only the handler of /tlsRequest has a timeout.
ExpireServerOnly(c, side) ==
  /\ side = "server"
  /\ Running(c, side)
  /\ side \notin late[c]
  /\ late' = [late EXCEPT ![c] = @ \cup {side}]
  /\ UNCHANGED <<clientVars, serverVars, lost, historyVars>>

\* Mutant: only NewWSClient has a timeout.
ExpireClientOnly(c, side) ==
  /\ side = "client"
  /\ Running(c, side)
  /\ side \notin late[c]
  /\ late' = [late EXCEPT ![c] = @ \cup {side}]
  /\ UNCHANGED <<clientVars, serverVars, lost, historyVars>>

\* The minute of a side is over before its function has returned.
Expire(c, side) ==
  /\ Running(c, side)
  /\ side \notin late[c]
  /\ late' = [late EXCEPT ![c] = @ \cup {side}]
  /\ UNCHANGED <<clientVars, serverVars, lost, historyVars>>

LinkLost(c) ==
  /\ "lost" \in Hazards
  /\ client[c] \in {"dial", "active"}
  /\ ~lost[c]
  /\ lost' = [lost EXCEPT ![c] = TRUE]
  /\ Befalls(c, "lost")
  /\ UNCHANGED <<clientVars, serverVars, late, executed>>

-----------------------------------------------------------------------------
(***************************************************************************)
(* The client                                                              *)
(***************************************************************************)

\* http.ReadResponse and io.ReadAll(response.Body) are over: the body has
\* ended, by its length or by the end of the connection.
AnswerComplete(c) == (got[c] = LastUnit /\ ~untilClose[c]) \/ ended[c]

\* Mutant: one write too many, when the request has ended.
ToWriteOffByOne(c) ==
  /\ client[c] = "active"
  /\ wrote[c] <= LastReq
  /\ loaded[c] \/ wrote[c] = LastReq
  /\ wrote[c] = 1 => got[c] = 1

\* What NewWSClient does next: the handshake and the request are one
\* request.Write(tlsConn), in which the handshake reads once.
ToWrite(c) ==
  /\ client[c] = "active"
  /\ wrote[c] < LastReq
  /\ loaded[c]
  /\ wrote[c] = 1 => got[c] = 1

ToRead(c) ==
  /\ client[c] = "active"
  /\ \/ wrote[c] = 1 /\ got[c] = 0
     \/ wrote[c] = LastReq /\ ~AnswerComplete(c)

\* The client gives up.  The handshake is part of the first Write, so what
\* fails before the request is written is a panic, which is gin's to recover
\* when the call came from /wrap.
GivesUp(c) ==
  /\ client' = [client EXCEPT ![c] = IF wrote[c] < LastReq THEN "panicked"
                                                            ELSE "failed"]
  /\ UNCHANGED <<wrote, loaded, got, ended>>

\* websocket.Dial returns when the handler has accepted the websocket.
Dial(c) ==
  /\ client[c] = "dial"
  /\ stage[c] # "none"
  /\ ~lost[c]
  /\ client' = [client EXCEPT ![c] = "active"]
  /\ UNCHANGED <<wrote, loaded, got, ended, serverVars, linkVars, historyVars>>

\* It panics, as websocket.Accept does, when the websocket cannot be set up.
DialFails(c) ==
  /\ "dial" \in Hazards
  /\ client[c] = "dial"
  /\ GivesUp(c)
  /\ Befalls(c, "dial")
  /\ UNCHANGED <<serverVars, linkVars, executed>>

\* request.Write reads the body of the request from its caller as it goes
\* (c.Request.Body of /wrap), without a timeout.
CallerAwaited(c) ==
  /\ client[c] = "active"
  /\ wrote[c] < LastReq
  /\ ~loaded[c]

CallerContinues(c) ==
  /\ CallerAwaited(c)
  /\ loaded' = [loaded EXCEPT ![c] = TRUE]
  /\ UNCHANGED <<client, wrote, got, ended, serverVars, linkVars, historyVars>>

\* The body cannot be read: a panic.
CallerFails(c) ==
  /\ "caller" \in Hazards
  /\ CallerAwaited(c)
  /\ GivesUp(c)
  /\ Befalls(c, "caller")
  /\ UNCHANGED <<serverVars, linkVars, executed>>

\* The handshake and the head of the request do not wait for the body.
ClientWrites(c) ==
  /\ ToWrite(c)
  /\ wrote[c] - rcvd[c] < LinkPieces
  /\ wrote' = [wrote EXCEPT ![c] = @ + 1]
  /\ loaded' = [loaded EXCEPT ![c] = wrote[c] < 2]
  /\ UNCHANGED <<client, got, ended, serverVars, linkVars, historyVars>>

ClientReads(c) ==
  /\ ToRead(c)
  /\ ~lost[c]
  /\ got[c] < sent[c]
  /\ got' = [got EXCEPT ![c] = @ + 1]
  /\ UNCHANGED <<client, wrote, loaded, ended, serverVars, linkVars, historyVars>>

\* Mutant: io.ReadAll's ErrUnexpectedEOF is not an error.
ClientReadsAnyEnd(c) ==
  /\ ToRead(c)
  /\ ~lost[c]
  /\ got[c] = sent[c]
  /\ serverEnd[c] = "notified"
  /\ \/ /\ got[c] >= 2
        /\ ended' = [ended EXCEPT ![c] = TRUE]
        /\ UNCHANGED <<client, wrote, loaded, got>>
     \/ /\ got[c] < 2
        /\ GivesUp(c)
  /\ UNCHANGED <<serverVars, linkVars, historyVars>>

\* After the last piece comes the server's close_notify.  It ends an answer
\* without length; anything else is cut short by it, which is an error.
ClientReadsEnd(c) ==
  /\ ToRead(c)
  /\ ~lost[c]
  /\ got[c] = sent[c]
  /\ serverEnd[c] = "notified"
  /\ \/ /\ got[c] >= 2 /\ untilClose[c]
        /\ ended' = [ended EXCEPT ![c] = TRUE]
        /\ UNCHANGED <<client, wrote, loaded, got>>
     \/ /\ ~(got[c] >= 2 /\ untilClose[c])
        /\ GivesUp(c)
  /\ UNCHANGED <<serverVars, linkVars, historyVars>>

\* The websocket is broken for the client: its context has expired, or the
\* server side closed it without a word or with something unread.
ClientBroken(c) ==
  \/ "client" \in late[c]
  \/ /\ ~lost[c]
     /\ \/ serverEnd[c] = "aborted"
        \/ stage[c] = "ended" /\ rcvd[c] < wrote[c]

ClientReadFails(c) ==
  /\ ToRead(c)
  /\ ClientBroken(c)
  /\ GivesUp(c)
  /\ UNCHANGED <<serverVars, linkVars, historyVars>>

ClientWriteFails(c) ==
  /\ ToWrite(c)
  /\ ClientBroken(c) \/ (stage[c] = "ended" /\ ~lost[c])
  /\ GivesUp(c)
  /\ UNCHANGED <<serverVars, linkVars, historyVars>>

\* tlsConn.Close(), whose result is ignored, and the return of the response.
ClientCloses(c) ==
  /\ client[c] = "active"
  /\ wrote[c] = LastReq
  /\ AnswerComplete(c)
  /\ client' = [client EXCEPT ![c] = "done"]
  /\ UNCHANGED <<wrote, loaded, got, ended, serverVars, linkVars, historyVars>>

-----------------------------------------------------------------------------
(***************************************************************************)
(* The handler of /tlsRequest                                              *)
(***************************************************************************)

\* The websocket may be broken for the server side.
ServerBroken(c) == "server" \in late[c] \/ ClientClosed(c)

\* A failed Read or Write of DoTransfer is a panic; the deferred Close finds
\* the websocket closed.
Abort(c) ==
  /\ stage' = [stage EXCEPT ![c] = "ended"]
  /\ serverEnd' = [serverEnd EXCEPT ![c] = "aborted"]
  /\ UNCHANGED <<clientVars, rcvd, sent, ready, untilClose, linkVars, executed>>

Arrives(c) == ~lost[c] /\ rcvd[c] < wrote[c]

\* websocket.Accept, with which the minute of the handler begins.
Accept(c) ==
  /\ client[c] = "dial"
  /\ stage[c] = "none"
  /\ ~lost[c]
  /\ stage' = [stage EXCEPT ![c] = "hello"]
  /\ UNCHANGED <<clientVars, rcvd, sent, ready, untilClose, serverEnd, linkVars,
                 historyVars>>

\* The handshake and http.ReadRequest read one piece after the other; with the
\* head of the request the request goes to the backend.
ServerReads(c) ==
  /\ stage[c] \in {"hello", "finish", "head"}
  /\ Arrives(c)
  /\ rcvd' = [rcvd EXCEPT ![c] = @ + 1]
  /\ stage' = [stage EXCEPT ![c] = CASE @ = "hello"  -> "flight"
                                     [] @ = "finish" -> "head"
                                     [] @ = "head"   -> "backend"]
  /\ executed' = [executed EXCEPT ![c] = stage[c] = "head"]
  /\ UNCHANGED <<clientVars, sent, ready, untilClose, serverEnd, linkVars,
                 trouble>>

\* The server side refuses what it read: the handshake fails, or there is no
\* HTTP request in it, or HandleIdentity finds no service in the certificate.
\* All of these are panics, before the request has gone to the backend.  An
\* alert of TLS or the deferred Close tells the client: see ServerCloses.
ServerRejects(c) ==
  /\ "rejected" \in Hazards
  /\ stage[c] \in {"hello", "finish", "head"}
  /\ Arrives(c)
  /\ rcvd' = [rcvd EXCEPT ![c] = @ + 1]
  /\ stage' = [stage EXCEPT ![c] = "closing"]
  /\ Befalls(c, "rejected")
  /\ UNCHANGED <<clientVars, sent, ready, untilClose, serverEnd, linkVars,
                 executed>>

\* Mutant: an error of http.ReadRequest is answered instead of a panic.
ServerReadFailsAnswers(c) ==
  /\ stage[c] \in {"hello", "finish", "head"}
  /\ ServerBroken(c)
  /\ stage' = [stage EXCEPT ![c] = "response"]
  /\ ready' = [ready EXCEPT ![c] = TRUE]
  /\ UNCHANGED <<clientVars, rcvd, sent, untilClose, serverEnd, linkVars,
                 historyVars>>

ServerReadFails(c) ==
  /\ stage[c] \in {"hello", "finish", "head"}
  /\ ServerBroken(c)
  /\ Abort(c)
  /\ UNCHANGED trouble

\* While the backend is at work its client passes the rest of the request body
\* on, as far as the backend takes it.
BodyPasses(c) ==
  /\ stage[c] \in {"backend", "response"}
  /\ Arrives(c)
  /\ rcvd' = [rcvd EXCEPT ![c] = @ + 1]
  /\ UNCHANGED <<clientVars, stage, sent, ready, untilClose, serverEnd, linkVars,
                 historyVars>>

\* The backend answers; it need not have read the whole request.
BackendAnswers(c) ==
  /\ stage[c] = "backend"
  /\ stage' = [stage EXCEPT ![c] = "response"]
  /\ ready' = [ready EXCEPT ![c] = TRUE]
  /\ \E b \in BOOLEAN : untilClose' = [untilClose EXCEPT ![c] = b]
  /\ IF rcvd[c] < LastReq THEN Befalls(c, "early") ELSE UNCHANGED trouble
  /\ UNCHANGED <<clientVars, rcvd, sent, serverEnd, linkVars, executed>>

\* resp.Write reads the body of the answer from the backend as it goes, without
\* a timeout.
BackendContinues(c) ==
  /\ stage[c] = "response"
  /\ ~ready[c]
  /\ ready' = [ready EXCEPT ![c] = TRUE]
  /\ UNCHANGED <<clientVars, stage, rcvd, sent, untilClose, serverEnd, linkVars,
                 historyVars>>

\* DoTransfer waits for its backend.
BackendAwaited(c) ==
  \/ stage[c] = "backend"
  \/ stage[c] = "response" /\ ~ready[c]

\* The request to the backend fails, or reading its answer does: a panic.
BackendFails(c) ==
  /\ "backend" \in Hazards
  /\ BackendAwaited(c)
  /\ stage' = [stage EXCEPT ![c] = "closing"]
  /\ Befalls(c, "backend")
  /\ UNCHANGED <<clientVars, rcvd, sent, ready, untilClose, serverEnd, linkVars,
                 executed>>

\* The rest of the request body cannot be read: a panic, too.
BodyFails(c) ==
  /\ stage[c] \in {"backend", "response"}
  /\ rcvd[c] < LastReq
  /\ ServerBroken(c)
  /\ Abort(c)
  /\ UNCHANGED trouble

\* DoTransfer has something to write.
Writing(c) == stage[c] = "flight" \/ (stage[c] = "response" /\ ready[c])

ServerWrites(c) ==
  /\ Writing(c)
  /\ sent[c] - got[c] < LinkPieces
  /\ sent' = [sent EXCEPT ![c] = @ + 1]
  /\ ready' = [ready EXCEPT ![c] = FALSE]
  /\ stage' = [stage EXCEPT ![c] = CASE @ = "flight"           -> "finish"
                                     [] sent[c] + 1 = LastUnit -> "closing"
                                     [] OTHER                  -> @]
  /\ UNCHANGED <<clientVars, rcvd, untilClose, serverEnd, linkVars,
                 historyVars>>

ServerWriteFails(c) ==
  /\ Writing(c)
  /\ ServerBroken(c)
  /\ Abort(c)
  /\ UNCHANGED trouble

\* Mutant: the deferred Close is missing.
ServerReturns(c) ==
  /\ stage[c] = "closing"
  /\ Abort(c)
  /\ UNCHANGED trouble

\* The deferred tlsConn.Close(): close_notify (the alert, when the handshake
\* failed) and the close frame of the websocket, for which the client may be too
\* slow.
ServerCloses(c) ==
  /\ stage[c] = "closing"
  /\ serverEnd[c] = "open"
  /\ \/ /\ sent[c] - got[c] < LinkPieces
        /\ serverEnd' = [serverEnd EXCEPT ![c] = "notified"]
        /\ UNCHANGED <<clientVars, stage, rcvd, sent, ready, untilClose,
                       linkVars, historyVars>>
     \/ /\ ServerBroken(c)
        /\ Abort(c)
        /\ UNCHANGED trouble
     \/ /\ sent[c] - got[c] = LinkPieces
        /\ Abort(c)
        /\ Befalls(c, "slow")

\* The websocket's close reads what still comes and drops it, ...
CloseDiscards(c) ==
  /\ stage[c] = "closing"
  /\ serverEnd[c] = "notified"
  /\ Arrives(c)
  /\ rcvd' = [rcvd EXCEPT ![c] = @ + 1]
  /\ UNCHANGED <<clientVars, stage, sent, ready, untilClose, serverEnd, linkVars,
                 historyVars>>

\* ... until the close frame of the client comes, or five seconds have passed.
CloseEnds(c) ==
  /\ stage[c] = "closing"
  /\ serverEnd[c] = "notified"
  /\ stage' = [stage EXCEPT ![c] = "ended"]
  /\ UNCHANGED <<clientVars, rcvd, sent, ready, untilClose, serverEnd, linkVars,
                 historyVars>>

-----------------------------------------------------------------------------
Backend(c) ==
  \/ BackendAnswers(c)
  \/ BackendContinues(c)

SetUp(c) ==
  \/ Accept(c)
  \/ Dial(c)

Client(c) ==
  \/ ClientWrites(c)
  \/ ClientWriteFails(c)
  \/ ClientReads(c)
  \/ ClientReadsEnd(c)
  \/ ClientReadFails(c)
  \/ ClientCloses(c)

Server(c) ==
  \/ ServerReads(c)
  \/ ServerReadFails(c)
  \/ ServerWrites(c)
  \/ ServerWriteFails(c)
  \/ ServerCloses(c)
  \/ CloseEnds(c)

Environment(c) ==
  \/ DialFails(c)
  \/ LinkLost(c)
  \/ CallerFails(c)
  \/ ServerRejects(c)
  \/ BodyPasses(c)
  \/ BodyFails(c)
  \/ BackendFails(c)
  \/ CloseDiscards(c)

Next ==
  \E c \in Calls :
    \/ SetUp(c)
    \/ Client(c)
    \/ Server(c)
    \/ CallerContinues(c)
    \/ Backend(c)
    \/ Environment(c)
    \/ \E side \in Sides : Expire(c, side)

Spec == Init /\ [][Next]_vars

(***************************************************************************)
(* Both sides take every step they can take, and timers run.  A dial may   *)
(* never end, the caller may stop in the body of its request, and the      *)
(* backend at any point of its answer.                                     *)
(***************************************************************************)
TimerSpec ==
  /\ Spec
  /\ \A c \in Calls :
       /\ WF_vars(Client(c))
       /\ WF_vars(Server(c))
       /\ \A side \in Sides : WF_vars(Expire(c, side))

(***************************************************************************)
(* The dial ends, the caller supplies its request, both sides take every   *)
(* step they can take and the backend answers to the end, but nothing is   *)
(* assumed of the timers: whatever comes to an end does so by itself.      *)
(***************************************************************************)
BackendSpec ==
  /\ Spec
  /\ \A c \in Calls :
       /\ WF_vars(SetUp(c))
       /\ WF_vars(CallerContinues(c))
       /\ WF_vars(Client(c))
       /\ WF_vars(Server(c))
       /\ WF_vars(Backend(c))

R == INSTANCE RemoteCall WITH
       Servers <- Calls,
       executedBy <- [c \in Calls |-> IF executed[c] THEN {c} ELSE {}],
       outcome <- [c \in Calls |->
                     CASE client[c] = "done"               -> "done"
                       [] client[c] \in {"dial", "active"} -> "active"
                       [] OTHER                            -> "failed"]

-----------------------------------------------------------------------------
(***************************************************************************)
(* Properties                                                              *)
(***************************************************************************)

\* The types of the variables.
TypeOK ==
  /\ client \in [Calls -> {"dial", "active", "done", "failed", "panicked"}]
  /\ wrote \in [Calls -> 0 .. LastReq]
  /\ loaded \in [Calls -> BOOLEAN]
  /\ got \in [Calls -> 0 .. LastUnit]
  /\ ended \in [Calls -> BOOLEAN]
  /\ stage \in [Calls -> {"none", "hello", "flight", "finish", "head",
                          "backend", "response", "closing", "ended"}]
  /\ rcvd \in [Calls -> 0 .. LastReq]
  /\ sent \in [Calls -> 0 .. LastUnit]
  /\ ready \in [Calls -> BOOLEAN]
  /\ untilClose \in [Calls -> BOOLEAN]
  /\ serverEnd \in [Calls -> {"open", "notified", "aborted"}]
  /\ late \in [Calls -> SUBSET Sides]
  /\ lost \in [Calls -> BOOLEAN]
  /\ executed \in [Calls -> BOOLEAN]
  /\ trouble \in [Calls -> SUBSET (HazardKinds \cup {"early", "slow"})]

\* A client that gets no answer is owed an explanation: a minute was over, the
\* websocket could not be set up or was lost, the request could not be read from
\* its caller, the server side refused the client (a panic of DoTransfer or of its
\* handshake), the backend failed or answered before it had read the request, or
\* the client was slow to take the answer.
\* The closing of the two sides by itself never costs a client its answer.
FailureCauses ==
  \A c \in Calls :
    client[c] \in {"failed", "panicked"} => late[c] # {} \/ trouble[c] # {}

\* A client takes a truncated answer for a whole one in one case only: the
\* answer has no length and the backend failed in the middle of it, when the
\* deferred Close ends the connection as it would have ended after the whole
\* answer.  An expiry or a lost network never does this.
TruncatedByBackendOnly ==
  \A c \in Calls :
    client[c] = "done" /\ got[c] < LastUnit =>
      untilClose[c] /\ "backend" \in trouble[c]

\* The tunnel keeps the promise of RemoteCall.
CallRefinement == R!Spec

\* A client whose dial has returned always comes back, with or without an answer,
\* even if the backend stops answering, the network is lost, or both sides wait
\* for the other to read.  The minute does not bound its waits outside the
\* websocket: those for the dial, and for a caller that stops in its request.
ClientEnds ==
  \A c \in Calls :
    client[c] = "active" ~> \/ client[c] \in {"done", "failed", "panicked"}
                            \/ []CallerAwaited(c)

\* The handler of /tlsRequest always comes to its end, even if the dial at the
\* other side hangs, unless it waits for a backend that stops answering: its
\* minute does not bound that wait, neither for the answer nor in its body.
HandlerEnds ==
  \A c \in Calls :
    stage[c] = "hello" ~> stage[c] = "ended" \/ []BackendAwaited(c)

\* No timer is needed for a client to be answered if nothing befalls its call
\* (FailureCauses), so that it is dialled, passes the handshake and names its
\* service: nobody waits for anybody for ever, and the end of an answer without
\* length comes.
Answered ==
  \A c \in Calls :
    [](late[c] = {} /\ trouble[c] = {}) => <>(client[c] = "done")

=============================================================================
