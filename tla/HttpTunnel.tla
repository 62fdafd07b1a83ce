----------------------------- MODULE HttpTunnel -----------------------------
(***************************************************************************)
(* The HTTP tunnel: a TLS session carried by /newRequest, /clientWrite,    *)
(* /clientRead and /clientClose calls.  Each connection involves           *)
(*   - the client: NewHttpClient, a tls.Client over MockClientConn         *)
(*     (http_handler/http_client.go, client_conn.go), which makes one HTTP *)
(*     call at a time;                                                     *)
(*   - the handler of its current call (http_handler/server_main.go), on   *)
(*     the table of ConnTable and under the rwLock of the handle;          *)
(*   - the mock_conn of the handle: two unbuffered pipes, one from the     *)
(*     goroutines of /clientWrite to the server side, one from the server  *)
(*     side to /clientRead;                                                *)
(*   - DoTransfer (transfer.go), a tls.Server over that mock_conn that     *)
(*     reads one request, has the backend answer it and writes the answer. *)
(* A client and the handle its /newRequest made have the same name; which  *)
(* handle its later calls reach is up to the table.                        *)
(*                                                                         *)
(* What crosses a pipe in one Write or Read is one piece; TLS is external  *)
(* and appears only through what it checks, that pieces come from the peer *)
(* of the session, each once and in order.                                 *)
(***************************************************************************)
EXTENDS Naturals, Sequences, FiniteSets

CONSTANTS
  Conns,      \* the connections: clients, and the handles made for them
  NoHandle,   \* no handle, and no session
  Nothing,    \* an empty pipe
  ReqPieces,  \* the number of writes that carry the HTTP request
  RespPieces, \* the number of writes that carry the HTTP response
  Hazards     \* what the environment may do: see HazardKinds

(***************************************************************************)
(* "network"     a call of the client fails, before or after its handler   *)
(* "backend"     the request to the backend service fails                  *)
(* "untilClose"  the backend's answer has no length (it was decompressed,  *)
(*               or is of HTTP/1.0): it ends with the connection           *)
(* "rejected"    the server side refuses the client: no trusted deployment *)
(*               has signed its certificate, the certificate names no      *)
(*               service, or its request is not one of HTTP                *)
(***************************************************************************)
HazardKinds == {"network", "backend", "untilClose", "rejected"}

ASSUME TunnelAssumption ==
  /\ IsFiniteSet(Conns)
  /\ NoHandle \notin Conns
  /\ ReqPieces \in Nat \ {0}
  /\ RespPieces \in Nat \ {0}
  /\ Hazards \subseteq HazardKinds

VARIABLES
  \* the table: see ConnTable
  clientMap, connectionID, pc, handle, shut, dead, refused, orderly,
  \* the handler of each client's call
  op,          \* the endpoint called, or "none"
  locked,      \* how the handler holds the rwLock of handle[c]
  \* the client
  client,      \* "active", then "done" or "failed"
  wrote,       \* the number of pieces it wrote and had acknowledged
  got,         \* the pieces it read, in order
  \* the mock_conn and the goroutines of each handle
  spawned,     \* the pieces /clientWrite left to goroutines not yet in Write
  inPipe,      \* the piece in the pipe towards the server side
  outPipe,     \* the piece in the pipe towards /clientRead
  drain,       \* the ReadAll goroutine of /clientClose is running
  hungUp,      \* the server end of mock_conn is closed
  \* DoTransfer of each handle
  stage,       \* how far it has come
  session,     \* the client whose hello it accepted
  rcvd,        \* the number of pieces it read
  sent,        \* the number of pieces it wrote
  writing,     \* it is inside a Write
  untilClose,  \* the answer it forwards ends with the connection
  alert,       \* why its session broke, from when it tells the client so
  \* histories
  cause,       \* why the process died
  overtaken,   \* the handles where a piece entered the pipe before an older one
  discarded    \* the handles where the drain swallowed a piece of the answer

T == INSTANCE ConnTable

tableVars   == <<clientMap, connectionID, pc, handle, shut, dead, refused,
                 orderly>>
handlerVars == <<op, locked>>
clientVars  == <<client, wrote, got>>
pipeVars    == <<spawned, inPipe, outPipe, drain, hungUp>>
serverVars  == <<stage, session, rcvd, sent, writing, untilClose, alert>>
historyVars == <<cause, overtaken, discarded>>

vars == <<tableVars, handlerVars, clientVars, pipeVars, serverVars,
          historyVars>>

-----------------------------------------------------------------------------
(***************************************************************************)
(* Pieces.  The client writes 1, its hello; 2, the end of the handshake;   *)
(* then the request; last, close_notify.  The server side writes 1, its    *)
(* part of the handshake; then the response; and the alerts of TLS, which  *)
(* are close_notify and those that break the session.                      *)
(***************************************************************************)
LastReq     == 2 + ReqPieces
CloseNotify == 3 + ReqPieces
LastUnit    == 1 + RespPieces
Farewell    == 0
FatalAlert  == 2 + RespPieces

\* A piece of the client, and one of the server side.  The server side's
\* close_notify is number 0, an alert that breaks the session the last number.
Record(c, n)  == [from |-> c, n |-> n]
Unit(h, n)    == [to |-> session[h], n |-> n, untilClose |-> untilClose[h]]
IsAlert(u)    == u.n \in {Farewell, FatalAlert}

Records == [from : Conns, n : 1 .. CloseNotify]
Units   == [to : Conns \cup {NoHandle}, n : 0 .. FatalAlert,
            untilClose : BOOLEAN]

\* An empty pipe is not a piece.
ASSUME NothingAssumption == Nothing \notin Records \cup Units

Stages == {"none", "hello", "flight", "finish", "head", "backend",
           "response", "done"}

Init ==
  /\ T!Init
  /\ op = [c \in Conns |-> "none"]
  /\ locked = [c \in Conns |-> "none"]
  /\ client = [c \in Conns |-> "active"]
  /\ wrote = [c \in Conns |-> 0]
  /\ got = [c \in Conns |-> <<>>]
  /\ spawned = [h \in Conns |-> {}]
  /\ inPipe = [h \in Conns |-> Nothing]
  /\ outPipe = [h \in Conns |-> Nothing]
  /\ drain = [h \in Conns |-> FALSE]
  /\ hungUp = [h \in Conns |-> FALSE]
  /\ stage = [h \in Conns |-> "none"]
  /\ session = [h \in Conns |-> NoHandle]
  /\ rcvd = [h \in Conns |-> 0]
  /\ sent = [h \in Conns |-> 0]
  /\ writing = [h \in Conns |-> FALSE]
  /\ untilClose = [h \in Conns |-> FALSE]
  /\ alert = [h \in Conns |-> "none"]
  /\ cause = "none"
  /\ overtaken = {}
  /\ discarded = {}

-----------------------------------------------------------------------------
(***************************************************************************)
(* The client                                                              *)
(***************************************************************************)

\* Mutant: the client closes after the header of the response.
AnswerCompleteAtHeader(c) == Len(got[c]) >= LastUnit - 1

\* http.ReadResponse and io.ReadAll(resp.Body) are over: the body has ended,
\* by its length or by the end of the connection.
AnswerComplete(c) ==
  \/ Len(got[c]) = LastUnit /\ ~got[c][LastUnit].untilClose
  \/ Len(got[c]) = LastUnit + 1

\* What the TLS session of c accepts next from /clientRead.
Accepts(c, u) ==
  /\ u.to = c
  /\ \/ u.n = Len(got[c]) + 1 /\ ~IsAlert(u)
     \/ u.n = Farewell /\ Len(got[c]) = LastUnit

\* Mutant: the client never gets to clientClose.
NextCallNeverCloses(c) ==
  IF \/ wrote[c] = 1 /\ got[c] = <<>>
     \/ wrote[c] = LastReq /\ ~AnswerComplete(c)
  THEN "clientRead" ELSE "clientWrite"

\* The handshake is one write, one read, one write; then the request is
\* written, the response read, close_notify written, the connection closed.
NextCall(c) ==
  CASE wrote[c] = CloseNotify                      -> "clientClose"
    [] \/ wrote[c] = 1 /\ got[c] = <<>>
       \/ wrote[c] = LastReq /\ ~AnswerComplete(c) -> "clientRead"
    [] OTHER                                       -> "clientWrite"

\* Mutant: the error of a failed call is dropped.
CallFailsSilently(c) ==
  /\ client' = [client EXCEPT ![c] =
       IF ~AnswerComplete(c) \/ wrote[c] = CloseNotify THEN "done" ELSE "active"]
  /\ wrote' = [wrote EXCEPT ![c] =
       IF AnswerComplete(c) THEN CloseNotify ELSE @]
  /\ UNCHANGED got

\* What a failed call does to NewHttpClient.  A failed Write or Read ends it
\* with an error or a panic; once the answer is read the results of
\* tlsConn.Close() are ignored, and Close goes on to clientClose after a
\* failed close_notify.
CallFails(c) ==
  /\ client' = [client EXCEPT ![c] =
       IF ~AnswerComplete(c) THEN "failed"
       ELSE IF wrote[c] = CloseNotify THEN "done" ELSE "active"]
  /\ wrote' = [wrote EXCEPT ![c] =
       IF AnswerComplete(c) THEN CloseNotify ELSE @]
  /\ UNCHANGED got

\* MockClientConn.Init: POST /newRequest arrives.
NewRequest(c) ==
  /\ client[c] = "active"
  /\ T!AllocateID(c)
  /\ op' = [op EXCEPT ![c] = "newRequest"]
  /\ UNCHANGED <<locked, clientVars, pipeVars, serverVars, historyVars>>

NewRequestStores(c) ==
  /\ T!BeginStore(c)
  /\ UNCHANGED <<handlerVars, clientVars, pipeVars, serverVars, historyVars>>

\* /newRequest stores the handle, starts DoTransfer and answers with the id.
NewRequestReplies(c) ==
  /\ T!EndStore(c)
  /\ op' = [op EXCEPT ![c] = "none"]
  /\ stage' = [stage EXCEPT ![c] = "hello"]
  /\ UNCHANGED <<locked, clientVars, pipeVars, session, rcvd, sent, writing,
                 untilClose, alert, historyVars>>

\* The next call of the client reaches the middleware.
Call(c) ==
  /\ client[c] = "active"
  /\ op[c] = "none"
  /\ T!Resolve(c)
  /\ \/ /\ pc'[c] = "resolved"
        /\ op' = [op EXCEPT ![c] = NextCall(c)]
        /\ UNCHANGED clientVars
     \/ /\ pc'[c] # "resolved"
        /\ CallFails(c)
        /\ UNCHANGED op
  /\ UNCHANGED <<locked, pipeVars, serverVars, historyVars>>

\* A call never arrives, or its answer is lost.  (A lost answer to a write of
\* close_notify differs in nothing from an answer that arrives.)
NetworkFails(c) ==
  /\ ~dead
  /\ "network" \in Hazards
  /\ client[c] = "active"
  /\ pc[c] # "idle"
  /\ AnswerComplete(c) => op[c] \in {"none", "clientClose"}
  /\ CallFails(c)
  /\ UNCHANGED <<tableVars, handlerVars, pipeVars, serverVars, historyVars>>

-----------------------------------------------------------------------------
(***************************************************************************)
(* The rwLock of a handle, and the handlers under it                       *)
(***************************************************************************)
Holds(d, h, mode) == handle[d] = h /\ locked[d] = mode

\* Mutant: every endpoint takes the lock shared.
LockHandleShared(c) ==
  /\ ~dead
  /\ pc[c] = "resolved"
  /\ locked[c] = "none"
  /\ locked' = [locked EXCEPT ![c] = IF op[c] = "clientRead" THEN "read"
                                                             ELSE "write"]
  /\ drain' = [drain EXCEPT ![handle[c]] = @ \/ op[c] = "clientClose"]
  /\ UNCHANGED <<tableVars, op, clientVars, spawned, inPipe, outPipe, hungUp,
                 serverVars, historyVars>>

\* handle.rwLock.RLock() for /clientRead, Lock() for the others.  The first
\* thing /clientClose does with the lock is to start the goroutine that reads
\* all the server side still sends.
LockHandle(c) ==
  /\ ~dead
  /\ pc[c] = "resolved"
  /\ locked[c] = "none"
  /\ \A d \in Conns : ~Holds(d, handle[c], "write")
  /\ \/ /\ op[c] = "clientRead"
        /\ locked' = [locked EXCEPT ![c] = "read"]
        /\ UNCHANGED drain
     \/ /\ op[c] \in {"clientWrite", "clientClose"}
        /\ \A d \in Conns : ~Holds(d, handle[c], "read")
        /\ locked' = [locked EXCEPT ![c] = "write"]
        /\ drain' = [drain EXCEPT ![handle[c]] = @ \/ op[c] = "clientClose"]
  /\ UNCHANGED <<tableVars, op, clientVars, spawned, inPipe, outPipe, hungUp,
                 serverVars, historyVars>>

\* Mutant: the lock is not given back.
ReplyKeepsLock(c) ==
  /\ op' = [op EXCEPT ![c] = "none"]
  /\ UNCHANGED locked

\* The handler answers and its deferred Unlock runs.
Reply(c) ==
  /\ op' = [op EXCEPT ![c] = "none"]
  /\ locked' = [locked EXCEPT ![c] = "none"]

\* /clientWrite reads the piece from its body, leaves writing it to the pipe
\* to a new goroutine, and answers.
ClientWrite(c) ==
  /\ op[c] = "clientWrite"
  /\ locked[c] = "write"
  /\ T!Serve(c)
  /\ Reply(c)
  /\ spawned' = [spawned EXCEPT ![handle[c]] =
                   @ \cup {Record(c, wrote[c] + 1)}]
  /\ wrote' = [wrote EXCEPT ![c] = IF client[c] = "active" THEN @ + 1 ELSE @]
  /\ UNCHANGED <<client, got, inPipe, outPipe, drain, hungUp, serverVars,
                 historyVars>>

\* /clientRead takes what is in the pipe and answers with it; the client's TLS
\* session accepts it or the client fails.
ClientRead(c) ==
  /\ op[c] = "clientRead"
  /\ locked[c] = "read"
  /\ ~hungUp[handle[c]]
  /\ outPipe[handle[c]] # Nothing
  /\ T!Serve(c)
  /\ Reply(c)
  /\ outPipe' = [outPipe EXCEPT ![handle[c]] = Nothing]
  /\ LET u == outPipe[handle[c]]
     IN  \/ /\ client[c] = "active" /\ Accepts(c, u)
            /\ got' = [got EXCEPT ![c] = Append(@, u)]
            /\ UNCHANGED client
         \/ /\ client[c] = "active" /\ ~Accepts(c, u)
            /\ client' = [client EXCEPT ![c] = "failed"]
            /\ UNCHANGED got
         \/ /\ client[c] # "active"
            /\ UNCHANGED <<client, got>>
  /\ UNCHANGED <<wrote, spawned, inPipe, drain, hungUp, serverVars,
                 historyVars>>

\* /clientRead finds the pipe closed, and answers 500.
ClientReadEOF(c) ==
  /\ op[c] = "clientRead"
  /\ locked[c] = "read"
  /\ hungUp[handle[c]]
  /\ T!Serve(c)
  /\ Reply(c)
  /\ client' = [client EXCEPT ![c] = IF @ = "active" THEN "failed" ELSE @]
  /\ UNCHANGED <<wrote, got, pipeVars, serverVars, historyVars>>

-----------------------------------------------------------------------------
(***************************************************************************)
(* /clientClose                                                            *)
(***************************************************************************)
HandshakeComplete(h) == stage[h] \in {"head", "backend", "response", "done"}

\* The client learns that its close is over, and ignores the result.
ClientDone(c) ==
  client' = [client EXCEPT ![c] = IF @ = "active" THEN "done" ELSE @]

\* protocolConn.Close(), tls.Conn's Close.  While DoTransfer is inside a Write,
\* or before the end of the handshake, it closes the pipe at once; otherwise it
\* first writes close_notify, after an alert that still waits in the pipe.  When
\* it was called before, it is an error.
CloseStart(c) ==
  /\ op[c] = "clientClose"
  /\ locked[c] = "write"
  /\ T!CloseConn(c)
  /\ LET h == handle[c]
     IN  \/ /\ pc'[c] = "removing"
            /\ HandshakeComplete(h) /\ ~writing[h]
            /\ outPipe[h] = Nothing
            /\ outPipe' = [outPipe EXCEPT ![h] = Unit(h, Farewell)]
            /\ UNCHANGED <<hungUp, handlerVars, client>>
         \/ /\ pc'[c] = "removing"
            /\ ~(HandshakeComplete(h) /\ ~writing[h])
            /\ hungUp' = [hungUp EXCEPT ![h] = TRUE]
            /\ UNCHANGED <<outPipe, handlerVars, client>>
         \/ /\ pc'[c] = "closed"
            /\ Reply(c)
            /\ ClientDone(c)
            /\ UNCHANGED <<outPipe, hungUp>>
  /\ UNCHANGED <<wrote, got, spawned, inPipe, drain, serverVars, historyVars>>

\* Mutant: the entry stays in the table.
CloseEndKeepsEntry(c) ==
  /\ ~dead
  /\ op[c] = "clientClose"
  /\ pc[c] = "removing"
  /\ hungUp[handle[c]] \/ outPipe[handle[c]] = Nothing
  /\ pc' = [pc EXCEPT ![c] = "closed"]
  /\ Reply(c)
  /\ ClientDone(c)
  /\ hungUp' = [hungUp EXCEPT ![handle[c]] = TRUE]
  /\ UNCHANGED <<clientMap, connectionID, handle, shut, dead, refused, orderly,
                 wrote, got, spawned, inPipe, outPipe, drain, serverVars,
                 historyVars>>

\* close_notify has been read: the pipe is closed, the entry of the table is
\* deleted, the handler answers.
CloseEnd(c) ==
  /\ op[c] = "clientClose"
  /\ pc[c] = "removing"
  /\ hungUp[handle[c]] \/ outPipe[handle[c]] = Nothing
  /\ T!Remove(c)
  /\ Reply(c)
  /\ ClientDone(c)
  /\ hungUp' = [hungUp EXCEPT ![handle[c]] = TRUE]
  /\ UNCHANGED <<wrote, got, spawned, inPipe, outPipe, drain, serverVars,
                 historyVars>>

\* The goroutine of /clientClose takes what the server side wrote.
DrainReads(h) ==
  /\ ~dead
  /\ drain[h]
  /\ ~hungUp[h]
  /\ outPipe[h] # Nothing
  /\ outPipe' = [outPipe EXCEPT ![h] = Nothing]
  /\ discarded' = IF IsAlert(outPipe[h]) THEN discarded ELSE discarded \cup {h}
  /\ UNCHANGED <<tableVars, handlerVars, clientVars, spawned, inPipe, drain,
                 hungUp, serverVars, cause, overtaken>>

DrainEnds(h) ==
  /\ ~dead
  /\ drain[h]
  /\ hungUp[h]
  /\ drain' = [drain EXCEPT ![h] = FALSE]
  /\ UNCHANGED <<tableVars, handlerVars, clientVars, spawned, inPipe, outPipe,
                 hungUp, serverVars, historyVars>>

-----------------------------------------------------------------------------
(***************************************************************************)
(* The goroutines of /clientWrite.  io.Pipe admits one Write at a time and *)
(* does not say which of those that wait comes next.                       *)
(***************************************************************************)

WriterEnters(h) ==
  /\ ~dead
  /\ ~hungUp[h]
  /\ inPipe[h] = Nothing
  /\ \E r \in spawned[h] :
       /\ inPipe' = [inPipe EXCEPT ![h] = r]
       /\ spawned' = [spawned EXCEPT ![h] = @ \ {r}]
       /\ overtaken' = IF \E q \in spawned[h] : q.from = r.from /\ q.n < r.n
                       THEN overtaken \cup {h} ELSE overtaken
  /\ UNCHANGED <<tableVars, handlerVars, clientVars, outPipe, drain, hungUp,
                 serverVars, cause, discarded>>

\* The pipe is closed: Write returns an error, which is only logged.
WriterFails(h) ==
  /\ ~dead
  /\ hungUp[h]
  /\ \/ /\ inPipe[h] # Nothing
        /\ inPipe' = [inPipe EXCEPT ![h] = Nothing]
        /\ UNCHANGED spawned
     \/ /\ \E r \in spawned[h] : spawned' = [spawned EXCEPT ![h] = @ \ {r}]
        /\ UNCHANGED inPipe
  /\ UNCHANGED <<tableVars, handlerVars, clientVars, outPipe, drain, hungUp,
                 serverVars, historyVars>>

-----------------------------------------------------------------------------
(***************************************************************************)
(* DoTransfer                                                              *)
(***************************************************************************)

\* Any error ends in panic, in a goroutine nothing recovers.
Panic(h, why) ==
  /\ T!TransferPanics(h)
  /\ cause' = why
  /\ UNCHANGED <<handlerVars, clientVars, pipeVars, serverVars, overtaken,
                 discarded>>

\* The TLS session is broken.  crypto/tls says so in an alert, which waits in
\* the pipe for a reader, before DoTransfer learns of it.
BreaksSession(h, why) ==
  /\ inPipe' = [inPipe EXCEPT ![h] = Nothing]
  /\ alert' = [alert EXCEPT ![h] = why]
  /\ outPipe' = [outPipe EXCEPT ![h] =
                    IF @ = Nothing THEN Unit(h, FatalAlert) ELSE @]
  /\ UNCHANGED <<tableVars, handlerVars, clientVars, spawned, drain, hungUp,
                 stage, session, rcvd, sent, writing, untilClose, historyVars>>

\* The alert was read, or the pipe closed: DoTransfer gets its error.
AlertWritten(h) ==
  /\ alert[h] # "none"
  /\ outPipe[h] = Nothing \/ hungUp[h]
  /\ Panic(h, alert[h])

\* What the TLS session of handle h accepts next.
Fits(h, r) ==
  /\ r.n = rcvd[h] + 1
  /\ stage[h] = "hello" \/ r.from = session[h]

Take(h) ==
  /\ inPipe' = [inPipe EXCEPT ![h] = Nothing]
  /\ rcvd' = [rcvd EXCEPT ![h] = @ + 1]
  /\ UNCHANGED <<tableVars, handlerVars, clientVars, spawned, outPipe, drain,
                 hungUp, sent, writing, untilClose, alert, historyVars>>

\* A piece of the client is there to read, and the session to read it in.
Arrived(h) ==
  /\ ~dead
  /\ ~hungUp[h]
  /\ inPipe[h] # Nothing
  /\ alert[h] = "none"

\* The handshake and http.ReadRequest read one piece after the other.
ServerReads(h) ==
  /\ Arrived(h)
  /\ stage[h] \in {"hello", "finish", "head"}
  /\ \/ /\ Fits(h, inPipe[h])
        /\ Take(h)
        /\ session' = [session EXCEPT ![h] = inPipe[h].from]
        /\ stage' = [stage EXCEPT ![h] = CASE @ = "hello"  -> "flight"
                                           [] @ = "finish" -> "head"
                                           [] @ = "head"   -> "backend"]
     \/ /\ ~Fits(h, inPipe[h])
        /\ BreaksSession(h, "piece")

\* The client's certificate is not trusted, which TLS tells it; or it names no
\* service, or the request makes no sense, and DoTransfer panics at once.
ServerRejects(h) ==
  /\ "rejected" \in Hazards
  /\ Arrived(h)
  /\ Fits(h, inPipe[h])
  /\ \/ stage[h] = "finish" /\ BreaksSession(h, "rejected")
     \/ stage[h] = "head"   /\ Panic(h, "rejected")

ServerReadFails(h) ==
  /\ hungUp[h]
  /\ alert[h] = "none"
  /\ stage[h] \in {"hello", "finish", "head"}
  /\ Panic(h, "closed")

\* While the backend is at work its client passes the rest of the request body
\* on, as far as the backend takes it.  (An alert waits for the end of a Write.)
BodyPasses(h) ==
  /\ Arrived(h)
  /\ stage[h] \in {"backend", "response"}
  /\ rcvd[h] < LastReq
  /\ \/ /\ Fits(h, inPipe[h])
        /\ Take(h)
        /\ UNCHANGED <<session, stage>>
     \/ /\ ~Fits(h, inPipe[h])
        /\ ~writing[h]
        /\ BreaksSession(h, "piece")

\* The backend answers; it need not have read the whole request.
BackendAnswers(h) ==
  /\ ~dead
  /\ stage[h] = "backend"
  /\ stage' = [stage EXCEPT ![h] = "response"]
  /\ \E b \in {FALSE} \cup {"untilClose" \in Hazards} :
       untilClose' = [untilClose EXCEPT ![h] = b]
  /\ UNCHANGED <<tableVars, handlerVars, clientVars, pipeVars, session, rcvd,
                 sent, writing, alert, historyVars>>

\* The request to the backend fails, or reading the body of its answer does.
BackendFails(h) ==
  /\ "backend" \in Hazards
  /\ stage[h] \in {"backend", "response"}
  /\ ~writing[h]
  /\ Panic(h, "backend")

\* A Write begins; after a Close it fails.
ServerWrites(h) ==
  /\ ~dead
  /\ stage[h] \in {"flight", "response"}
  /\ ~writing[h]
  /\ alert[h] = "none"
  /\ \/ /\ h \notin shut
        /\ outPipe' = [outPipe EXCEPT ![h] = Unit(h, sent[h] + 1)]
        /\ writing' = [writing EXCEPT ![h] = TRUE]
        /\ UNCHANGED <<tableVars, handlerVars, clientVars, spawned, inPipe,
                       drain, hungUp, stage, session, rcvd, sent, untilClose,
                       alert, historyVars>>
     \/ /\ h \in shut
        /\ Panic(h, "closed")

\* Mutant: DoTransfer's goroutine closes the connection when it is done.
ServerWroteAndCloses(h) ==
  /\ ~dead
  /\ writing[h]
  /\ outPipe[h] = Nothing
  /\ writing' = [writing EXCEPT ![h] = FALSE]
  /\ sent' = [sent EXCEPT ![h] = @ + 1]
  /\ stage' = [stage EXCEPT ![h] = CASE @ = "flight"              -> "finish"
                                     [] sent[h] + 1 = LastUnit    -> "done"
                                     [] OTHER                     -> @]
  /\ outPipe' = [outPipe EXCEPT ![h] =
                   IF sent[h] + 1 = LastUnit THEN Unit(h, 0) ELSE @]
  /\ UNCHANGED <<tableVars, handlerVars, clientVars, spawned, inPipe, drain,
                 hungUp, session, rcvd, untilClose, alert, historyVars>>

\* Mutant: DoTransfer's goroutine deletes the entry of its handle at the end.
ServerWroteRemoves(h) ==
  /\ ~dead
  /\ writing[h]
  /\ outPipe[h] = Nothing
  /\ writing' = [writing EXCEPT ![h] = FALSE]
  /\ sent' = [sent EXCEPT ![h] = @ + 1]
  /\ stage' = [stage EXCEPT ![h] = CASE @ = "flight"           -> "finish"
                                     [] sent[h] + 1 = LastUnit -> "done"
                                     [] OTHER                  -> @]
  /\ clientMap' = IF sent[h] + 1 = LastUnit
                  THEN T!WithoutEntry(connectionID[h]) ELSE clientMap
  /\ UNCHANGED <<connectionID, pc, handle, shut, dead, refused, orderly,
                 handlerVars, clientVars, pipeVars, session, rcvd, untilClose,
                 alert, historyVars>>

\* A Write returns, because its piece was read or because the pipe was closed.
\* DoTransfer ends with its last Write and leaves the connection open.
ServerWrote(h) ==
  /\ ~dead
  /\ writing[h]
  /\ \/ /\ outPipe[h] = Nothing
        /\ writing' = [writing EXCEPT ![h] = FALSE]
        /\ sent' = [sent EXCEPT ![h] = @ + 1]
        /\ stage' = [stage EXCEPT ![h] = CASE @ = "flight"           -> "finish"
                                           [] sent[h] + 1 = LastUnit -> "done"
                                           [] OTHER                  -> @]
        /\ UNCHANGED <<tableVars, handlerVars, clientVars, pipeVars, session,
                       rcvd, untilClose, alert, historyVars>>
     \/ /\ outPipe[h] # Nothing
        /\ hungUp[h]
        /\ Panic(h, "closed")

\* An access of the table races with a store in it: see ConnTable.
MapFault(c) ==
  /\ pc[c] = "open" => client[c] = "active" /\ op[c] = "none"
  /\ pc[c] = "removing" => hungUp[handle[c]] \/ outPipe[handle[c]] = Nothing
  /\ T!MapFault(c)
  /\ cause' = "map"
  /\ UNCHANGED <<handlerVars, clientVars, pipeVars, serverVars, overtaken,
                 discarded>>

-----------------------------------------------------------------------------
\* The handles whose DoTransfer had the request of c executed by the backend.
ExecutedBy(c) ==
  {h \in Conns : session[h] = c /\ stage[h] \in {"backend", "response", "done"}}

R == INSTANCE RemoteCall WITH
       Calls <- Conns, Servers <- Conns,
       executedBy <- [c \in Conns |-> ExecutedBy(c)], outcome <- client

-----------------------------------------------------------------------------
Handler(c) ==
  \/ NewRequest(c)
  \/ NewRequestStores(c)
  \/ NewRequestReplies(c)
  \/ Call(c)
  \/ LockHandle(c)
  \/ ClientWrite(c)
  \/ ClientRead(c)
  \/ ClientReadEOF(c)
  \/ CloseStart(c)
  \/ CloseEnd(c)

Goroutine(h) ==
  \/ WriterEnters(h)
  \/ WriterFails(h)
  \/ DrainReads(h)
  \/ DrainEnds(h)

Transfer(h) ==
  \/ ServerReads(h)
  \/ ServerReadFails(h)
  \/ AlertWritten(h)
  \/ BackendAnswers(h)
  \/ ServerWrites(h)
  \/ ServerWrote(h)

Environment(c) ==
  \/ ServerRejects(c)
  \/ BodyPasses(c)
  \/ BackendFails(c)
  \/ NetworkFails(c)
  \/ MapFault(c)

Next ==
  \E c \in Conns : Handler(c) \/ Goroutine(c) \/ Transfer(c) \/ Environment(c)

Spec == Init /\ [][Next]_vars

(***************************************************************************)
(* Go runs every goroutine that can run: a client makes its next call, a   *)
(* handler, a goroutine and DoTransfer take their next step.  The backend  *)
(* is assumed to answer, and the body of its answer to come, and so is the *)
(* body of the request from the caller of the client.  Nothing is assumed  *)
(* of how much of a request the backend reads, nor of anything that fails. *)
(***************************************************************************)
Fairness ==
  \A c \in Conns : WF_vars(Handler(c)) /\ WF_vars(Transfer(c))
                     /\ WF_vars(WriterEnters(c)) /\ WF_vars(WriterFails(c))
                     /\ WF_vars(DrainReads(c)) /\ WF_vars(DrainEnds(c))

FairSpec == Spec /\ Fairness

-----------------------------------------------------------------------------
(***************************************************************************)
(* Properties                                                              *)
(***************************************************************************)

\* The types of the variables.
TypeOK ==
  /\ T!TypeOK
  /\ op \in [Conns -> {"none", "newRequest", "clientWrite", "clientRead",
                       "clientClose"}]
  /\ locked \in [Conns -> {"none", "read", "write"}]
  /\ client \in [Conns -> {"active", "done", "failed"}]
  /\ wrote \in [Conns -> 0 .. CloseNotify]
  /\ got \in [Conns -> Seq(Units)]
  /\ spawned \in [Conns -> SUBSET Records]
  /\ inPipe \in [Conns -> Records \cup {Nothing}]
  /\ outPipe \in [Conns -> Units \cup {Nothing}]
  /\ drain \in [Conns -> BOOLEAN]
  /\ hungUp \in [Conns -> BOOLEAN]
  /\ stage \in [Conns -> Stages]
  /\ session \in [Conns -> Conns \cup {NoHandle}]
  /\ rcvd \in [Conns -> 0 .. CloseNotify]
  /\ sent \in [Conns -> 0 .. LastUnit]
  /\ writing \in [Conns -> BOOLEAN]
  /\ untilClose \in [Conns -> BOOLEAN]
  /\ alert \in [Conns -> {"none", "piece", "rejected"}]
  /\ cause \in {"none", "piece", "closed", "backend", "rejected", "map"}
  /\ overtaken \subseteq Conns
  /\ discarded \subseteq Conns

\* While requests are orderly, the process dies of the tunnel in two ways only: a
\* piece of a request overtook an older one between two goroutines of
\* /clientWrite, or a call read the table while a /newRequest stored into it.
\* Otherwise the backend failed, or DoTransfer refused its client.  It never
\* finds its connection closed under it, although /clientClose does not wait for
\* it, and never takes what one client sent for something of another.
PanicCauses ==
  dead /\ orderly =>
    \/ cause = "backend"
    \/ cause = "rejected"
    \/ cause = "map" /\ T!Storing # {}
    \/ cause = "piece" /\ \E h \in overtaken : alert[h] = "piece"

\* While requests are orderly and calls do not fail, a client only fails because
\* its own DoTransfer has told it so in an alert, and that was because it was
\* refused or because one of its own pieces was overtaken.  What it is sent
\* before is always the next piece of its own session, and its handle stays
\* until it has closed it.
FailuresAreTold ==
  orderly /\ "network" \notin Hazards =>
    \A c \in Conns : client[c] = "failed" =>
      \/ alert[c] = "rejected"
      \/ alert[c] = "piece" /\ c \in overtaken

\* Whatever the table does, a client that is done was answered by one handle,
\* with which it had its session, which had read the head of its request and had
\* written the whole answer, and it read that answer in order.
AnswerIntegrity ==
  \A c \in Conns : client[c] = "done" =>
    \E h \in Conns :
      /\ session[h] = c
      /\ rcvd[h] >= 3
      /\ sent[h] = LastUnit \/ (sent[h] = LastUnit - 1 /\ writing[h])
      /\ Len(got[c]) >= LastUnit
      /\ \A n \in 1 .. LastUnit : got[c][n].to = c /\ got[c][n].n = n

\* While requests are orderly, the goroutine that /clientClose starts to read
\* "all server sent data" never swallows a piece of an answer.
NoDiscard == orderly => discarded = {}

\* Whatever the table does, /clientRead and the reading goroutine of
\* /clientClose never compete for a piece of the same pipe.
ReadNeverRacesDrain ==
  \A c, h \in Conns : Holds(c, h, "read") /\ drain[h] => hungUp[h]

\* While requests are orderly, a client whose answer ends with the connection
\* never comes to its end: DoTransfer leaves the connection open, and the client
\* would close it only after the end of the answer.
CloseDelimitedNeverEnds ==
  orderly => \A c \in Conns : untilClose[c] => client[c] # "done"

\* What a client that fails leaves behind stays: NewHttpClient returns without
\* Close, nothing else deletes an entry, and as long as requests are orderly no
\* other connection's /clientClose deletes it by mistake.  (The ids count the
\* entries that were left, so they stay free: see DenseIDs of ConnTable.)
FailedStaysInTable ==
  [][orderly' => \A c \in T!Handles : client[c] = "failed"
                                        => c \in T!Handles']_vars

\* The server side reads the pieces of a client in the order in which
\* /clientWrite acknowledged them.
InOrder == overtaken = {}

\* When requests are orderly, every client is answered, unless its answer ends
\* with the connection or the process dies (PanicCauses says of what): no wait of
\* a call, of a goroutine or of DoTransfer, on a lock or on a pipe, lasts
\* forever, even when the backend answers before it has read the request.
Answered ==
  []orderly => \A c \in Conns : <>(client[c] = "done" \/ untilClose[c] \/ dead)

\* When requests are orderly, everything the connection of a client used is given
\* back after the client is done: the entry of the table, the locks and
\* goroutines of the handle, and DoTransfer.
Released ==
  []orderly =>
    \A c \in Conns :
      client[c] = "done" ~>
        \/ dead
        \/ /\ c \notin T!Handles
           /\ \A d \in Conns : handle[d] = c => locked[d] = "none"
           /\ spawned[c] = {} /\ inPipe[c] = Nothing
           /\ ~drain[c] /\ hungUp[c]
           /\ stage[c] = "done"

\* The tunnel keeps the promise of RemoteCall, even when ids collide, calls fail
\* or the process dies: a request is executed at most once and an answered
\* request was executed.
CallRefinement == R!Spec

\* What the connection of a client used is not left behind: its /clientClose is
\* over, its pipe is closed, so that whoever waits there is let go, and its entry
\* is deleted.
GivenBack(c) == pc[c] = "closed" /\ hungUp[c] /\ c \notin T!Handles

\* While requests are orderly and calls do not fail, a client that is done has
\* given its connection back.  (That the goroutines on the pipe then end,
\* Released says.)
DoneIsClosed ==
  orderly /\ "network" \notin Hazards =>
    \A c \in Conns : client[c] = "done" => GivenBack(c)

=============================================================================
