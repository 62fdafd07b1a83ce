----------------------- MODULE HttpTunnelOrderlyProofs -----------------------
(***************************************************************************)
(* Theorems about the HTTP tunnel while requests are orderly, for any      *)
(* number of clients, sizes of request and answer, and hazards: of what    *)
(* the process may die, of what a client may fail, that nothing of an      *)
(* answer is lost to /clientClose, that an answer without length never     *)
(* ends, and what a client that is done leaves behind.                     *)
(***************************************************************************)
EXTENDS HttpTunnelCallProofs

(***************************************************************************)
(* While requests are orderly a call works on the handle of its own client *)
(* (OwnHandle), so a client and its handle can be looked at alone.         *)
(***************************************************************************)

\* What comes in at a handle is of its own client.
OwnPieces(c) ==
  /\ session[c] \in {c, NoHandle}
  /\ \A r \in spawned[c] : r.from = c
  /\ inPipe[c] # Nothing => inPipe[c].from = c

\* Piece n of the client is on its way to the server side of its handle.
OnItsWay(c, n) ==
  \/ Record(c, n) \in spawned[c]
  \/ inPipe[c] # Nothing /\ inPipe[c] = Record(c, n)

\* The client may write another piece of its own accord.
MayWrite(c) ==
  wrote[c] < CloseNotify /\ (client[c] = "active" \/ op[c] = "clientWrite")

\* Until the pipe is closed or the session breaks, the pieces on their way are
\* those after the last one read, without a gap and each once; the one in the
\* pipe is the next one, unless it was overtaken.
NoGap(c) ==
  ~hungUp[c] /\ alert[c] = "none" =>
    /\ wrote[c] < CloseNotify =>
         \A n \in 1 .. wrote[c] : n =< rcvd[c] \/ OnItsWay(c, n)
    /\ MayWrite(c) =>
         /\ rcvd[c] =< wrote[c]
         /\ \A n \in 1 .. CloseNotify : OnItsWay(c, n) => n =< wrote[c]
    /\ \A n \in 1 .. CloseNotify :
         OnItsWay(c, n) =>
           /\ rcvd[c] < n
           /\ \A m \in (rcvd[c] + 1) .. n : OnItsWay(c, m)
    /\ inPipe[c] # Nothing => inPipe[c] \notin spawned[c]
    /\ inPipe[c] # Nothing /\ c \notin overtaken => inPipe[c].n = rcvd[c] + 1

\* A client that has not failed has read what the server side wrote.
InStep(c) ==
  client[c] # "failed" =>
    Len(got[c]) = IF writing[c] /\ outPipe[c] = Nothing THEN sent[c] + 1
                                                        ELSE sent[c]

\* The client of a handle that is being closed, or is closed, has its answer.
Closing(c) ==
  \/ hungUp[c] \/ drain[c] \/ c \in shut
  \/ outPipe[c] # Nothing /\ outPipe[c].n = Farewell

ClosedWhenAnswered(c) == Closing(c) => AnswerComplete(c)

\* Every piece of the answer says of it what the backend's answer was.
SameEnd(c) ==
  /\ \A n \in 2 .. Len(got[c]) : got[c][n].untilClose = untilClose[c]
  /\ outPipe[c] # Nothing /\ outPipe[c].n \in 2 .. LastUnit =>
       outPipe[c].untilClose = untilClose[c]

\* A session breaks on a piece that was overtaken.
BrokenByOvertaking(c) == alert[c] = "piece" => c \in overtaken

ConnInv(c) ==
  /\ OwnPieces(c) /\ NoGap(c) /\ InStep(c) /\ ClosedWhenAnswered(c)
  /\ SameEnd(c) /\ BrokenByOvertaking(c)

OrderlyInv == orderly => \A c \in Conns : ConnInv(c)

\* What the proofs of a step start from.
Orderly ==
  CallInv /\ T!OwnHandle /\ orderly /\ \A c \in Conns : ConnInv(c)

-----------------------------------------------------------------------------
(***************************************************************************)
(* A connection alone                                                      *)
(***************************************************************************)

\* A step leaves all of a client and its handle alone.
SameConn(c) ==
  /\ op'[c] = op[c] /\ client'[c] = client[c]
  /\ wrote'[c] = wrote[c] /\ got'[c] = got[c]
  /\ spawned'[c] = spawned[c] /\ inPipe'[c] = inPipe[c]
  /\ outPipe'[c] = outPipe[c] /\ drain'[c] = drain[c] /\ hungUp'[c] = hungUp[c]
  /\ session'[c] = session[c] /\ rcvd'[c] = rcvd[c] /\ sent'[c] = sent[c]
  /\ writing'[c] = writing[c] /\ untilClose'[c] = untilClose[c]
  /\ alert'[c] = alert[c]
  /\ (c \in shut' <=> c \in shut) /\ (c \in overtaken' <=> c \in overtaken)

\* A call works on the handle of its own client.
LEMMA OwnHandleOnly ==
  ASSUME T!OwnHandle, orderly, NEW c \in Conns,
         pc[c] \in {"resolved", "removing"}
  PROVE  handle[c] = c
BY DEF T!OwnHandle

\* So the calls of one client leave the other connections alone.
LEMMA OtherHandlers ==
  ASSUME TypeOK, T!OwnHandle, orderly,
         NEW c \in Conns, NEW d \in Conns \ {c}, Handler(d)
  PROVE  SameConn(c)
<1>1. CASE NewRequest(d) \/ NewRequestStores(d) \/ NewRequestReplies(d)
  BY <1>1 DEF NewRequest, NewRequestStores, NewRequestReplies, T!AllocateID,
              T!BeginStore, T!EndStore, SameConn, handlerVars, clientVars,
              pipeVars, serverVars, historyVars, TypeOK
<1>2. CASE Call(d)
  BY <1>2 DEF Call, CallFails, T!Resolve, SameConn, clientVars, pipeVars,
              serverVars, historyVars, TypeOK
<1>3. CASE LockHandle(d)
  <2>1. handle[d] = d
    BY <1>3, OwnHandleOnly DEF LockHandle
  <2> QED
    BY <1>3, <2>1 DEF LockHandle, SameConn, tableVars, clientVars, serverVars,
                      historyVars, TypeOK
<1>4. CASE ClientWrite(d)
  <2>1. handle[d] = d
    BY <1>4, OwnHandleOnly DEF ClientWrite, T!Serve
  <2> QED
    BY <1>4, <2>1 DEF ClientWrite, Reply, T!Serve, SameConn, serverVars,
                      historyVars, TypeOK
<1>5. CASE ClientRead(d)
  <2>1. handle[d] = d
    BY <1>5, OwnHandleOnly DEF ClientRead, T!Serve
  <2> QED
    BY <1>5, <2>1 DEF ClientRead, Reply, T!Serve, SameConn, serverVars,
                      historyVars, TypeOK
<1>6. CASE ClientReadEOF(d)
  BY <1>6 DEF ClientReadEOF, Reply, T!Serve, SameConn, pipeVars, serverVars,
              historyVars, TypeOK
<1>7. CASE CloseStart(d)
  <2>1. handle[d] = d
    BY <1>7, OwnHandleOnly DEF CloseStart, T!CloseConn
  <2>2. /\ op'[c] = op[c] /\ client'[c] = client[c]
        /\ outPipe'[c] = outPipe[c] /\ hungUp'[c] = hungUp[c]
    BY <1>7, <2>1 DEF CloseStart, ClientDone, Reply, handlerVars, TypeOK
  <2>3. c \in shut' <=> c \in shut
    BY <1>7, <2>1 DEF CloseStart, T!CloseConn
  <2> QED
    BY <1>7, <2>2, <2>3 DEF CloseStart, SameConn, serverVars, historyVars
<1>8. CASE CloseEnd(d)
  <2>1. handle[d] = d
    BY <1>8, OwnHandleOnly DEF CloseEnd, T!Remove
  <2> QED
    BY <1>8, <2>1 DEF CloseEnd, ClientDone, Reply, T!Remove, SameConn,
                      serverVars, historyVars, TypeOK
<1> QED
  BY <1>1, <1>2, <1>3, <1>4, <1>5, <1>6, <1>7, <1>8 DEF Handler

\* A panic, or a fault of the map, leaves all connections alone.
LEMMA DeathLeavesConns ==
  ASSUME NEW c \in Conns, NEW d \in Conns, NEW why,
         Panic(d, why) \/ MapFault(d)
  PROVE  SameConn(c)
BY DEF Panic, MapFault, T!TransferPanics, T!MapFault, SameConn, handlerVars,
       clientVars, pipeVars, serverVars

\* The goroutines of a handle, its DoTransfer and the environment leave the
\* other connections alone.
LEMMA OtherGoroutines ==
  ASSUME TypeOK, NEW c \in Conns, NEW d \in Conns \ {c},
         Goroutine(d) \/ Transfer(d) \/ Environment(d)
  PROVE  SameConn(c)
<1>1. CASE Goroutine(d)
  <2>1. CASE WriterEnters(d)
    BY <2>1 DEF WriterEnters, SameConn, tableVars, handlerVars, clientVars,
                serverVars, TypeOK
  <2>2. CASE WriterFails(d)
    <3>1. spawned'[c] = spawned[c] /\ inPipe'[c] = inPipe[c]
      BY <2>2 DEF WriterFails, TypeOK
    <3> QED
      BY <2>2, <3>1 DEF WriterFails, SameConn, tableVars, handlerVars,
                        clientVars, serverVars, historyVars
  <2>3. CASE DrainReads(d) \/ DrainEnds(d)
    BY <2>3 DEF DrainReads, DrainEnds, SameConn, tableVars, handlerVars,
                clientVars, serverVars, historyVars, TypeOK
  <2> QED
    BY <1>1, <2>1, <2>2, <2>3 DEF Goroutine
<1>2. CASE ServerReads(d) \/ BodyPasses(d)
  <2>1. CASE BreaksSession(d, "piece")
    BY <2>1 DEF BreaksSession, SameConn, tableVars, handlerVars, clientVars,
                historyVars, TypeOK
  <2>2. CASE Take(d) /\ (UNCHANGED session
                         \/ session' = [session EXCEPT ![d] = inPipe[d].from])
    BY <2>2 DEF Take, SameConn, tableVars, handlerVars, clientVars,
                historyVars, TypeOK
  <2> QED
    BY <1>2, <2>1, <2>2 DEF ServerReads, BodyPasses
<1>3. CASE BackendAnswers(d)
  BY <1>3 DEF BackendAnswers, SameConn, tableVars, handlerVars, clientVars,
              pipeVars, historyVars, TypeOK
<1>4. CASE ServerWrites(d)
  <2>1. CASE Panic(d, "closed")
    BY <2>1, DeathLeavesConns
  <2>2. CASE ~Panic(d, "closed")
    BY <1>4, <2>2 DEF ServerWrites, SameConn, tableVars, handlerVars,
                      clientVars, historyVars, TypeOK
  <2> QED
    BY <2>1, <2>2
<1>5. CASE ServerWrote(d)
  <2>1. CASE Panic(d, "closed")
    BY <2>1, DeathLeavesConns
  <2>2. CASE ~Panic(d, "closed")
    BY <1>5, <2>2 DEF ServerWrote, SameConn, tableVars, handlerVars,
                      clientVars, pipeVars, historyVars, TypeOK
  <2> QED
    BY <2>1, <2>2
<1>6. CASE NetworkFails(d)
  BY <1>6 DEF NetworkFails, CallFails, SameConn, tableVars, handlerVars,
              pipeVars, serverVars, historyVars, TypeOK
<1>7. CASE ServerReadFails(d) \/ AlertWritten(d) \/ BackendFails(d)
           \/ MapFault(d)
  BY <1>7, DeathLeavesConns DEF ServerReadFails, AlertWritten, BackendFails
<1>8. CASE ServerRejects(d)
  <2>1. CASE Panic(d, "rejected")
    BY <2>1, DeathLeavesConns
  <2>2. CASE BreaksSession(d, "rejected")
    BY <2>2 DEF BreaksSession, SameConn, tableVars, handlerVars, clientVars,
                historyVars, TypeOK
  <2> QED
    BY <1>8, <2>1, <2>2 DEF ServerRejects
<1> QED
  BY <1>1, <1>2, <1>3, <1>4, <1>5, <1>6, <1>7, <1>8 DEF Transfer, Environment

\* What is known of a connection that is left alone stays known.
LEMMA ConnFrame ==
  ASSUME NEW c \in Conns, ConnInv(c), SameConn(c) PROVE ConnInv(c)'
<1>1. OwnPieces(c)'
  BY DEF ConnInv, OwnPieces, SameConn
<1>2. \A n : OnItsWay(c, n)' <=> OnItsWay(c, n)
  BY DEF OnItsWay, Record, SameConn
<1>3. MayWrite(c)' <=> MayWrite(c)
  BY DEF MayWrite, SameConn
<1>4. NoGap(c)'
  BY <1>2, <1>3 DEF ConnInv, NoGap, SameConn
<1>5. InStep(c)'
  BY DEF ConnInv, InStep, SameConn
<1>6. /\ Closing(c)' <=> Closing(c)
      /\ AnswerComplete(c)' <=> AnswerComplete(c)
  BY DEF Closing, AnswerComplete, SameConn
<1>7. SameEnd(c)' /\ BrokenByOvertaking(c)'
  BY DEF ConnInv, SameEnd, BrokenByOvertaking, LastUnit, SameConn
<1> QED
  BY <1>1, <1>4, <1>5, <1>6, <1>7 DEF ConnInv, ClosedWhenAnswered

\* Each part stays known in a step that changes nothing it is about.
LEMMA OwnPiecesFrame ==
  ASSUME NEW c \in Conns, OwnPieces(c), session'[c] = session[c],
         spawned'[c] \subseteq spawned[c], inPipe'[c] \in {inPipe[c], Nothing}
  PROVE  OwnPieces(c)'
BY DEF OwnPieces

\* (A client that fails after its answer goes on to clientClose.)
LEMMA NoGapFrame ==
  ASSUME NEW c \in Conns, NoGap(c),
         rcvd'[c] = rcvd[c], spawned'[c] = spawned[c], inPipe'[c] = inPipe[c],
         c \in overtaken' <=> c \in overtaken, alert'[c] = alert[c],
         hungUp[c] => hungUp'[c],
         MayWrite(c)' => MayWrite(c),
         wrote'[c] \in {wrote[c], CloseNotify}, wrote[c] =< CloseNotify,
         CloseNotify \in Nat
  PROVE  NoGap(c)'
<1>1. \A n : OnItsWay(c, n)' <=> OnItsWay(c, n)
  BY DEF OnItsWay, Record
<1>2. wrote'[c] < CloseNotify => wrote'[c] = wrote[c]
  OBVIOUS
<1>3. MayWrite(c)' => wrote'[c] = wrote[c]
  BY <1>2 DEF MayWrite
<1> QED
  BY <1>1, <1>2, <1>3 DEF NoGap

LEMMA InStepFrame ==
  ASSUME NEW c \in Conns, InStep(c),
         \/ client'[c] = client[c] \/ client'[c] = "failed"
         \/ client[c] = "active",
         got'[c] = got[c], sent'[c] = sent[c], writing'[c] = writing[c],
         writing[c] => (outPipe'[c] = Nothing <=> outPipe[c] = Nothing)
  PROVE  InStep(c)'
BY DEF InStep

LEMMA ClosedFrame ==
  ASSUME NEW c \in Conns, ClosedWhenAnswered(c), got'[c] = got[c],
         Closing(c)' => Closing(c) \/ AnswerComplete(c)
  PROVE  ClosedWhenAnswered(c)'
BY DEF ClosedWhenAnswered, AnswerComplete

LEMMA SameEndFrame ==
  ASSUME NEW c \in Conns, SameEnd(c), got'[c] = got[c],
         untilClose'[c] = untilClose[c],
         \/ outPipe'[c] \in {outPipe[c], Nothing}
         \/ outPipe'[c] # Nothing /\ IsAlert(outPipe'[c])
  PROVE  SameEnd(c)'
<1>1. ASSUME outPipe'[c] # Nothing, IsAlert(outPipe'[c])
      PROVE  outPipe'[c].n \notin 2 .. LastUnit
  BY <1>1, Sizes DEF IsAlert
<1>2. (2 .. LastUnit)' = 2 .. LastUnit
  BY DEF LastUnit
<1> QED
  BY <1>1, <1>2 DEF SameEnd

LEMMA BrokenFrame ==
  ASSUME NEW c \in Conns, BrokenByOvertaking(c), alert'[c] = alert[c],
         c \in overtaken => c \in overtaken'
  PROVE  BrokenByOvertaking(c)'
BY DEF BrokenByOvertaking

\* A client whose answer is whole has read its last piece, which says that the
\* answer has a length; the server side has nothing more to write.
LEMMA AnsweredConn ==
  ASSUME Orderly, NEW c \in Conns, AnswerComplete(c)
  PROVE  /\ client[c] # "failed" /\ op[c] # "clientRead"
         /\ Len(got[c]) = LastUnit
         /\ ~untilClose[c]
         /\ \/ stage[c] = "done" /\ ~writing[c]
            \/ stage[c] = "response" /\ writing[c] /\ outPipe[c] = Nothing
<1>1. /\ TypeOK /\ ClientInv(c) /\ ServerInv(c) /\ InStep(c) /\ SameEnd(c)
  BY DEF Orderly, CallInv, ConnInv
<1>2. client[c] # "failed" /\ op[c] # "clientRead"
  BY <1>1 DEF ClientInv
<1>3. /\ sent[c] \in Nat /\ sent[c] =< LastUnit /\ stage[c] \in Stages
      /\ Len(got[c]) \in Nat
  BY <1>1, Sizes DEF TypeOK
<1>4. Len(got[c]) >= LastUnit
  BY <1>3, Sizes DEF AnswerComplete
<1>5. writing[c] => stage[c] \in {"flight", "response"} /\ sent[c] < LastUnit
  BY <1>1, <1>3, Sizes DEF ServerInv, Stages
<1>6. \/ sent[c] = LastUnit /\ ~writing[c] /\ Len(got[c]) = LastUnit
      \/ /\ sent[c] = LastUnit - 1 /\ writing[c] /\ outPipe[c] = Nothing
         /\ Len(got[c]) = LastUnit
  <2>1. CASE writing[c]
    BY <1>1, <1>2, <1>3, <1>4, <1>5, <2>1, Sizes DEF InStep
  <2>2. CASE ~writing[c]
    BY <1>1, <1>2, <1>3, <1>4, <2>2, Sizes DEF InStep
  <2> QED
    BY <2>1, <2>2
<1>7. ~untilClose[c]
  <2>1. ~got[c][LastUnit].untilClose
    BY <1>6, Sizes DEF AnswerComplete
  <2>2. LastUnit \in 2 .. Len(got[c])
    BY <1>6, Sizes
  <2> QED
    BY <1>1, <2>1, <2>2 DEF SameEnd
<1>8. \/ stage[c] = "done" /\ ~writing[c]
      \/ stage[c] = "response" /\ writing[c] /\ outPipe[c] = Nothing
  <2>1. CASE sent[c] = LastUnit /\ ~writing[c]
    BY <1>1, <1>3, <2>1, Sizes DEF ServerInv, Stages
  <2>2. CASE sent[c] = LastUnit - 1 /\ writing[c] /\ outPipe[c] = Nothing
    BY <1>1, <1>5, <2>2, Sizes DEF ServerInv
  <2> QED
    BY <1>6, <2>1, <2>2
<1> QED
  BY <1>2, <1>6, <1>7, <1>8

\* A client that is done, or that closes, has its answer.
LEMMA ClosersAreAnswered ==
  ASSUME Orderly, NEW c \in Conns, op[c] = "clientClose"
  PROVE  AnswerComplete(c)
BY DEF Orderly, CallInv, ClientInv

-----------------------------------------------------------------------------
(***************************************************************************)
(* The steps of a connection                                               *)
(***************************************************************************)

\* The calls that move no piece.
LEMMA TalkKeepsConn ==
  ASSUME Orderly, NEW c \in Conns,
         \/ NewRequest(c) \/ NewRequestStores(c) \/ NewRequestReplies(c)
         \/ Call(c) \/ LockHandle(c) \/ ClientReadEOF(c) \/ NetworkFails(c)
  PROVE  ConnInv(c)'
<1>0. TypeOK /\ ConnInv(c) /\ wrote[c] =< CloseNotify /\ CloseNotify \in Nat
  BY Sizes DEF Orderly, CallInv, TypeOK
<1>1. /\ UNCHANGED <<got, spawned, inPipe, outPipe, hungUp, session, rcvd,
                     sent, writing, untilClose, alert, shut, overtaken>>
  BY DEF NewRequest, NewRequestStores, NewRequestReplies, Call, LockHandle,
         ClientReadEOF, NetworkFails, CallFails, T!AllocateID, T!BeginStore,
         T!EndStore, T!Resolve, T!Serve, tableVars, clientVars, pipeVars,
         serverVars, historyVars
<1>2. /\ client'[c] \in {client[c], "failed"} \/ client[c] = "active"
      /\ client'[c] = "active" => client[c] = "active"
      /\ wrote'[c] \in {wrote[c], CloseNotify}
  BY <1>0 DEF NewRequest, NewRequestStores, NewRequestReplies, Call,
              LockHandle, ClientReadEOF, NetworkFails, CallFails, clientVars,
              TypeOK
<1>3. op'[c] \in {op[c], "none", "newRequest"} \/ client[c] = "active"
  BY <1>0 DEF NewRequest, NewRequestStores, NewRequestReplies, Call,
              LockHandle, ClientReadEOF, NetworkFails, Reply, handlerVars,
              TypeOK
<1>4. MayWrite(c)' => MayWrite(c)
  BY <1>0, <1>2, <1>3 DEF MayWrite, TypeOK
<1>5. NoGap(c)'
  BY <1>0, <1>1, <1>2, <1>4, NoGapFrame DEF ConnInv
<1>6. OwnPieces(c)' /\ SameEnd(c)' /\ BrokenByOvertaking(c)'
  BY <1>0, <1>1, OwnPiecesFrame, SameEndFrame, BrokenFrame DEF ConnInv
<1>7. InStep(c)'
  BY <1>0, <1>1, <1>2, InStepFrame DEF ConnInv
<1>8. ClosedWhenAnswered(c)'
  <2>1. drain'[c] => drain[c] \/ op[c] = "clientClose"
    BY <1>0 DEF NewRequest, NewRequestStores, NewRequestReplies, Call,
                LockHandle, ClientReadEOF, NetworkFails, pipeVars, TypeOK
  <2>2. Closing(c)' => Closing(c) \/ AnswerComplete(c)
    BY <1>1, <2>1, ClosersAreAnswered DEF Closing
  <2> QED
    BY <1>0, <1>1, <2>2, ClosedFrame DEF ConnInv
<1> QED
  BY <1>5, <1>6, <1>7, <1>8 DEF ConnInv

\* /clientWrite puts the piece after the last one on its way.
LEMMA WriteKeepsConn ==
  ASSUME Orderly, NEW c \in Conns, ClientWrite(c) PROVE ConnInv(c)'
<1> DEFINE k == wrote[c] + 1
<1>0. TypeOK /\ ConnInv(c) /\ ClientInv(c)
  BY DEF Orderly, CallInv
<1>1. handle[c] = c
  BY OwnHandleOnly DEF Orderly, ClientWrite, T!Serve
<1>2. /\ op[c] = "clientWrite" /\ op'[c] = "none"
      /\ spawned'[c] = spawned[c] \cup {Record(c, k)}
      /\ wrote'[c] = IF client[c] = "active" THEN k ELSE wrote[c]
      /\ UNCHANGED <<client, got, inPipe, outPipe, drain, hungUp, session,
                     rcvd, sent, writing, untilClose, alert, shut, overtaken>>
  BY <1>0, <1>1
     DEF ClientWrite, Reply, T!Serve, serverVars, historyVars, TypeOK
<1>3. /\ wrote[c] \in Nat /\ wrote[c] < CloseNotify /\ CloseNotify \in Nat
      /\ rcvd[c] \in Nat /\ k \in 1 .. CloseNotify
  BY <1>0, <1>2, Sizes DEF ClientInv, TypeOK
<1>4. \A n : OnItsWay(c, n)' <=> OnItsWay(c, n) \/ n = k
  BY <1>2 DEF OnItsWay, Record
<1>5. NoGap(c)'
  <2> SUFFICES ASSUME ~hungUp[c], alert[c] = "none" PROVE NoGap(c)'
    BY <1>2 DEF NoGap
  <2>1. /\ \A n \in 1 .. wrote[c] : n =< rcvd[c] \/ OnItsWay(c, n)
        /\ rcvd[c] =< wrote[c]
        /\ \A n \in 1 .. CloseNotify : OnItsWay(c, n) => n =< wrote[c]
    BY <1>0, <1>2, <1>3 DEF ConnInv, NoGap, MayWrite
  <2>2. \A n \in 1 .. wrote'[c] : n =< rcvd[c] \/ OnItsWay(c, n)'
    BY <1>2, <1>3, <1>4, <2>1
  <2>3. MayWrite(c)' =>
          /\ rcvd[c] =< wrote'[c]
          /\ \A n \in 1 .. CloseNotify : OnItsWay(c, n)' => n =< wrote'[c]
    BY <1>2, <1>3, <1>4, <2>1 DEF MayWrite
  <2>4. ASSUME NEW n \in 1 .. CloseNotify, OnItsWay(c, n)'
        PROVE  /\ rcvd[c] < n
               /\ \A m \in (rcvd[c] + 1) .. n : OnItsWay(c, m)'
    <3>1. CASE n = k
      BY <1>3, <1>4, <2>1, <3>1
    <3>2. CASE OnItsWay(c, n)
      BY <1>0, <1>4, <3>2 DEF ConnInv, NoGap
    <3> QED
      BY <1>4, <2>4, <3>1, <3>2
  <2>5. inPipe[c] # Nothing => inPipe[c] \notin spawned'[c]
    <3> SUFFICES ASSUME inPipe[c] # Nothing, inPipe[c] = Record(c, k)
                 PROVE  FALSE
      BY <1>0, <1>2 DEF ConnInv, NoGap
    <3>1. OnItsWay(c, k)
      BY DEF OnItsWay
    <3> QED
      BY <1>3, <2>1, <3>1
  <2>6. inPipe[c] # Nothing /\ c \notin overtaken => inPipe[c].n = rcvd[c] + 1
    BY <1>0 DEF ConnInv, NoGap
  <2> QED
    BY <1>2, <2>2, <2>3, <2>4, <2>5, <2>6 DEF NoGap
<1>6. OwnPieces(c)'
  BY <1>0, <1>2 DEF ConnInv, OwnPieces, Record
<1>7. InStep(c)' /\ SameEnd(c)' /\ BrokenByOvertaking(c)'
  BY <1>0, <1>2, InStepFrame, SameEndFrame, BrokenFrame DEF ConnInv
<1>8. ClosedWhenAnswered(c)'
  BY <1>0, <1>2, ClosedFrame DEF ConnInv, Closing
<1> QED
  BY <1>5, <1>6, <1>7, <1>8 DEF ConnInv

\* What /clientRead finds in the pipe is the next piece of the answer, or says
\* that the session broke.
LEMMA NextPieceIsRead ==
  ASSUME Orderly, NEW c \in Conns, ClientRead(c)
  PROVE  /\ handle[c] = c /\ outPipe[c] \in Units
         /\ \/ outPipe[c].n = FatalAlert /\ alert[c] # "none"
               /\ ~Accepts(c, outPipe[c])
            \/ /\ ~IsAlert(outPipe[c]) /\ writing[c]
               /\ outPipe[c].to = c /\ outPipe[c].n = sent[c] + 1
               /\ client[c] # "failed" => Accepts(c, outPipe[c])
<1>0. TypeOK /\ ConnInv(c) /\ ClientInv(c) /\ OutPipeInv(c)
  BY DEF Orderly, CallInv
<1>1. handle[c] = c
  BY OwnHandleOnly DEF Orderly, ClientRead, T!Serve
<1>2. outPipe[c] # Nothing /\ outPipe[c] \in Units
  BY <1>0, <1>1 DEF ClientRead, TypeOK
<1>3. ~AnswerComplete(c)
  BY <1>0 DEF ClientRead, ClientInv
<1>4. outPipe[c].n # Farewell
  BY <1>0, <1>2, <1>3 DEF ConnInv, ClosedWhenAnswered, Closing
<1>5. CASE outPipe[c].n = FatalAlert
  <2>1. alert[c] # "none" /\ ~Accepts(c, outPipe[c])
    BY <1>0, <1>2, <1>4, <1>5 DEF OutPipeInv, Accepts, IsAlert
  <2> QED
    BY <1>1, <1>2, <1>5, <2>1
<1>6. CASE outPipe[c].n # FatalAlert
  <2>1. ~IsAlert(outPipe[c])
    BY <1>4, <1>6 DEF IsAlert
  <2>2. outPipe[c].to = c /\ writing[c] /\ outPipe[c].n = sent[c] + 1
    BY <1>0, <1>2, <1>6, <2>1, TunnelAssumption
       DEF OutPipeInv, ConnInv, OwnPieces
  <2>3. client[c] # "failed" => Accepts(c, outPipe[c])
    BY <1>0, <1>2, <2>1, <2>2 DEF ConnInv, InStep, Accepts
  <2> QED
    BY <1>1, <1>2, <2>1, <2>2, <2>3
<1> QED
  BY <1>5, <1>6

\* So /clientRead keeps the client in step with the server side.
LEMMA ReadKeepsConn ==
  ASSUME Orderly, NEW c \in Conns, ClientRead(c) PROVE ConnInv(c)'
<1> DEFINE u == outPipe[c]
<1>0. TypeOK /\ ConnInv(c) /\ ClientInv(c)
  BY DEF Orderly, CallInv
<1>1. /\ handle[c] = c /\ u \in Units /\ u # Nothing
      /\ \/ ~Accepts(c, u)
         \/ /\ ~IsAlert(u) /\ writing[c] /\ u.n = sent[c] + 1
            /\ client[c] # "failed" => Accepts(c, u)
  BY NextPieceIsRead, NothingAssumption
<1>2. /\ op[c] = "clientRead" /\ op'[c] = "none" /\ outPipe'[c] = Nothing
      /\ UNCHANGED <<wrote, spawned, inPipe, drain, hungUp, session, rcvd,
                     sent, writing, untilClose, alert, shut, overtaken>>
  BY <1>0, <1>1 DEF ClientRead, Reply, T!Serve, serverVars, historyVars, TypeOK
<1>3. \/ /\ client[c] = "active" /\ Accepts(c, u) /\ client' = client
         /\ got' = [got EXCEPT ![c] = Append(@, u)]
      \/ /\ \/ client'[c] = "failed"
            \/ client' = client /\ client[c] # "active"
         /\ UNCHANGED got
  <2>1. client \in [Conns -> {"active", "done", "failed"}]
    BY <1>0 DEF TypeOK
  <2> QED
    BY <1>1, <2>1 DEF ClientRead
<1>4. NoGap(c)' /\ OwnPieces(c)' /\ BrokenByOvertaking(c)'
  <2>1. MayWrite(c)' => MayWrite(c)
    BY <1>2, <1>3 DEF MayWrite
  <2> QED
    BY <1>0, <1>2, <2>1, NoGapFrame, OwnPiecesFrame, BrokenFrame, Sizes
       DEF ConnInv, TypeOK
<1>5. ~AnswerComplete(c) /\ client[c] # "done"
  BY <1>0, <1>2 DEF ClientInv
<1>6. ClosedWhenAnswered(c)'
  BY <1>0, <1>2, <1>5 DEF ConnInv, ClosedWhenAnswered, Closing
<1>7. CASE /\ client[c] = "active" /\ Accepts(c, u) /\ client' = client
           /\ got' = [got EXCEPT ![c] = Append(@, u)]
  <2>1. /\ got[c] \in Seq(Units) /\ got'[c] = Append(got[c], u)
        /\ client'[c] = client[c] /\ sent[c] \in Nat
        /\ ~IsAlert(u) /\ writing[c] /\ u.n = sent[c] + 1
    BY <1>0, <1>1, <1>7, Sizes DEF TypeOK
  <2>2. /\ Len(got'[c]) = Len(got[c]) + 1 /\ Len(got[c]) \in Nat
        /\ got'[c][Len(got[c]) + 1] = u
        /\ \A n \in 1 .. Len(got[c]) : got'[c][n] = got[c][n]
    BY <1>1, <2>1
  <2>3. Len(got[c]) = sent[c]
    BY <1>0, <1>1, <1>7, <2>1 DEF ConnInv, InStep
  <2>4. InStep(c)'
    BY <1>1, <1>2, <2>1, <2>2, <2>3 DEF InStep
  <2>5. \A n \in 2 .. Len(got'[c]) : got'[c][n].untilClose = untilClose[c]
    <3> SUFFICES ASSUME NEW n \in 2 .. Len(got'[c])
                 PROVE  got'[c][n].untilClose = untilClose[c]
      OBVIOUS
    <3>1. CASE n \in 2 .. Len(got[c])
      <4>1. n \in 1 .. Len(got[c])
        BY <2>2, <3>1
      <4> QED
        BY <1>0, <2>2, <3>1, <4>1 DEF ConnInv, SameEnd
    <3>2. CASE n = Len(got[c]) + 1
      <4>1. u.n \in 2 .. LastUnit
        BY <1>1, <2>1, <2>2, <2>3, <3>2, Sizes DEF IsAlert, Units
      <4> QED
        BY <1>0, <1>1, <2>2, <3>2, <4>1 DEF ConnInv, SameEnd
    <3> QED
      BY <2>2, <3>1, <3>2
  <2>6. SameEnd(c)'
    BY <1>2, <2>5 DEF SameEnd
  <2> QED
    BY <1>4, <1>6, <2>4, <2>6 DEF ConnInv
<1>8. CASE /\ \/ client'[c] = "failed"
              \/ client' = client /\ client[c] # "active"
           /\ UNCHANGED got
  <2>1. client'[c] = "failed" /\ got' = got
    BY <1>0, <1>5, <1>8 DEF TypeOK
  <2>2. InStep(c)' /\ SameEnd(c)'
    BY <1>0, <1>2, <2>1, SameEndFrame DEF ConnInv, InStep
  <2> QED
    BY <1>4, <1>6, <2>2 DEF ConnInv
<1> QED
  BY <1>3, <1>7, <1>8

\* /clientClose closes a handle whose client has its answer.
LEMMA CloseKeepsConn ==
  ASSUME Orderly, NEW c \in Conns, CloseStart(c) \/ CloseEnd(c)
  PROVE  ConnInv(c)'
<1>0. TypeOK /\ ConnInv(c)
  BY DEF Orderly, CallInv
<1>1. handle[c] = c /\ op[c] = "clientClose"
  BY OwnHandleOnly DEF Orderly, CloseStart, CloseEnd, T!CloseConn, T!Remove
<1>2. AnswerComplete(c)
  BY <1>1, ClosersAreAnswered
<1>3. /\ UNCHANGED <<wrote, got, spawned, inPipe, session, rcvd, sent, writing,
                     untilClose, alert, overtaken>>
      /\ op'[c] \in {op[c], "none"}
  BY <1>0 DEF CloseStart, CloseEnd, Reply, handlerVars, serverVars,
              historyVars, TypeOK
<1>4. /\ client'[c] \in {client[c], "done"}
      /\ client'[c] = client[c] \/ client[c] = "active"
  BY <1>0 DEF CloseStart, CloseEnd, ClientDone, TypeOK
<1>5. hungUp[c] => hungUp'[c]
  BY <1>0, <1>1 DEF CloseStart, CloseEnd, TypeOK
<1>6. \/ outPipe'[c] = outPipe[c]
      \/ outPipe'[c] = Unit(c, Farewell) /\ ~writing[c]
  BY <1>0, <1>1 DEF CloseStart, CloseEnd, TypeOK
<1>7. NoGap(c)'
  <2>1. MayWrite(c)' => MayWrite(c)
    BY <1>1, <1>3, <1>4 DEF MayWrite
  <2> QED
    BY <1>0, <1>3, <1>5, <2>1, NoGapFrame, Sizes DEF ConnInv, TypeOK
<1>8. OwnPieces(c)'
  BY <1>0, <1>3, OwnPiecesFrame DEF ConnInv
<1>9. InStep(c)'
  BY <1>0, <1>3, <1>4, <1>6, InStepFrame DEF ConnInv
<1>10. ClosedWhenAnswered(c)'
  BY <1>0, <1>2, <1>3, ClosedFrame DEF ConnInv
<1>11. SameEnd(c)' /\ BrokenByOvertaking(c)'
  <2>1. CASE outPipe'[c] = Unit(c, Farewell)
    <3>1. Unit(c, Farewell) \in Units /\ IsAlert(Unit(c, Farewell))
      BY <1>0, UnitType, Sizes DEF Unit, IsAlert
    <3> QED
      BY <1>0, <1>3, <2>1, <3>1, SameEndFrame, BrokenFrame, NothingAssumption
         DEF ConnInv
  <2> QED
    BY <1>0, <1>3, <1>6, <2>1, SameEndFrame, BrokenFrame DEF ConnInv
<1> QED
  BY <1>7, <1>8, <1>9, <1>10, <1>11 DEF ConnInv

\* A goroutine of /clientWrite brings a piece into the pipe.
LEMMA EnterKeepsConn ==
  ASSUME Orderly, NEW c \in Conns, WriterEnters(c) PROVE ConnInv(c)'
<1>0. TypeOK /\ ConnInv(c)
  BY DEF Orderly, CallInv
<1>1. PICK r \in spawned[c] :
        /\ inPipe'[c] = r /\ spawned'[c] = spawned[c] \ {r}
        /\ c \in overtaken' <=>
             \/ c \in overtaken
             \/ \E q \in spawned[c] : q.from = r.from /\ q.n < r.n
  BY <1>0 DEF WriterEnters, TypeOK
<1>2. /\ inPipe[c] = Nothing /\ ~hungUp[c]
      /\ UNCHANGED <<op, client, wrote, got, outPipe, drain, hungUp, session,
                     rcvd, sent, writing, untilClose, alert, shut>>
  BY DEF WriterEnters, tableVars, handlerVars, clientVars, serverVars
<1>3. /\ r \in Records /\ r # Nothing
      /\ r = Record(c, r.n) /\ r.n \in 1 .. CloseNotify
  BY <1>0, NothingAssumption DEF ConnInv, OwnPieces, TypeOK, Record, Records
<1>4. \A n : OnItsWay(c, n)' <=> OnItsWay(c, n)
  BY <1>1, <1>2, <1>3 DEF OnItsWay, Record
<1>5. alert[c] = "none" /\ c \notin overtaken' => r.n = rcvd[c] + 1
  <2> SUFFICES ASSUME alert[c] = "none", c \notin overtaken',
                      r.n # rcvd[c] + 1
               PROVE  FALSE
    OBVIOUS
  <2>1. rcvd[c] \in Nat /\ CloseNotify \in Nat
    BY <1>0, Sizes DEF TypeOK
  <2>2. OnItsWay(c, r.n)
    BY <1>3 DEF OnItsWay
  <2>3. rcvd[c] < r.n /\ \A m \in (rcvd[c] + 1) .. r.n : OnItsWay(c, m)
    BY <1>0, <1>2, <1>3, <2>2 DEF ConnInv, NoGap
  <2>4. rcvd[c] + 1 \in (rcvd[c] + 1) .. r.n /\ rcvd[c] + 1 < r.n
    BY <1>3, <2>1, <2>3
  <2>5. Record(c, rcvd[c] + 1) \in spawned[c]
    BY <1>2, <2>3, <2>4 DEF OnItsWay
  <2>6. /\ Record(c, rcvd[c] + 1).n = rcvd[c] + 1
        /\ Record(c, rcvd[c] + 1).from = r.from
    BY <1>3 DEF Record
  <2> QED
    BY <1>1, <2>4, <2>5, <2>6
<1>6. MayWrite(c)' <=> MayWrite(c)
  BY <1>2 DEF MayWrite
<1>7. NoGap(c)'
  BY <1>0, <1>1, <1>2, <1>3, <1>4, <1>5, <1>6 DEF ConnInv, NoGap
<1>8. OwnPieces(c)'
  BY <1>0, <1>1, <1>2 DEF ConnInv, OwnPieces
<1>9. InStep(c)' /\ SameEnd(c)' /\ ClosedWhenAnswered(c)'
  BY <1>0, <1>2, InStepFrame, SameEndFrame, ClosedFrame
     DEF ConnInv, Closing
<1>10. BrokenByOvertaking(c)'
  BY <1>0, <1>1, <1>2, BrokenFrame DEF ConnInv
<1> QED
  BY <1>7, <1>8, <1>9, <1>10 DEF ConnInv

\* The goroutines that end with the pipe, and the one that reads what the
\* server side still sends.
LEMMA GoroutineKeepsConn ==
  ASSUME Orderly, NEW c \in Conns,
         WriterFails(c) \/ DrainReads(c) \/ DrainEnds(c)
  PROVE  ConnInv(c)'
<1>0. TypeOK /\ ConnInv(c)
  BY DEF Orderly, CallInv
<1>1. /\ UNCHANGED <<op, client, wrote, got, hungUp, session, rcvd, sent,
                     writing, untilClose, alert, shut, overtaken>>
  BY DEF WriterFails, DrainReads, DrainEnds, tableVars, handlerVars,
         clientVars, serverVars, historyVars
<1>2. (MayWrite(c)' <=> MayWrite(c)) /\ BrokenByOvertaking(c)'
  BY <1>0, <1>1, BrokenFrame DEF MayWrite, ConnInv
<1>3. CASE WriterFails(c)
  <2>1. /\ hungUp[c] /\ UNCHANGED <<outPipe, drain>>
        /\ spawned'[c] \subseteq spawned[c]
        /\ inPipe'[c] \in {inPipe[c], Nothing}
    BY <1>0, <1>3 DEF WriterFails, TypeOK
  <2>2. NoGap(c)'
    BY <1>1, <2>1 DEF NoGap
  <2>3. InStep(c)' /\ SameEnd(c)' /\ ClosedWhenAnswered(c)'
    BY <1>0, <1>1, <2>1, InStepFrame, SameEndFrame, ClosedFrame
       DEF ConnInv, Closing
  <2> QED
    BY <1>0, <1>1, <1>2, <2>1, <2>2, <2>3, OwnPiecesFrame DEF ConnInv
<1>4. CASE DrainReads(c) \/ DrainEnds(c)
  <2>1. /\ UNCHANGED <<spawned, inPipe>>
        /\ outPipe'[c] \in {outPipe[c], Nothing}
        /\ drain[c] /\ drain'[c] \in {TRUE, FALSE}
    BY <1>0, <1>4 DEF DrainReads, DrainEnds, TypeOK
  <2>2. NoGap(c)'
    BY <1>0, <1>1, <1>2, <2>1, NoGapFrame, Sizes DEF ConnInv, TypeOK
  <2>3. AnswerComplete(c)
    BY <1>0, <2>1 DEF ConnInv, ClosedWhenAnswered, Closing
  <2>4. writing[c] => outPipe[c] = Nothing
    BY <2>3, AnsweredConn
  <2>5. InStep(c)' /\ SameEnd(c)' /\ ClosedWhenAnswered(c)' /\ OwnPieces(c)'
    BY <1>0, <1>1, <2>1, <2>3, <2>4, InStepFrame, SameEndFrame, ClosedFrame,
       OwnPiecesFrame DEF ConnInv
  <2> QED
    BY <1>2, <2>2, <2>5 DEF ConnInv
<1> QED
  BY <1>3, <1>4

\* A piece that arrives in a session and does not fit was overtaken.
LEMMA MisfitsWereOvertaken ==
  ASSUME Orderly, NEW c \in Conns, Arrived(c), ~Fits(c, inPipe[c]),
         stage[c] # "none"
  PROVE  c \in overtaken
<1>1. OwnPieces(c) /\ NoGap(c) /\ ServerInv(c)
  BY DEF Orderly, CallInv, ConnInv
<1>2. stage[c] # "hello" => session[c] = c
  BY <1>1, TunnelAssumption DEF ServerInv, OwnPieces
<1>3. inPipe[c].n # rcvd[c] + 1
  BY <1>1, <1>2 DEF Arrived, Fits, OwnPieces
<1> QED
  BY <1>1, <1>3 DEF Arrived, NoGap

\* A session that breaks says so, and takes nothing more.
LEMMA BreakKeepsConn ==
  ASSUME Orderly, NEW c \in Conns, NEW why \in {"piece", "rejected"},
         BreaksSession(c, why), ~writing[c], why = "piece" => c \in overtaken
  PROVE  ConnInv(c)'
<1>0. TypeOK /\ ConnInv(c)
  BY DEF Orderly, CallInv
<1> DEFINE u == Unit(c, FatalAlert)
<1>1. /\ inPipe'[c] = Nothing /\ alert'[c] = why /\ why # "none"
      /\ outPipe'[c] = IF outPipe[c] = Nothing THEN u ELSE outPipe[c]
      /\ UNCHANGED <<op, client, wrote, got, spawned, drain, hungUp, session,
                     rcvd, sent, writing, untilClose, shut, overtaken>>
  BY <1>0 DEF BreaksSession, tableVars, handlerVars, clientVars, historyVars,
              TypeOK
<1>2. u # Nothing /\ u.n = FatalAlert /\ IsAlert(u) /\ u.n # Farewell
  <2>1. u \in Units
    BY <1>0, UnitType, Sizes
  <2> QED
    BY <2>1, NothingAssumption, Sizes DEF Unit, IsAlert
<1> HIDE DEF u
<1>3. NoGap(c)' /\ BrokenByOvertaking(c)'
  BY <1>1 DEF NoGap, BrokenByOvertaking
<1>4. OwnPieces(c)'
  BY <1>0, <1>1, OwnPiecesFrame DEF ConnInv
<1>5. InStep(c)' /\ SameEnd(c)'
  BY <1>0, <1>1, <1>2, InStepFrame, SameEndFrame DEF ConnInv
<1>6. Closing(c)' => Closing(c)
  BY <1>1, <1>2 DEF Closing, Farewell
<1> QED
  BY <1>0, <1>1, <1>3, <1>4, <1>5, <1>6, ClosedFrame DEF ConnInv

\* DoTransfer refuses a piece that does not fit, or its client.
LEMMA RefusalKeepsConn ==
  ASSUME Orderly, NEW c \in Conns,
         \/ ServerRejects(c)
         \/ (ServerReads(c) \/ BodyPasses(c)) /\ BreaksSession(c, "piece")
  PROVE  ConnInv(c)'
<1>0. TypeOK /\ ConnInv(c) /\ ServerInv(c) /\ stage[c] \in Stages
  BY DEF Orderly, CallInv, TypeOK
<1>1. CASE Panic(c, "rejected")
  BY <1>0, <1>1, DeathLeavesConns, ConnFrame
<1>2. CASE ServerRejects(c) /\ BreaksSession(c, "rejected")
  <2>1. ~writing[c]
    BY <1>0, <1>2 DEF ServerRejects, ServerInv
  <2> QED
    BY <1>2, <2>1, BreakKeepsConn
<1>3. CASE (ServerReads(c) \/ BodyPasses(c)) /\ BreaksSession(c, "piece")
  <2>1. /\ Arrived(c) /\ stage[c] # "none" /\ ~Fits(c, inPipe[c])
        /\ ~writing[c]
    <3>1. ~Take(c) /\ Arrived(c)
      BY <1>0, <1>3 DEF ServerReads, BodyPasses, Arrived, Take, BreaksSession,
                        TypeOK
    <3> QED
      BY <1>0, <1>3, <3>1 DEF ServerReads, BodyPasses, ServerInv
  <2> QED
    BY <1>3, <2>1, BreakKeepsConn, MisfitsWereOvertaken
<1> QED
  BY <1>1, <1>2, <1>3 DEF ServerRejects

\* DoTransfer reads a piece.
LEMMA TakeKeepsConn ==
  ASSUME Orderly, NEW c \in Conns, ServerReads(c) \/ BodyPasses(c)
  PROVE  ConnInv(c)'
<1>0. TypeOK /\ ConnInv(c)
  BY DEF Orderly, CallInv
<1>1. CASE BreaksSession(c, "piece")
  BY <1>1, RefusalKeepsConn
<1>2. CASE ~BreaksSession(c, "piece")
  <2>1. /\ Fits(c, inPipe[c]) /\ Take(c) /\ ~hungUp[c] /\ inPipe[c] # Nothing
        /\ alert[c] = "none"
        /\ \/ UNCHANGED session
           \/ session' = [session EXCEPT ![c] = inPipe[c].from]
    BY <1>2 DEF ServerReads, BodyPasses, Arrived
  <2>2. /\ inPipe'[c] = Nothing /\ rcvd'[c] = rcvd[c] + 1
        /\ session'[c] \in {session[c], c}
        /\ UNCHANGED <<op, client, wrote, got, spawned, outPipe, drain, hungUp,
                       sent, writing, untilClose, alert, shut, overtaken>>
    BY <1>0, <2>1 DEF Take, ConnInv, OwnPieces, tableVars, handlerVars,
                      clientVars, historyVars, TypeOK
  <2>3. rcvd[c] \in Nat /\ wrote[c] \in Nat /\ CloseNotify \in Nat
    BY <1>0, Sizes DEF TypeOK
  <2>4. inPipe[c] = Record(c, rcvd[c] + 1) /\ rcvd[c] + 1 \in 1 .. CloseNotify
    <3>1. /\ inPipe[c] \in Records
          /\ inPipe[c].from = c /\ inPipe[c].n = rcvd[c] + 1
      BY <1>0, <2>1 DEF ConnInv, OwnPieces, Fits, TypeOK
    <3> QED
      BY <3>1 DEF Records, Record
  <2>5. \A n : OnItsWay(c, n)' <=> OnItsWay(c, n) /\ n # rcvd[c] + 1
    BY <1>0, <2>1, <2>2, <2>4 DEF ConnInv, NoGap, OnItsWay, Record
  <2>6. MayWrite(c)' <=> MayWrite(c)
    BY <2>2 DEF MayWrite
  <2>7. OnItsWay(c, rcvd[c] + 1)
    BY <2>1, <2>4 DEF OnItsWay
  <2>8. NoGap(c)'
    <3>1. wrote[c] < CloseNotify =>
            \A n \in 1 .. wrote[c] : n =< rcvd[c] + 1 \/ OnItsWay(c, n)'
      BY <1>0, <2>1, <2>3, <2>5 DEF ConnInv, NoGap
    <3>2. MayWrite(c) =>
            /\ rcvd[c] + 1 =< wrote[c]
            /\ \A n \in 1 .. CloseNotify : OnItsWay(c, n)' => n =< wrote[c]
      BY <1>0, <2>1, <2>4, <2>5, <2>7 DEF ConnInv, NoGap
    <3>3. ASSUME NEW n \in 1 .. CloseNotify, OnItsWay(c, n)'
          PROVE  /\ rcvd[c] + 1 < n
                 /\ \A m \in (rcvd[c] + 1 + 1) .. n : OnItsWay(c, m)'
      <4>1. rcvd[c] < n /\ \A m \in (rcvd[c] + 1) .. n : OnItsWay(c, m)
        BY <1>0, <2>1, <2>5, <3>3 DEF ConnInv, NoGap
      <4> QED
        BY <2>3, <2>5, <3>3, <4>1
    <3> QED
      BY <2>2, <2>6, <3>1, <3>2, <3>3 DEF NoGap
  <2>9. OwnPieces(c)'
    BY <1>0, <2>2 DEF ConnInv, OwnPieces
  <2>10. InStep(c)' /\ SameEnd(c)' /\ ClosedWhenAnswered(c)'
    BY <1>0, <2>2, InStepFrame, SameEndFrame, ClosedFrame
       DEF ConnInv, Closing
  <2>11. BrokenByOvertaking(c)'
    BY <1>0, <2>2, BrokenFrame DEF ConnInv
  <2> QED
    BY <2>8, <2>9, <2>10, <2>11 DEF ConnInv
<1> QED
  BY <1>1, <1>2

\* When the backend answers, nothing of an answer was written yet.
LEMMA AnswerKeepsConn ==
  ASSUME Orderly, NEW c \in Conns, BackendAnswers(c) PROVE ConnInv(c)'
<1>0. /\ TypeOK /\ ConnInv(c) /\ GotInv(c) /\ ServerInv(c) /\ OutPipeInv(c)
      /\ stage[c] = "backend"
  BY DEF Orderly, CallInv, BackendAnswers
<1>1. /\ UNCHANGED <<op, client, wrote, got, spawned, inPipe, outPipe, drain,
                     hungUp, session, rcvd, sent, writing, alert, shut,
                     overtaken>>
  BY DEF BackendAnswers, tableVars, handlerVars, clientVars, pipeVars,
         historyVars
<1>2. sent[c] = 1 /\ ~writing[c]
  BY <1>0 DEF ServerInv
<1>3. Len(got[c]) \in Nat /\ Len(got[c]) < 2
  <2> SUFFICES ASSUME Len(got[c]) >= 2 PROVE FALSE
    BY <1>0 DEF TypeOK
  <2>1. PICK h \in Conns : HasWritten(h, c, 2)
    BY <1>0, Sizes DEF GotInv
  <2>2. h = c
    BY <2>1, TunnelAssumption DEF HasWritten, Orderly, ConnInv, OwnPieces
  <2> QED
    BY <1>2, <2>1, <2>2 DEF HasWritten
<1>4. outPipe[c] # Nothing => outPipe[c].n \notin 2 .. LastUnit
  BY <1>0, <1>2, Sizes DEF OutPipeInv, IsAlert
<1>5. SameEnd(c)' /\ BrokenByOvertaking(c)'
  BY <1>0, <1>1, <1>3, <1>4, BrokenFrame DEF SameEnd, ConnInv, LastUnit
<1>6. MayWrite(c)' <=> MayWrite(c)
  BY <1>1 DEF MayWrite
<1>7. NoGap(c)'
  BY <1>0, <1>1, <1>6, NoGapFrame, Sizes DEF ConnInv, TypeOK
<1>8. InStep(c)' /\ ClosedWhenAnswered(c)' /\ OwnPieces(c)'
  BY <1>0, <1>1, InStepFrame, ClosedFrame, OwnPiecesFrame
     DEF ConnInv, Closing
<1> QED
  BY <1>5, <1>7, <1>8 DEF ConnInv

\* DoTransfer begins and ends a Write, or dies of it.
LEMMA WritesKeepConn ==
  ASSUME Orderly, NEW c \in Conns, ServerWrites(c) \/ ServerWrote(c)
  PROVE  ConnInv(c)'
<1>0. TypeOK /\ ConnInv(c) /\ ServerInv(c) /\ sent[c] \in Nat
  BY Sizes DEF Orderly, CallInv, TypeOK
<1>1. CASE Panic(c, "closed")
  BY <1>0, <1>1, DeathLeavesConns, ConnFrame
<1>2. CASE ~Panic(c, "closed")
  <2>1. /\ UNCHANGED <<op, client, wrote, got, spawned, inPipe, drain, hungUp,
                       session, rcvd, untilClose, alert, shut, overtaken>>
    BY <1>2 DEF ServerWrites, ServerWrote, tableVars, handlerVars, clientVars,
                pipeVars, historyVars
  <2>2. MayWrite(c)' <=> MayWrite(c)
    BY <2>1 DEF MayWrite
  <2>3. NoGap(c)' /\ OwnPieces(c)' /\ BrokenByOvertaking(c)'
    BY <1>0, <2>1, <2>2, NoGapFrame, OwnPiecesFrame, BrokenFrame, Sizes
       DEF ConnInv, TypeOK
  <2>4. CASE ServerWrites(c)
    <3> DEFINE u == Unit(c, sent[c] + 1)
    <3>1. /\ outPipe'[c] = u /\ ~writing[c] /\ writing'[c] /\ sent' = sent
      BY <1>0, <1>2, <2>4 DEF ServerWrites, TypeOK
    <3>2. u # Nothing
      <4>1. sent[c] + 1 \in 0 .. FatalAlert
        BY <1>0, <2>4, Sizes DEF ServerWrites, ServerInv
      <4> QED
        BY <1>0, <4>1, UnitType, NothingAssumption
    <3>3. u.n = sent[c] + 1 /\ u.untilClose = untilClose[c]
      BY DEF Unit
    <3> HIDE DEF u
    <3>4. InStep(c)'
      BY <1>0, <2>1, <3>1, <3>2 DEF ConnInv, InStep
    <3>5. SameEnd(c)'
      BY <1>0, <2>1, <3>1, <3>3 DEF ConnInv, SameEnd, LastUnit
    <3>6. Closing(c)' => Closing(c)
      BY <1>0, <2>1, <3>1, <3>3, Sizes DEF Closing, Farewell
    <3> QED
      BY <1>0, <2>1, <2>3, <3>4, <3>5, <3>6, ClosedFrame DEF ConnInv
  <2>5. CASE ServerWrote(c)
    <3>1. /\ outPipe[c] = Nothing /\ outPipe' = outPipe /\ writing[c]
          /\ ~writing'[c] /\ sent'[c] = sent[c] + 1
      BY <1>0, <1>2, <2>5 DEF ServerWrote, pipeVars, TypeOK
    <3>2. InStep(c)'
      BY <1>0, <2>1, <3>1 DEF ConnInv, InStep
    <3>3. SameEnd(c)' /\ ClosedWhenAnswered(c)'
      BY <1>0, <2>1, <3>1, SameEndFrame, ClosedFrame
         DEF ConnInv, Closing
    <3> QED
      BY <2>3, <3>2, <3>3 DEF ConnInv
  <2> QED
    BY <2>4, <2>5
<1> QED
  BY <1>1, <1>2

-----------------------------------------------------------------------------
(***************************************************************************)
(* The invariant                                                           *)
(***************************************************************************)

\* Every step keeps what is known of every connection.
LEMMA ConnNext ==
  ASSUME Orderly, [Next]_vars, NEW c \in Conns PROVE ConnInv(c)'
<1>0. TypeOK /\ T!OwnHandle /\ orderly /\ ConnInv(c)
  BY DEF Orderly, CallInv
<1>1. CASE UNCHANGED vars
  <2>1. SameConn(c)
    BY <1>1 DEF vars, tableVars, handlerVars, clientVars, pipeVars, serverVars,
                historyVars, SameConn
  <2> QED
    BY <1>0, <2>1, ConnFrame
<1>2. ASSUME NEW d \in Conns \ {c},
             Handler(d) \/ Goroutine(d) \/ Transfer(d) \/ Environment(d)
      PROVE  ConnInv(c)'
  BY <1>0, <1>2, OtherHandlers, OtherGoroutines, ConnFrame
<1>3. CASE Handler(c)
  BY <1>3, TalkKeepsConn, WriteKeepsConn, ReadKeepsConn, CloseKeepsConn
     DEF Handler
<1>4. CASE Goroutine(c)
  BY <1>4, EnterKeepsConn, GoroutineKeepsConn DEF Goroutine
<1>5. CASE ServerReadFails(c) \/ AlertWritten(c) \/ BackendFails(c)
           \/ MapFault(c)
  BY <1>0, <1>5, DeathLeavesConns, ConnFrame
     DEF ServerReadFails, AlertWritten, BackendFails
<1>6. CASE Transfer(c) \/ Environment(c)
  BY <1>5, <1>6, TakeKeepsConn, RefusalKeepsConn, AnswerKeepsConn,
     WritesKeepConn, TalkKeepsConn
     DEF Transfer, Environment
<1> QED
  BY <1>1, <1>2, <1>3, <1>4, <1>6 DEF Next

\* Initially nothing was written.
LEMMA OrderlyInit == Init => OrderlyInv
<1> SUFFICES ASSUME Init, NEW c \in Conns PROVE ConnInv(c)
  BY DEF OrderlyInv
<1>1. /\ got[c] = <<>> /\ wrote[c] = 0 /\ spawned[c] = {} /\ sent[c] = 0
      /\ inPipe[c] = Nothing /\ outPipe[c] = Nothing /\ rcvd[c] = 0
      /\ session[c] = NoHandle /\ ~writing[c] /\ ~drain[c] /\ ~hungUp[c]
      /\ c \notin shut /\ alert[c] = "none"
  BY DEF Init, T!Init
<1>2. \A n : ~OnItsWay(c, n)
  BY <1>1 DEF OnItsWay
<1>3. NoGap(c)
  BY <1>1, <1>2 DEF NoGap
<1> QED
  BY <1>1, <1>3
     DEF ConnInv, OwnPieces, InStep, ClosedWhenAnswered, Closing, SameEnd,
         BrokenByOvertaking

\* The invariant is inductive, together with CallInv and OwnHandle.
LEMMA OrderlyNext ==
  CallInv /\ T!OwnHandle /\ OrderlyInv /\ [Next]_vars => OrderlyInv'
BY ConnNext, StaysOrderly DEF OrderlyInv, Orderly

LEMMA OrderlyInvHolds == Spec => []OrderlyInv
BY OrderlyInit, OrderlyNext, CallInvHolds, TunnelCallsReachTheirHandle, PTL
   DEF Spec

\* What the theorems start from.
LEMMA OrderlyFacts ==
  CallInv /\ T!OwnHandle /\ OrderlyInv /\ orderly => Orderly
BY DEF OrderlyInv, Orderly

-----------------------------------------------------------------------------
(***************************************************************************)
(* The theorems                                                            *)
(***************************************************************************)

\* While requests are orderly, a client whose answer ends with the connection
\* never comes to its end: DoTransfer leaves the connection open, and the
\* client would close it only after the end of the answer.
THEOREM CloseDelimitedAnswersHang == Spec => []CloseDelimitedNeverEnds
<1>1. CallInv /\ T!OwnHandle /\ OrderlyInv => CloseDelimitedNeverEnds
  <2> SUFFICES ASSUME CallInv, T!OwnHandle, OrderlyInv, orderly,
                      NEW c \in Conns, client[c] = "done"
               PROVE  ~untilClose[c]
    BY DEF CloseDelimitedNeverEnds
  <2>1. Orderly
    BY OrderlyFacts
  <2>2. AnswerComplete(c)
    BY DEF CallInv, ClientInv
  <2> QED
    BY <2>1, <2>2, AnsweredConn
<1> QED
  BY <1>1, OrderlyInvHolds, CallInvHolds, TunnelCallsReachTheirHandle, PTL

\* Only the goroutine of /clientClose takes a piece no client asked for.
LEMMA OnlyDrainsDiscard ==
  ASSUME [Next]_vars, discarded' # discarded
  PROVE  \E h \in Conns : DrainReads(h)
<1>1. ASSUME NEW c \in Conns, Handler(c) PROVE UNCHANGED discarded
  BY <1>1 DEF Handler, NewRequest, NewRequestStores, NewRequestReplies, Call,
              LockHandle, ClientWrite, ClientRead, ClientReadEOF, CloseStart,
              CloseEnd, historyVars
<1>2. ASSUME NEW c \in Conns, Goroutine(c), ~DrainReads(c)
      PROVE  UNCHANGED discarded
  BY <1>2 DEF Goroutine, WriterEnters, WriterFails, DrainEnds, historyVars
<1>3. ASSUME NEW c \in Conns, Transfer(c) \/ Environment(c)
      PROVE  UNCHANGED discarded
  BY <1>3 DEF Transfer, Environment, ServerReads, ServerReadFails,
              AlertWritten, BackendAnswers, ServerWrites, ServerWrote,
              ServerRejects, BodyPasses, BackendFails, NetworkFails, MapFault,
              Panic, BreaksSession, Take, historyVars
<1> QED
  BY <1>1, <1>2, <1>3 DEF Next, vars, historyVars

\* While requests are orderly, the goroutine that /clientClose starts to read
\* "all server sent data" never swallows a piece of an answer: the client that
\* closes has read it all.
THEOREM AnswersAreNotDiscarded == Spec => []NoDiscard
<1>1. Init => NoDiscard
  BY DEF Init, NoDiscard
<1>2. /\ CallInv /\ T!OwnHandle /\ OrderlyInv /\ NoDiscard /\ [Next]_vars
      => NoDiscard'
  <2> SUFFICES ASSUME CallInv, T!OwnHandle, OrderlyInv, NoDiscard, [Next]_vars,
                      orderly', discarded' # discarded
               PROVE  FALSE
    BY StaysOrderly DEF NoDiscard
  <2>1. Orderly
    BY StaysOrderly, OrderlyFacts
  <2>2. PICK h \in Conns : DrainReads(h)
    BY OnlyDrainsDiscard
  <2>3. /\ drain[h] /\ outPipe[h] # Nothing /\ ~IsAlert(outPipe[h])
    BY <2>2 DEF DrainReads
  <2>4. AnswerComplete(h) /\ OutPipeInv(h) /\ TypeOK
    BY <2>1, <2>3 DEF Orderly, CallInv, ConnInv, ClosedWhenAnswered, Closing
  <2> QED
    BY <2>1, <2>3, <2>4, AnsweredConn DEF OutPipeInv
<1> QED
  BY <1>1, <1>2, OrderlyInvHolds, CallInvHolds, TunnelCallsReachTheirHandle,
     PTL DEF Spec

\* Nothing happens in a process that is gone.
LEMMA StepsAreOfTheLiving == Next => ~dead
BY DEF Next, Handler, NewRequest, NewRequestStores, NewRequestReplies, Call,
       LockHandle, ClientWrite, ClientRead, ClientReadEOF, CloseStart,
       CloseEnd, T!AllocateID, T!BeginStore, T!EndStore, T!Resolve, T!Serve,
       T!CloseConn, T!Remove, T!MapFault, T!TransferPanics, Goroutine,
       WriterEnters, WriterFails, DrainReads, DrainEnds, Transfer, ServerReads,
       ServerReadFails, AlertWritten, BackendAnswers, ServerWrites,
       ServerWrote, Environment, ServerRejects, BodyPasses, BackendFails,
       NetworkFails, MapFault, Panic, Arrived

\* DoTransfer dies of an alert it sent, or of a closed connection.
DiesOfAlert(h) ==
  /\ Panic(h, alert[h])
  /\ alert[h] # "none"

DiesOfClose(h) ==
  /\ Panic(h, "closed")
  /\ \/ hungUp[h] /\ stage[h] \in {"hello", "finish", "head"}
     \/ h \in shut /\ ~writing[h] /\ stage[h] \in {"flight", "response"}
     \/ hungUp[h] /\ writing[h] /\ outPipe[h] # Nothing

\* The ways for the process to die.
LEMMA WaysToDie ==
  ASSUME Next, dead'
  PROVE  \/ cause' \in {"backend", "rejected"}
         \/ cause' = "map" /\ T!Storing' # {}
         \/ \E h \in Conns : DiesOfAlert(h) \/ DiesOfClose(h)
<1>0. ~dead
  BY StepsAreOfTheLiving
<1>1. ASSUME NEW c \in Conns, Handler(c) PROVE UNCHANGED dead
  BY <1>1 DEF Handler, NewRequest, NewRequestStores, NewRequestReplies, Call,
              LockHandle, ClientWrite, ClientRead, ClientReadEOF, CloseStart,
              CloseEnd, tableVars, T!AllocateID, T!BeginStore,
              T!EndStore, T!Resolve, T!Serve, T!CloseConn, T!Remove
<1>2. ASSUME NEW c \in Conns, Goroutine(c) PROVE UNCHANGED dead
  BY <1>2 DEF Goroutine, WriterEnters, WriterFails, DrainReads, DrainEnds,
              tableVars
<1>3. ASSUME NEW c \in Conns, ServerReads(c) \/ BodyPasses(c)
      PROVE  UNCHANGED dead
  BY <1>3 DEF ServerReads, BodyPasses, Take, BreaksSession, tableVars
<1>4. ASSUME NEW c \in Conns,
             ServerReadFails(c) \/ ServerWrites(c) \/ ServerWrote(c)
      PROVE  UNCHANGED dead \/ DiesOfClose(c)
  BY <1>4 DEF ServerReadFails, ServerWrites, ServerWrote, DiesOfClose,
              tableVars
<1>5. ASSUME NEW c \in Conns, BackendAnswers(c) \/ NetworkFails(c)
      PROVE  UNCHANGED dead
  BY <1>5 DEF BackendAnswers, NetworkFails, tableVars
<1>6. ASSUME NEW c \in Conns, BackendFails(c) PROVE cause' = "backend"
  BY <1>6 DEF BackendFails, Panic
<1>7. ASSUME NEW c \in Conns, MapFault(c)
      PROVE  cause' = "map" /\ T!Storing' # {}
  BY <1>7 DEF MapFault, T!MapFault, T!Storing
<1>8. ASSUME NEW c \in Conns, AlertWritten(c) PROVE DiesOfAlert(c)
  BY <1>8 DEF AlertWritten, DiesOfAlert
<1>9. ASSUME NEW c \in Conns, ServerRejects(c)
      PROVE  UNCHANGED dead \/ cause' = "rejected"
  BY <1>9 DEF ServerRejects, BreaksSession, Panic, tableVars
<1> QED
  BY <1>0, <1>1, <1>2, <1>3, <1>4, <1>5, <1>6, <1>7, <1>8, <1>9
     DEF Next, Transfer, Environment

\* While requests are orderly, the process dies of the tunnel in two ways only: a
\* piece of a request overtook an older one between two goroutines of
\* /clientWrite, or a call read the table while a /newRequest stored into it.
\* Otherwise the backend failed, or DoTransfer refused its client.  It never
\* finds its connection closed under it, although /clientClose does not wait for
\* it, and never takes what one client sent for something of another.
THEOREM PanicsHaveTheirCause == Spec => []PanicCauses
<1>1. Init => PanicCauses
  BY DEF Init, T!Init, PanicCauses
<1>2. /\ CallInv /\ T!OwnHandle /\ OrderlyInv /\ PanicCauses /\ [Next]_vars
      => PanicCauses'
  <2>1. ASSUME UNCHANGED vars, PanicCauses PROVE PanicCauses'
    BY <2>1 DEF vars, tableVars, serverVars, historyVars, PanicCauses, T!Storing
  <2> SUFFICES ASSUME CallInv, T!OwnHandle, OrderlyInv, Next, dead', orderly'
               PROVE  PanicCauses'
    BY <2>1 DEF PanicCauses
  <2>2. Orderly
    BY StaysOrderly, OrderlyFacts
  <2>3. ASSUME NEW h \in Conns, DiesOfAlert(h)
        PROVE  \/ cause' = "rejected"
               \/ cause' = "piece" /\ h \in overtaken' /\ alert'[h] = "piece"
    <3>1. cause' = alert[h] /\ UNCHANGED <<overtaken, alert>>
      BY <2>3 DEF DiesOfAlert, Panic, serverVars
    <3>2. alert[h] \in {"piece", "rejected"}
      BY <2>2, <2>3 DEF DiesOfAlert, Orderly, CallInv, TypeOK
    <3> QED
      BY <2>2, <3>1, <3>2 DEF Orderly, ConnInv, BrokenByOvertaking
  <2>4. ASSUME NEW h \in Conns, DiesOfClose(h) PROVE FALSE
    <3>1. Closing(h)
      BY <2>4 DEF DiesOfClose, Closing
    <3>2. AnswerComplete(h)
      BY <2>2, <3>1 DEF Orderly, ConnInv, ClosedWhenAnswered
    <3> QED
      BY <2>2, <2>4, <3>2, AnsweredConn DEF DiesOfClose
  <2> QED
    BY <2>3, <2>4, WaysToDie DEF PanicCauses
<1> QED
  BY <1>1, <1>2, OrderlyInvHolds, CallInvHolds, TunnelCallsReachTheirHandle,
     PTL DEF Spec

\* The ways for a client to fail.
LEMMA WaysToFail ==
  ASSUME CallInv, [Next]_vars, NEW c \in Conns,
         client'[c] = "failed", client[c] # "failed"
  PROVE  \/ c \in refused'
         \/ ClientRead(c) /\ ~Accepts(c, outPipe[handle[c]])
         \/ ClientReadEOF(c)
         \/ "network" \in Hazards
<1>0. TypeOK
  BY DEF CallInv
<1>1. ASSUME NEW d \in Conns,
             \/ Goroutine(d) \/ Transfer(d) \/ ServerRejects(d)
             \/ BodyPasses(d) \/ BackendFails(d) \/ MapFault(d)
      PROVE  UNCHANGED client
  BY <1>1 DEF Goroutine, WriterEnters, WriterFails, DrainReads, DrainEnds,
              Transfer, ServerReads, ServerReadFails, AlertWritten,
              BackendAnswers, ServerWrites, ServerWrote, ServerRejects,
              BodyPasses, BackendFails, MapFault, Panic, BreaksSession, Take,
              clientVars
<1>2. ASSUME NEW d \in Conns, Handler(d)
      PROVE  \/ c \in refused'
             \/ ClientRead(c) /\ ~Accepts(c, outPipe[handle[c]])
             \/ ClientReadEOF(c)
  <2>1. CASE Call(d)
    <3>1. CallFails(d) /\ pc'[d] # "resolved"
      BY <2>1 DEF Call, clientVars
    <3>2. d = c
      BY <1>0, <3>1 DEF CallFails, TypeOK
    <3>3. d \in refused'
      BY <1>0, <2>1, <3>1 DEF Call, T!Resolve, TypeOK, T!TypeOK
    <3> QED
      BY <3>2, <3>3
  <2>2. CASE ClientRead(d)
    BY <1>0, <2>2 DEF ClientRead, TypeOK
  <2>3. CASE ClientReadEOF(d)
    BY <1>0, <2>3 DEF ClientReadEOF, TypeOK
  <2>4. CASE CloseStart(d) \/ CloseEnd(d)
    BY <1>0, <2>4 DEF CloseStart, CloseEnd, ClientDone, TypeOK
  <2>5. CASE NewRequest(d) \/ NewRequestStores(d) \/ NewRequestReplies(d)
             \/ LockHandle(d) \/ ClientWrite(d)
    BY <2>5 DEF NewRequest, NewRequestStores, NewRequestReplies, LockHandle,
                ClientWrite, clientVars
  <2> QED
    BY <1>2, <2>1, <2>2, <2>3, <2>4, <2>5 DEF Handler
<1> QED
  BY <1>1, <1>2 DEF Next, Environment, NetworkFails, vars, clientVars

\* What broke a session, and what was overtaken, stays so.
LEMMA BrokenStays ==
  ASSUME CallInv, [Next]_vars, NEW c \in Conns
  PROVE  /\ alert[c] # "none" => alert'[c] = alert[c]
         /\ c \in overtaken => c \in overtaken'
<1>0. TypeOK
  BY DEF CallInv
<1>1. CASE UNCHANGED <<alert, overtaken>>
  BY <1>1
<1>2. ASSUME NEW d \in Conns, NEW why, BreaksSession(d, why), alert[d] = "none"
      PROVE  /\ alert[c] # "none" => alert'[c] = alert[c]
             /\ c \in overtaken => c \in overtaken'
  BY <1>0, <1>2 DEF BreaksSession, historyVars, TypeOK
<1>3. ASSUME NEW d \in Conns,
             ServerReads(d) \/ ServerRejects(d) \/ BodyPasses(d)
      PROVE  /\ alert[c] # "none" => alert'[c] = alert[c]
             /\ c \in overtaken => c \in overtaken'
  BY <1>1, <1>2, <1>3 DEF ServerReads, ServerRejects, BodyPasses, Arrived,
                          Take, Panic, serverVars, historyVars
<1>4. ASSUME NEW d \in Conns, WriterEnters(d)
      PROVE  alert' = alert /\ overtaken \subseteq overtaken'
  BY <1>4 DEF WriterEnters, serverVars
<1>5. ASSUME NEW d \in Conns, Handler(d) PROVE UNCHANGED <<alert, overtaken>>
  BY <1>5 DEF Handler, NewRequest, NewRequestStores, NewRequestReplies, Call,
              LockHandle, ClientWrite, ClientRead, ClientReadEOF, CloseStart,
              CloseEnd, serverVars, historyVars
<1>6. ASSUME NEW d \in Conns,
             \/ WriterFails(d) \/ DrainReads(d) \/ DrainEnds(d)
             \/ ServerReadFails(d) \/ AlertWritten(d) \/ BackendAnswers(d)
             \/ ServerWrites(d) \/ ServerWrote(d) \/ BackendFails(d)
             \/ NetworkFails(d) \/ MapFault(d)
      PROVE  UNCHANGED <<alert, overtaken>>
  BY <1>6 DEF WriterFails, DrainReads, DrainEnds, ServerReadFails,
              AlertWritten, BackendAnswers, ServerWrites, ServerWrote,
              BackendFails, NetworkFails, MapFault, Panic, serverVars,
              historyVars
<1> QED
  BY <1>1, <1>3, <1>4, <1>5, <1>6
     DEF Next, Goroutine, Transfer, Environment, vars, serverVars, historyVars

\* While requests are orderly and calls do not fail, a client only fails because
\* its own DoTransfer has told it so in an alert, and that was because it was
\* refused or because one of its own pieces was overtaken.  What it is sent
\* before is always the next piece of its own session, and its handle stays
\* until it has closed it.
THEOREM FailedClientsWereTold == Spec => []FailuresAreTold
<1> DEFINE Told(c) == \/ alert[c] = "rejected"
                      \/ alert[c] = "piece" /\ c \in overtaken
<1>1. Init => FailuresAreTold
  BY DEF Init, FailuresAreTold
<1>2. /\ CallInv /\ T!OwnHandle /\ T!NoSpurious404' /\ OrderlyInv
      /\ FailuresAreTold /\ [Next]_vars
      => FailuresAreTold'
  <2> SUFFICES ASSUME CallInv, T!OwnHandle, T!NoSpurious404', OrderlyInv,
                      FailuresAreTold, [Next]_vars, orderly',
                      "network" \notin Hazards, NEW c \in Conns,
                      client'[c] = "failed"
               PROVE  Told(c)'
    BY DEF FailuresAreTold
  <2>1. orderly /\ Orderly
    BY StaysOrderly, OrderlyFacts
  <2>2. Told(c) => Told(c)'
    BY BrokenStays
  <2>3. c \notin refused'
    BY DEF T!NoSpurious404
  <2>4. CASE client[c] = "failed"
    BY <2>1, <2>2, <2>4 DEF FailuresAreTold
  <2>5. CASE client[c] # "failed" /\ ClientReadEOF(c)
    <3>1. handle[c] = c /\ op[c] = "clientRead" /\ hungUp[c]
      BY <2>1, <2>5, OwnHandleOnly DEF Orderly, ClientReadEOF, T!Serve
    <3>2. AnswerComplete(c)
      BY <2>1, <3>1 DEF Orderly, ConnInv, ClosedWhenAnswered, Closing
    <3> QED
      BY <2>1, <3>1, <3>2, AnsweredConn
  <2>6. CASE /\ client[c] # "failed"
             /\ ClientRead(c) /\ ~Accepts(c, outPipe[handle[c]])
    <3>1. alert[c] \in {"piece", "rejected"}
      BY <2>1, <2>6, NextPieceIsRead DEF Orderly, CallInv, TypeOK
    <3>2. Told(c)
      BY <2>1, <3>1 DEF Orderly, ConnInv, BrokenByOvertaking
    <3> QED
      BY <2>2, <3>2
  <2> QED
    BY <2>3, <2>4, <2>5, <2>6, WaysToFail
<1> QED
  BY <1>1, <1>2, OrderlyInvHolds, CallInvHolds, TunnelCallsReachTheirHandle,
     PTL DEF Spec

-----------------------------------------------------------------------------
(***************************************************************************)
(* What a client that is done leaves behind                                *)
(***************************************************************************)

\* What ConnTableProofs shows of the ids, for the tunnel.
LEMMA IDsAreDenseAlways == Spec => []T!DenseIDs
<1>1. TP!ConnsAssumption
  BY TunnelAssumption DEF TP!ConnsAssumption, TP!IsFiniteSet, IsFiniteSet
<1>2. TP!Spec => []TP!DenseIDs
  BY <1>1, TP!IDsAreDense, PTL
<1>3. TP!DenseIDs => T!DenseIDs
  BY DEF TP!DenseIDs, TP!Pending, TP!Cardinality, T!DenseIDs, T!Pending,
         T!Cardinality
<1> QED
  BY <1>2, <1>3, TunnelIsTable, PTL

\* A closed connection stays closed.
LEMMA ClosedStays ==
  ASSUME TypeOK, [Next]_vars, NEW c \in Conns, pc[c] = "closed", hungUp[c]
  PROVE  pc'[c] = "closed" /\ hungUp'[c]
<1>1. ASSUME NEW d \in Conns, Handler(d)
      PROVE  pc'[c] = "closed" /\ hungUp'[c]
  <2>1. CASE NewRequest(d) \/ NewRequestStores(d) \/ NewRequestReplies(d)
    BY <2>1 DEF NewRequest, NewRequestStores, NewRequestReplies, T!AllocateID,
                T!BeginStore, T!EndStore, pipeVars, TypeOK, T!TypeOK
  <2>2. CASE Call(d) \/ LockHandle(d)
    BY <2>2 DEF Call, LockHandle, T!Resolve, tableVars, pipeVars, TypeOK,
                T!TypeOK
  <2>3. CASE ClientWrite(d) \/ ClientRead(d) \/ ClientReadEOF(d)
    BY <2>3 DEF ClientWrite, ClientRead, ClientReadEOF, T!Serve, pipeVars,
                TypeOK, T!TypeOK
  <2>4. CASE CloseStart(d) \/ CloseEnd(d)
    <3>1. pc'[c] = "closed"
      BY <2>4 DEF CloseStart, CloseEnd, T!CloseConn, T!Remove, TypeOK, T!TypeOK
    <3>2. \/ UNCHANGED hungUp
          \/ hungUp' = [hungUp EXCEPT ![handle[d]] = TRUE]
      BY <2>4 DEF CloseStart, CloseEnd
    <3> QED
      BY <3>1, <3>2 DEF TypeOK
  <2> QED
    BY <1>1, <2>1, <2>2, <2>3, <2>4 DEF Handler
<1>2. ASSUME NEW d \in Conns, Goroutine(d) \/ Transfer(d) \/ Environment(d)
      PROVE  UNCHANGED <<pc, hungUp>>
  BY <1>2
     DEF Goroutine, WriterEnters, WriterFails, DrainReads, DrainEnds, Transfer,
         ServerReads, ServerReadFails, AlertWritten, BackendAnswers,
         ServerWrites, ServerWrote, Environment, ServerRejects, BodyPasses,
         BackendFails, NetworkFails, MapFault, Panic, BreaksSession, Take,
         T!TransferPanics, T!MapFault, tableVars,
         pipeVars
<1> QED
  BY <1>1, <1>2 DEF Next, vars, tableVars, pipeVars

\* The ways for a client to be done.
LEMMA WaysToBeDone ==
  ASSUME Orderly, T!DenseIDs, [Next]_vars, NEW c \in Conns,
         client'[c] = "done", client[c] # "done"
  PROVE  \/ c \in refused' \/ "network" \in Hazards
         \/ CloseEnd(c) /\ handle[c] = c
<1>0. TypeOK /\ T!TypeOK
  BY DEF Orderly, CallInv, TypeOK
<1>1. ASSUME NEW d \in Conns,
             \/ Goroutine(d) \/ Transfer(d) \/ ServerRejects(d)
             \/ BodyPasses(d) \/ BackendFails(d) \/ MapFault(d)
      PROVE  UNCHANGED client
  BY <1>1 DEF Goroutine, WriterEnters, WriterFails, DrainReads, DrainEnds,
              Transfer, ServerReads, ServerReadFails, AlertWritten,
              BackendAnswers, ServerWrites, ServerWrote, ServerRejects,
              BodyPasses, BackendFails, MapFault, Panic, BreaksSession, Take,
              clientVars
<1>2. ASSUME NEW d \in Conns, Handler(d)
      PROVE  c \in refused' \/ (CloseEnd(c) /\ handle[c] = c)
  <2>1. CASE Call(d)
    <3>1. CallFails(d) /\ pc'[d] # "resolved"
      BY <2>1 DEF Call, clientVars
    <3>2. d = c
      BY <1>0, <3>1 DEF CallFails, TypeOK
    <3>3. d \in refused'
      BY <1>0, <2>1, <3>1 DEF Call, T!Resolve, T!TypeOK
    <3> QED
      BY <3>2, <3>3
  <2>2. CASE CloseStart(d)
    <3>1. handle[d] = d /\ pc[d] = "resolved" /\ d \notin shut
      BY <2>2, OwnHandleOnly
         DEF Orderly, CloseStart, T!CloseConn, T!DenseIDs
    <3>2. pc'[d] = "removing"
      BY <1>0, <2>2, <3>1 DEF CloseStart, T!CloseConn, T!TypeOK
    <3>3. UNCHANGED client
      BY <2>2, <3>2 DEF CloseStart
    <3> QED
      BY <3>3
  <2>3. CASE CloseEnd(d)
    <3>1. d = c
      BY <1>0, <2>3 DEF CloseEnd, ClientDone, TypeOK
    <3> QED
      BY <2>3, <3>1, OwnHandleOnly DEF Orderly, CloseEnd, T!Remove
  <2>4. CASE ClientRead(d) \/ ClientReadEOF(d)
    BY <1>0, <2>4 DEF ClientRead, ClientReadEOF, TypeOK
  <2>5. CASE NewRequest(d) \/ NewRequestStores(d) \/ NewRequestReplies(d)
             \/ LockHandle(d) \/ ClientWrite(d)
    BY <2>5 DEF NewRequest, NewRequestStores, NewRequestReplies, LockHandle,
                ClientWrite, clientVars
  <2> QED
    BY <1>2, <2>1, <2>2, <2>3, <2>4, <2>5 DEF Handler
<1> QED
  BY <1>1, <1>2 DEF Next, Environment, NetworkFails, vars, clientVars

\* While requests are orderly and calls do not fail, a client that is done has
\* given its connection back: its /clientClose has closed its pipe and deleted
\* its entry.  (That the goroutines on the pipe then end, Released says.)
THEOREM DoneClientsGiveBack == Spec => []DoneIsClosed
<1>1. Init => DoneIsClosed
  BY DEF Init, DoneIsClosed
<1>2. /\ CallInv /\ T!OwnHandle /\ T!NoSpurious404' /\ OrderlyInv
      /\ T!DenseIDs /\ T!TableIsRegistered' /\ DoneIsClosed /\ [Next]_vars
      => DoneIsClosed'
  <2> SUFFICES ASSUME CallInv, T!OwnHandle, T!NoSpurious404', OrderlyInv,
                      T!DenseIDs, T!TableIsRegistered', DoneIsClosed,
                      [Next]_vars, orderly', "network" \notin Hazards,
                      NEW c \in Conns, client'[c] = "done"
               PROVE  GivenBack(c)'
    BY DEF DoneIsClosed
  <2>1. orderly /\ Orderly /\ TypeOK
    BY StaysOrderly, OrderlyFacts DEF CallInv
  <2>2. pc'[c] = "closed" /\ hungUp'[c]
    <3>1. CASE client[c] = "done"
      BY <2>1, <3>1, ClosedStays DEF DoneIsClosed, GivenBack
    <3>2. CASE client[c] # "done"
      <4>1. CloseEnd(c) /\ handle[c] = c
        BY <2>1, <3>2, WaysToBeDone DEF T!NoSpurious404
      <4> QED
        BY <2>1, <4>1 DEF CloseEnd, T!Remove, TypeOK, T!TypeOK
    <3> QED
      BY <3>1, <3>2
  <2>3. c \notin T!Handles'
    BY <2>2 DEF T!TableIsRegistered, T!Registered
  <2> QED
    BY <2>2, <2>3 DEF GivenBack
<1> QED
  BY <1>1, <1>2, OrderlyInvHolds, CallInvHolds, TunnelCallsReachTheirHandle,
     IDsAreDenseAlways, TableIsExactAlways, PTL DEF Spec

=============================================================================
