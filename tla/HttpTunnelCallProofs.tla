------------------------- MODULE HttpTunnelCallProofs -------------------------
(***************************************************************************)
(* Theorems about a call through the HTTP tunnel, for any number of        *)
(* clients, sizes of request and answer, and hazards, and whatever the     *)
(* table does with their ids: the types of the variables, that the tunnel  *)
(* keeps the promise of RemoteCall, what an answer is, and what a client   *)
(* that failed leaves in the table.                                        *)
(***************************************************************************)
EXTENDS HttpTunnelProofs

(***************************************************************************)
(* The inductive invariant, in parts: about a client, about a handle, and  *)
(* about the two ways between them.                                        *)
(***************************************************************************)

\* How far a client is by what it calls, and what it was sent so far.
ClientInv(c) ==
  /\ op[c] = "clientWrite" =>
       wrote[c] < CloseNotify /\ (wrote[c] = LastReq => AnswerComplete(c))
  /\ op[c] = "clientRead" => ~AnswerComplete(c)
  /\ op[c] = "clientClose" => wrote[c] = CloseNotify
  /\ wrote[c] = CloseNotify => AnswerComplete(c)
  /\ client[c] = "done" => AnswerComplete(c)
  /\ client[c] = "failed" => ~AnswerComplete(c)
  /\ \A n \in 1 .. Len(got[c]) :
       n =< LastUnit => got[c][n].to = c /\ got[c][n].n = n

\* How far the DoTransfer of a handle is by what it read and wrote.
ServerInv(h) ==
  /\ pc[h] \in {"idle", "allocated", "storing"} => stage[h] = "none"
  /\ stage[h] \in {"none", "hello"} =>
       session[h] = NoHandle /\ rcvd[h] = 0 /\ sent[h] = 0 /\ ~writing[h]
  /\ stage[h] \notin {"none", "hello"} => session[h] \in Conns /\ rcvd[h] >= 1
  /\ stage[h] = "flight" => sent[h] = 0
  /\ stage[h] \in {"finish", "head", "backend"} => sent[h] = 1 /\ ~writing[h]
  /\ stage[h] = "head" => rcvd[h] >= 2
  /\ stage[h] \in {"backend", "response", "done"} => rcvd[h] >= 3
  /\ stage[h] = "response" => 1 =< sent[h] /\ sent[h] < LastUnit
  /\ stage[h] = "done" => sent[h] = LastUnit /\ ~writing[h]

\* What is in the pipe towards /clientRead is of the session of the handle, or
\* says that the session broke; when it is a piece of the answer, it is the one
\* that is being written.
OutPipeInv(h) ==
  outPipe[h] # Nothing =>
    /\ IF outPipe[h].n = FatalAlert THEN alert[h] # "none"
       ELSE session[h] \in Conns /\ outPipe[h].to = session[h]
    /\ ~IsAlert(outPipe[h]) => writing[h] /\ outPipe[h].n = sent[h] + 1

\* The hello of a client is on its way to a handle, or was accepted there.
HasHello(c, h) ==
  \/ Record(c, 1) \in spawned[h]
  \/ inPipe[h] # Nothing /\ inPipe[h] = Record(c, 1)
  \/ session[h] = c

\* The hello of a client is in one place at most, and in none before it was
\* written.
HelloInv(c) ==
  /\ wrote[c] = 0 /\ (client[c] = "active" \/ op[c] = "clientWrite") =>
       \A h \in Conns : ~HasHello(c, h)
  /\ \A h, k \in Conns : HasHello(c, h) /\ HasHello(c, k) => h = k

\* Handle h has its session with c, and wrote n pieces or is writing the last.
HasWritten(h, c, n) ==
  session[h] = c /\ (sent[h] >= n \/ (sent[h] = n - 1 /\ writing[h]))

\* What a client was sent was written by one handle, for it.
GotInv(c) ==
  \A n \in 1 .. LastUnit :
    Len(got[c]) >= n => \E h \in Conns : HasWritten(h, c, n)

CallInv ==
  /\ TypeOK
  /\ \A c \in Conns : ClientInv(c) /\ HelloInv(c) /\ GotInv(c)
  /\ \A h \in Conns : ServerInv(h) /\ OutPipeInv(h)

-----------------------------------------------------------------------------
(***************************************************************************)
(* The types                                                               *)
(***************************************************************************)

\* The sizes of request and answer, as the proofs use them.
LEMMA Sizes ==
  /\ ReqPieces \in Nat \ {0} /\ RespPieces \in Nat \ {0}
  /\ LastUnit \in Nat /\ LastUnit >= 2 /\ LastUnit = RespPieces + 1
  /\ Farewell = 0 /\ FatalAlert = LastUnit + 1
  /\ LastReq \in Nat /\ LastReq >= 3
  /\ CloseNotify \in Nat /\ CloseNotify = LastReq + 1
BY TunnelAssumption DEF LastUnit, LastReq, CloseNotify, Farewell, FatalAlert

LEMMA RecordType ==
  ASSUME NEW c \in Conns, NEW n \in 1 .. CloseNotify
  PROVE  Record(c, n) \in Records
BY DEF Record, Records

LEMMA UnitType ==
  ASSUME TypeOK, NEW h \in Conns, NEW n \in 0 .. FatalAlert
  PROVE  Unit(h, n) \in Units
BY DEF Unit, Units, TypeOK

\* A call of a client that is over leaves the types alone.
LEMMA PanicTypes ==
  ASSUME TypeOK, T!TypeOK', NEW h \in Conns,
         NEW why \in {"piece", "closed", "backend", "rejected"}, Panic(h, why)
  PROVE  TypeOK'
BY DEF TypeOK, Panic, handlerVars, clientVars, pipeVars, serverVars

LEMMA BreaksTypes ==
  ASSUME TypeOK, T!TypeOK', NEW h \in Conns,
         NEW why \in {"piece", "rejected"}, BreaksSession(h, why)
  PROVE  TypeOK'
<1>1. Unit(h, FatalAlert) \in Units
  BY UnitType, Sizes
<1>2. outPipe' \in [Conns -> Units \cup {Nothing}]
  BY <1>1 DEF TypeOK, BreaksSession
<1>3. /\ inPipe' \in [Conns -> Records \cup {Nothing}]
      /\ alert' \in [Conns -> {"none", "piece", "rejected"}]
  BY DEF TypeOK, BreaksSession
<1> QED
  BY <1>2, <1>3 DEF TypeOK, BreaksSession, handlerVars, clientVars, historyVars

LEMMA CallFailsTypes ==
  ASSUME TypeOK, NEW c \in Conns, CallFails(c)
  PROVE  /\ client' \in [Conns -> {"active", "done", "failed"}]
         /\ wrote' \in [Conns -> 0 .. CloseNotify]
         /\ got' \in [Conns -> Seq(Units)]
BY Sizes DEF TypeOK, CallFails

LEMMA ReplyTypes ==
  ASSUME TypeOK, NEW c \in Conns, Reply(c)
  PROVE  /\ op' \in [Conns -> {"none", "newRequest", "clientWrite",
                                "clientRead", "clientClose"}]
         /\ locked' \in [Conns -> {"none", "read", "write"}]
BY DEF TypeOK, Reply

LEMMA ResolvedHandle ==
  ASSUME TypeOK, NEW c \in Conns, pc[c] \in {"resolved", "removing"}
  PROVE  handle[c] \in Conns
BY DEF TypeOK, T!TypeOK

\* The steps of a client and of its handlers keep the types.
LEMMA HandlerTypes ==
  ASSUME CallInv, T!TypeOK', NEW c \in Conns, Handler(c)
  PROVE  TypeOK'
<1>0. TypeOK /\ ClientInv(c) /\ \A h \in Conns : ServerInv(h)
  BY DEF CallInv
<1>1. CASE NewRequest(c)
  BY <1>0, <1>1 DEF NewRequest, TypeOK, clientVars, pipeVars, serverVars,
              historyVars
<1>2. CASE NewRequestStores(c)
  BY <1>0, <1>2 DEF NewRequestStores, TypeOK, handlerVars, clientVars, pipeVars,
              serverVars, historyVars
<1>3. CASE NewRequestReplies(c)
  BY <1>0, <1>3 DEF NewRequestReplies, TypeOK, Stages, clientVars, pipeVars,
              historyVars
<1>4. CASE Call(c)
  <2>1. /\ client' \in [Conns -> {"active", "done", "failed"}]
        /\ wrote' \in [Conns -> 0 .. CloseNotify]
        /\ got' \in [Conns -> Seq(Units)]
        /\ op' \in [Conns -> {"none", "newRequest", "clientWrite",
                              "clientRead", "clientClose"}]
    BY <1>0, <1>4, CallFailsTypes DEF Call, NextCall, TypeOK, clientVars
  <2> QED
    BY <1>0, <1>4, <2>1 DEF Call, TypeOK, pipeVars, serverVars, historyVars
<1>5. CASE LockHandle(c)
  BY <1>0, <1>5 DEF LockHandle, TypeOK, clientVars, serverVars, historyVars
<1>6. CASE ClientWrite(c)
  <2>1. handle[c] \in Conns
    BY <1>0, <1>6, ResolvedHandle DEF ClientWrite, T!Serve
  <2>2. Record(c, wrote[c] + 1) \in Records /\ wrote[c] + 1 \in 0 .. CloseNotify
    BY <1>0, <1>6, RecordType, Sizes DEF ClientWrite, ClientInv, TypeOK
  <2>3. wrote' \in [Conns -> 0 .. CloseNotify]
    <3>1. wrote' = [wrote EXCEPT ![c] = wrote[c] + 1] \/ wrote' = wrote
      BY <1>0, <1>6 DEF ClientWrite, TypeOK
    <3> QED
      BY <1>0, <2>2, <3>1 DEF TypeOK
  <2>4. spawned' \in [Conns -> SUBSET Records]
    BY <1>0, <1>6, <2>1, <2>2 DEF ClientWrite, TypeOK
  <2> QED
    BY <1>0, <1>6, <2>3, <2>4, ReplyTypes
       DEF ClientWrite, TypeOK, serverVars, historyVars
<1>7. CASE ClientRead(c)
  <2>1. handle[c] \in Conns
    BY <1>0, <1>7, ResolvedHandle DEF ClientRead, T!Serve
  <2>2. outPipe[handle[c]] \in Units
    BY <1>0, <1>7, <2>1 DEF ClientRead, TypeOK
  <2>3. outPipe' \in [Conns -> Units \cup {Nothing}]
    BY <1>0, <1>7 DEF ClientRead, TypeOK
  <2>4. /\ got' \in [Conns -> Seq(Units)]
        /\ client' \in [Conns -> {"active", "done", "failed"}]
    <3>1. /\ \/ got' = [got EXCEPT ![c] = Append(got[c], outPipe[handle[c]])]
             \/ UNCHANGED got
          /\ \/ client' = [client EXCEPT ![c] = "failed"]
             \/ UNCHANGED client
      BY <1>0, <1>7 DEF ClientRead
    <3>2. got[c] \in Seq(Units)
      BY <1>0 DEF TypeOK
    <3>3. Append(got[c], outPipe[handle[c]]) \in Seq(Units)
      BY <2>2, <3>2
    <3>4. got' \in [Conns -> Seq(Units)]
      BY <1>0, <3>1, <3>3 DEF TypeOK
    <3>5. client' \in [Conns -> {"active", "done", "failed"}]
      BY <1>0, <3>1 DEF TypeOK
    <3> QED
      BY <3>4, <3>5
  <2> QED
    BY <1>0, <1>7, <2>3, <2>4, ReplyTypes
       DEF ClientRead, TypeOK, serverVars, historyVars
<1>8. CASE ClientReadEOF(c)
  BY <1>0, <1>8, ReplyTypes
     DEF ClientReadEOF, TypeOK, pipeVars, serverVars, historyVars
<1>9. CASE CloseStart(c)
  <2>1. handle[c] \in Conns
    BY <1>0, <1>9, ResolvedHandle DEF CloseStart, T!CloseConn
  <2>2. Unit(handle[c], Farewell) \in Units
    BY <1>0, <2>1, UnitType, Sizes
  <2>3. /\ outPipe' \in [Conns -> Units \cup {Nothing}]
        /\ hungUp' \in [Conns -> BOOLEAN]
        /\ client' \in [Conns -> {"active", "done", "failed"}]
    <3>1. ClientDone(c) \/ UNCHANGED client
      BY <1>9 DEF CloseStart
    <3>2. outPipe' \in [Conns -> Units \cup {Nothing}]
      <4>1. \/ outPipe' =
                 [outPipe EXCEPT ![handle[c]] = Unit(handle[c], Farewell)]
            \/ UNCHANGED outPipe
        BY <1>9 DEF CloseStart
      <4>2. outPipe \in [Conns -> Units \cup {Nothing}]
        BY <1>0 DEF TypeOK
      <4> QED
        BY <2>2, <4>1, <4>2
    <3>3. hungUp' \in [Conns -> BOOLEAN]
      <4>1. \/ hungUp' = [hungUp EXCEPT ![handle[c]] = TRUE]
            \/ UNCHANGED hungUp
        BY <1>9 DEF CloseStart
      <4> QED
        BY <1>0, <4>1 DEF TypeOK
    <3>4. client' \in [Conns -> {"active", "done", "failed"}]
      <4>1. client \in [Conns -> {"active", "done", "failed"}]
        BY <1>0 DEF TypeOK
      <4>2. ClientDone(c) \/ UNCHANGED client
        BY <3>1
      <4> QED
        BY <4>1, <4>2 DEF ClientDone
    <3> QED
      BY <3>2, <3>3, <3>4
  <2>4. UNCHANGED handlerVars \/ Reply(c)
    BY <1>0, <1>9 DEF CloseStart
  <2>5. UNCHANGED <<wrote, got, spawned, inPipe, drain, serverVars, historyVars>>
    BY <1>9 DEF CloseStart
  <2> QED
    BY <1>0, <2>3, <2>4, <2>5, ReplyTypes
       DEF TypeOK, handlerVars, serverVars, historyVars
<1>10. CASE CloseEnd(c)
  BY <1>0, <1>10, ReplyTypes
     DEF CloseEnd, ClientDone, TypeOK, serverVars, historyVars
<1> QED
  BY <1>1, <1>2, <1>3, <1>4, <1>5, <1>6, <1>7, <1>8, <1>9, <1>10 DEF Handler

\* So do those of the goroutines, of DoTransfer and of the environment.
LEMMA OtherTypes ==
  ASSUME CallInv, T!TypeOK', NEW h \in Conns,
         Goroutine(h) \/ Transfer(h) \/ Environment(h)
  PROVE  TypeOK'
<1>0. TypeOK /\ ServerInv(h)
  BY DEF CallInv
<1>1. CASE WriterEnters(h)
  <2>1. PICK r \in spawned[h] :
          /\ inPipe' = [inPipe EXCEPT ![h] = r]
          /\ spawned' = [spawned EXCEPT ![h] = @ \ {r}]
          /\ overtaken' \in {overtaken, overtaken \cup {h}}
    BY <1>1 DEF WriterEnters
  <2>2. inPipe' \in [Conns -> Records \cup {Nothing}]
    BY <1>0, <2>1 DEF TypeOK
  <2>3. spawned' \in [Conns -> SUBSET Records] /\ overtaken' \subseteq Conns
    BY <1>0, <2>1 DEF TypeOK
  <2> QED
    BY <1>0, <1>1, <2>2, <2>3
       DEF WriterEnters, TypeOK, handlerVars, clientVars, serverVars
<1>2. CASE WriterFails(h)
  <2>1. /\ inPipe' \in [Conns -> Records \cup {Nothing}]
        /\ spawned' \in [Conns -> SUBSET Records]
    <3>1. CASE /\ inPipe' = [inPipe EXCEPT ![h] = Nothing]
               /\ UNCHANGED spawned
      BY <1>0, <3>1 DEF TypeOK
    <3>2. CASE /\ \E r \in spawned[h] :
                    spawned' = [spawned EXCEPT ![h] = @ \ {r}]
               /\ UNCHANGED inPipe
      BY <1>0, <3>2 DEF TypeOK
    <3> QED
      BY <1>2, <3>1, <3>2 DEF WriterFails
  <2> QED
    BY <1>0, <1>2, <2>1 DEF WriterFails, TypeOK, handlerVars, clientVars,
                            serverVars, historyVars
<1>3. CASE DrainReads(h) \/ DrainEnds(h)
  <2>1. CASE DrainReads(h)
    BY <1>0, <2>1 DEF DrainReads, TypeOK, handlerVars, clientVars, serverVars
  <2>2. CASE DrainEnds(h)
    BY <1>0, <2>2 DEF DrainEnds, TypeOK, handlerVars, clientVars, serverVars,
                      historyVars
  <2> QED
    BY <1>3, <2>1, <2>2
<1>4. CASE ServerReads(h) \/ BodyPasses(h)
  <2>1. CASE BreaksSession(h, "piece")
    BY <1>0, <2>1, BreaksTypes
  <2>2. CASE /\ Fits(h, inPipe[h]) /\ Take(h) /\ inPipe[h] # Nothing
             /\ \/ UNCHANGED <<session, stage>>
                \/ /\ session' = [session EXCEPT ![h] = inPipe[h].from]
                   /\ stage[h] \in {"hello", "finish", "head"}
                   /\ stage' = [stage EXCEPT ![h] =
                                  CASE @ = "hello"  -> "flight"
                                    [] @ = "finish" -> "head"
                                    [] @ = "head"   -> "backend"]
    <3>1. inPipe[h] \in Records
      BY <1>0, <2>2 DEF TypeOK
    <3>2. rcvd[h] + 1 \in 0 .. CloseNotify /\ inPipe[h].from \in Conns
      BY <1>0, <2>2, <3>1, Sizes DEF Fits, Records, TypeOK
    <3>3. rcvd' \in [Conns -> 0 .. CloseNotify]
      BY <1>0, <2>2, <3>2 DEF Take, TypeOK
    <3>4. inPipe' \in [Conns -> Records \cup {Nothing}]
      BY <1>0, <2>2 DEF Take, TypeOK
    <3>5. session' \in [Conns -> Conns \cup {NoHandle}]
      BY <1>0, <2>2, <3>2 DEF TypeOK
    <3>6. stage' \in [Conns -> Stages]
      <4>1. \/ UNCHANGED stage
            \/ \E s \in Stages : stage' = [stage EXCEPT ![h] = s]
        BY <2>2 DEF Stages
      <4> QED
        BY <1>0, <4>1 DEF TypeOK
    <3> QED
      BY <1>0, <2>2, <3>3, <3>4, <3>5, <3>6
         DEF Take, TypeOK, handlerVars, clientVars, historyVars
  <2> QED
    BY <1>4, <2>1, <2>2 DEF ServerReads, BodyPasses, Arrived
<1>5. CASE ServerReadFails(h) \/ BackendFails(h)
  BY <1>0, <1>5, PanicTypes DEF ServerReadFails, BackendFails
<1>6. CASE BackendAnswers(h)
  <2>1. untilClose' \in [Conns -> BOOLEAN]
    <3>1. PICK b \in BOOLEAN : untilClose' = [untilClose EXCEPT ![h] = b]
      <4> DEFINE Cut == "untilClose" \in Hazards
      <4>1. PICK b \in {FALSE} \cup {Cut} :
              untilClose' = [untilClose EXCEPT ![h] = b]
        BY <1>6 DEF BackendAnswers
      <4>2. Cut \in BOOLEAN
        OBVIOUS
      <4> HIDE DEF Cut
      <4>3. b \in BOOLEAN
        BY <4>1, <4>2
      <4> QED
        BY <4>1, <4>3
    <3> QED
      BY <1>0, <3>1 DEF TypeOK
  <2> QED
    BY <1>0, <1>6, <2>1 DEF BackendAnswers, TypeOK, Stages, handlerVars,
                            clientVars, pipeVars, historyVars
<1>7. CASE ServerWrites(h)
  <2>1. CASE Panic(h, "closed")
    BY <1>0, <2>1, PanicTypes
  <2>2. CASE ~Panic(h, "closed")
    <3>1. sent[h] + 1 \in 0 .. FatalAlert
      BY <1>0, <1>7, Sizes DEF ServerWrites, ServerInv, TypeOK
    <3>2. Unit(h, sent[h] + 1) \in Units
      BY <1>0, <3>1, UnitType
    <3>3. outPipe' \in [Conns -> Units \cup {Nothing}]
      <4>1. outPipe' = [outPipe EXCEPT ![h] = Unit(h, sent[h] + 1)]
        BY <1>7, <2>2 DEF ServerWrites
      <4>2. outPipe \in [Conns -> Units \cup {Nothing}]
        BY <1>0 DEF TypeOK
      <4> QED
        BY <3>2, <4>1, <4>2
    <3>4. /\ writing' = [writing EXCEPT ![h] = TRUE]
          /\ UNCHANGED <<handlerVars, clientVars, spawned, inPipe, drain,
                         hungUp, stage, session, rcvd, sent, untilClose, alert,
                         historyVars>>
      BY <1>7, <2>2 DEF ServerWrites
    <3> QED
      BY <1>0, <3>3, <3>4 DEF TypeOK, handlerVars, clientVars, historyVars
  <2> QED
    BY <2>1, <2>2
<1>8. CASE ServerWrote(h)
  <2>1. CASE Panic(h, "closed")
    BY <1>0, <2>1, PanicTypes
  <2>2. CASE ~Panic(h, "closed")
    <3>1. sent[h] + 1 \in 0 .. LastUnit
      <4>1. writing[h] /\ ServerInv(h)
        BY <1>0, <1>8 DEF ServerWrote
      <4>2. sent[h] \in 0 .. LastUnit /\ stage[h] \in Stages
        BY <1>0 DEF TypeOK
      <4>3. stage[h] \in {"flight", "response"}
        BY <4>1, <4>2 DEF ServerInv, Stages
      <4>4. sent[h] < LastUnit
        BY <4>1, <4>3, Sizes DEF ServerInv
      <4> QED
        BY <4>2, <4>4, Sizes
    <3>2. sent' \in [Conns -> 0 .. LastUnit]
      <4>1. sent' = [sent EXCEPT ![h] = @ + 1]
        BY <1>8, <2>2 DEF ServerWrote
      <4>2. sent \in [Conns -> 0 .. LastUnit]
        BY <1>0 DEF TypeOK
      <4> QED
        BY <3>1, <4>1, <4>2
    <3>3. stage' \in [Conns -> Stages]
      <4>1. stage[h] \in Stages
        BY <1>0 DEF TypeOK
      <4>2. \E s \in Stages : stage' = [stage EXCEPT ![h] = s]
        BY <1>8, <2>2, <4>1 DEF ServerWrote, Stages
      <4> QED
        BY <1>0, <4>2 DEF TypeOK
    <3>4. /\ writing' = [writing EXCEPT ![h] = FALSE]
          /\ UNCHANGED <<handlerVars, clientVars, pipeVars, session, rcvd,
                         untilClose, alert, historyVars>>
      BY <1>8, <2>2 DEF ServerWrote
    <3> QED
      BY <1>0, <3>2, <3>3, <3>4
         DEF TypeOK, handlerVars, clientVars, pipeVars, historyVars
  <2> QED
    BY <2>1, <2>2
<1>9. CASE NetworkFails(h)
  BY <1>0, <1>9, CallFailsTypes DEF NetworkFails, TypeOK, handlerVars,
                                    pipeVars, serverVars, historyVars
<1>10. CASE MapFault(h)
  BY <1>0, <1>10 DEF MapFault, TypeOK, handlerVars, clientVars, pipeVars,
                     serverVars
<1>11. CASE AlertWritten(h) \/ ServerRejects(h)
  <2>1. alert[h] # "none" => alert[h] \in {"piece", "rejected"}
    BY <1>0 DEF TypeOK
  <2> QED
    BY <1>0, <1>11, <2>1, PanicTypes, BreaksTypes
       DEF AlertWritten, ServerRejects
<1> QED
  BY <1>1, <1>2, <1>3, <1>4, <1>5, <1>6, <1>7, <1>8, <1>9, <1>10, <1>11
     DEF Goroutine, Transfer, Environment

LEMMA TypesNext ==
  ASSUME CallInv, T!TypeOK', [Next]_vars PROVE TypeOK'
<1>1. CASE UNCHANGED vars
  BY <1>1 DEF CallInv, TypeOK, vars, handlerVars, clientVars, pipeVars,
              serverVars, historyVars
<1> QED
  BY <1>1, HandlerTypes, OtherTypes DEF Next

-----------------------------------------------------------------------------
(***************************************************************************)
(* The client                                                              *)
(***************************************************************************)
SameClient(c) ==
  /\ op'[c] = op[c] /\ wrote'[c] = wrote[c]
  /\ got'[c] = got[c] /\ client'[c] = client[c]

LEMMA ClientFrame ==
  ASSUME NEW c \in Conns, ClientInv(c), SameClient(c)
  PROVE  ClientInv(c)'
BY DEF SameClient, ClientInv, AnswerComplete

\* A step of one client leaves the others alone, one of a handle all.
LEMMA OtherClients ==
  ASSUME TypeOK, NEW c \in Conns, NEW d \in Conns \ {c}, Handler(d)
  PROVE  SameClient(c)
<1>1. CASE NewRequest(d)
  BY <1>1 DEF NewRequest, SameClient, clientVars, TypeOK
<1>2. CASE NewRequestStores(d)
  BY <1>2 DEF NewRequestStores, SameClient, clientVars, handlerVars
<1>3. CASE NewRequestReplies(d)
  BY <1>3 DEF NewRequestReplies, SameClient, clientVars, TypeOK
<1>4. CASE Call(d)
  BY <1>4 DEF Call, CallFails, SameClient, clientVars, TypeOK
<1>5. CASE LockHandle(d)
  BY <1>5 DEF LockHandle, SameClient, clientVars
<1>6. CASE ClientWrite(d)
  BY <1>6 DEF ClientWrite, Reply, SameClient, TypeOK
<1>7. CASE ClientRead(d)
  BY <1>7 DEF ClientRead, Reply, SameClient, TypeOK
<1>8. CASE ClientReadEOF(d)
  BY <1>8 DEF ClientReadEOF, Reply, SameClient, TypeOK
<1>9. CASE CloseStart(d)
  BY <1>9 DEF CloseStart, ClientDone, Reply, SameClient, handlerVars, TypeOK
<1>10. CASE CloseEnd(d)
  BY <1>10 DEF CloseEnd, ClientDone, Reply, SameClient, TypeOK
<1> QED
  BY <1>1, <1>2, <1>3, <1>4, <1>5, <1>6, <1>7, <1>8, <1>9, <1>10 DEF Handler

LEMMA HandlesKeepClients ==
  ASSUME TypeOK, NEW c \in Conns, NEW h \in Conns,
         \/ Goroutine(h) \/ Transfer(h) \/ ServerRejects(h)
         \/ BodyPasses(h) \/ BackendFails(h) \/ MapFault(h)
  PROVE  SameClient(c)
BY DEF Goroutine, Transfer, WriterEnters, WriterFails, DrainReads, DrainEnds,
       ServerReads, ServerReadFails, AlertWritten, BackendAnswers, ServerWrites,
       ServerWrote, ServerRejects, BodyPasses, BackendFails, MapFault, Panic,
       BreaksSession, Take, SameClient, handlerVars, clientVars

\* A call that fails leaves a client that knows whether its answer is whole.
LEMMA CallFailsStep ==
  ASSUME TypeOK, NEW c \in Conns, ClientInv(c), CallFails(c), op'[c] = op[c],
         AnswerComplete(c) => op[c] \in {"none", "clientClose"}
  PROVE  ClientInv(c)'
<1>1. got' = got /\ (AnswerComplete(c)' <=> AnswerComplete(c))
  BY DEF CallFails, AnswerComplete
<1>2. CASE ~AnswerComplete(c)
  <2>1. client'[c] = "failed" /\ wrote'[c] = wrote[c]
    BY <1>2 DEF CallFails, TypeOK
  <2> QED
    BY <1>1, <1>2, <2>1 DEF ClientInv
<1>3. CASE AnswerComplete(c)
  <2>1. client'[c] \in {"done", "active"} /\ wrote'[c] = CloseNotify
    BY <1>3 DEF CallFails, TypeOK
  <2> QED
    BY <1>1, <1>3, <2>1 DEF ClientInv
<1> QED
  BY <1>2, <1>3

\* A client that is answered with what it accepts.
LEMMA GotStep ==
  ASSUME TypeOK, NEW c \in Conns, ClientInv(c), NEW u \in Units, Accepts(c, u),
         client[c] = "active", op'[c] = "none", wrote'[c] = wrote[c],
         client'[c] = client[c], got' = [got EXCEPT ![c] = Append(@, u)]
  PROVE  ClientInv(c)'
<1>1. /\ got[c] \in Seq(Units) /\ got'[c] = Append(got[c], u)
      /\ Len(got[c]) \in Nat
  BY DEF TypeOK
<1>2. /\ Len(got'[c]) = Len(got[c]) + 1
      /\ got'[c][Len(got[c]) + 1] = u
      /\ \A n \in 1 .. Len(got[c]) : got'[c][n] = got[c][n]
  BY <1>1
<1>3. AnswerComplete(c) => AnswerComplete(c)'
  BY <1>1, <1>2, Sizes DEF AnswerComplete, Accepts, IsAlert, Units
<1>4. \A n \in 1 .. Len(got'[c]) :
        n =< LastUnit => got'[c][n].to = c /\ got'[c][n].n = n
  <2> SUFFICES ASSUME NEW n \in 1 .. Len(got'[c]), n =< LastUnit
               PROVE  got'[c][n].to = c /\ got'[c][n].n = n
    OBVIOUS
  <2>1. CASE n \in 1 .. Len(got[c])
    BY <1>2, <2>1 DEF ClientInv
  <2>2. CASE n = Len(got[c]) + 1
    BY <1>1, <1>2, <2>2, Sizes DEF Accepts
  <2> QED
    BY <1>1, <1>2, <2>1, <2>2
<1> QED
  BY <1>3, <1>4 DEF ClientInv

\* The steps of a client keep what is known of it.
LEMMA HandlerClient ==
  ASSUME CallInv, NEW c \in Conns, Handler(c) PROVE ClientInv(c)'
<1>0. TypeOK /\ ClientInv(c)
  BY DEF CallInv
<1>1. CASE NewRequest(c) \/ NewRequestReplies(c)
  <2>1. /\ op'[c] \in {"newRequest", "none"}
        /\ UNCHANGED <<client, wrote, got>>
    BY <1>0, <1>1 DEF NewRequest, NewRequestReplies, clientVars, TypeOK
  <2> QED
    BY <1>0, <2>1 DEF ClientInv, AnswerComplete
<1>2. CASE NewRequestStores(c) \/ LockHandle(c)
  BY <1>0, <1>2, ClientFrame
     DEF NewRequestStores, LockHandle, SameClient, handlerVars, clientVars
<1>3. CASE Call(c)
  <2>1. CASE op' = [op EXCEPT ![c] = NextCall(c)] /\ UNCHANGED clientVars
    <3>1. op'[c] = NextCall(c) /\ UNCHANGED <<client, wrote, got>>
      BY <1>0, <2>1 DEF clientVars, TypeOK
    <3>2. client[c] = "active" /\ got[c] \in Seq(Units)
          /\ wrote[c] \in 0 .. CloseNotify
      BY <1>0, <1>3 DEF Call, TypeOK
    <3>3. got[c] = <<>> => ~AnswerComplete(c)
      BY Sizes DEF AnswerComplete
    <3>4. AnswerComplete(c)' <=> AnswerComplete(c)
      BY <3>1 DEF AnswerComplete
    <3>5. CASE wrote[c] = CloseNotify
      <4>1. op'[c] = "clientClose" /\ wrote'[c] = CloseNotify
        BY <3>1, <3>2, <3>5, Sizes DEF NextCall
      <4> QED
        BY <1>0, <3>1, <3>2, <3>4, <3>5, <4>1 DEF ClientInv
    <3>6. CASE /\ wrote[c] # CloseNotify
               /\ \/ wrote[c] = 1 /\ got[c] = <<>>
                  \/ wrote[c] = LastReq /\ ~AnswerComplete(c)
      BY <1>0, <3>1, <3>2, <3>3, <3>4, <3>6 DEF NextCall, ClientInv
    <3>7. CASE /\ wrote[c] # CloseNotify
               /\ ~ \/ wrote[c] = 1 /\ got[c] = <<>>
                    \/ wrote[c] = LastReq /\ ~AnswerComplete(c)
      <4>1. op'[c] = "clientWrite" /\ wrote[c] < CloseNotify
        BY <3>1, <3>2, <3>7, Sizes DEF NextCall
      <4> QED
        BY <1>0, <3>1, <3>2, <3>4, <3>7, <4>1 DEF ClientInv
    <3> QED
      BY <3>5, <3>6, <3>7
  <2>2. CASE CallFails(c) /\ UNCHANGED op
    BY <1>0, <1>3, <2>2, CallFailsStep DEF Call
  <2> QED
    BY <1>3, <2>1, <2>2 DEF Call
<1>4. CASE ClientWrite(c)
  <2>1. /\ op[c] = "clientWrite" /\ op'[c] = "none"
        /\ UNCHANGED <<client, got>>
        /\ wrote'[c] = IF client[c] = "active" THEN wrote[c] + 1 ELSE wrote[c]
    BY <1>0, <1>4 DEF ClientWrite, Reply, TypeOK
  <2>2. AnswerComplete(c)' <=> AnswerComplete(c)
    BY <2>1 DEF AnswerComplete
  <2>3. wrote'[c] = CloseNotify => AnswerComplete(c)
    BY <1>0, <2>1, Sizes DEF ClientInv, TypeOK
  <2> QED
    BY <1>0, <2>1, <2>2, <2>3 DEF ClientInv
<1>5. CASE ClientRead(c)
  <2>1. /\ op[c] = "clientRead" /\ op'[c] = "none" /\ UNCHANGED wrote
        /\ outPipe[handle[c]] \in Units
    BY <1>0, <1>5, ResolvedHandle DEF ClientRead, Reply, T!Serve, TypeOK
  <2>2. CASE /\ client[c] = "active" /\ Accepts(c, outPipe[handle[c]])
             /\ got' = [got EXCEPT ![c] = Append(@, outPipe[handle[c]])]
             /\ UNCHANGED client
    BY <1>0, <2>1, <2>2, GotStep
  <2>3. CASE UNCHANGED got /\ (client'[c] = "failed" \/ UNCHANGED client)
    <3>1. AnswerComplete(c)' <=> AnswerComplete(c)
      BY <2>3 DEF AnswerComplete
    <3> QED
      BY <1>0, <2>1, <2>3, <3>1 DEF ClientInv
  <2> QED
    BY <1>0, <1>5, <2>2, <2>3 DEF ClientRead, TypeOK
<1>6. CASE ClientReadEOF(c)
  <2>1. /\ op[c] = "clientRead" /\ op'[c] = "none" /\ UNCHANGED <<wrote, got>>
        /\ client'[c] \in {"failed", client[c]}
    BY <1>0, <1>6 DEF ClientReadEOF, Reply, TypeOK
  <2>2. AnswerComplete(c)' <=> AnswerComplete(c)
    BY <2>1 DEF AnswerComplete
  <2> QED
    BY <1>0, <2>1, <2>2 DEF ClientInv
<1>7. CASE CloseStart(c) \/ CloseEnd(c)
  <2>1. /\ op[c] = "clientClose" /\ UNCHANGED <<wrote, got>>
        /\ \/ op'[c] = op[c] /\ client'[c] = client[c]
           \/ op'[c] = "none" /\ client'[c] \in {"done", client[c]}
    BY <1>0, <1>7 DEF CloseStart, CloseEnd, ClientDone, Reply, handlerVars,
                      TypeOK
  <2>2. AnswerComplete(c)' <=> AnswerComplete(c)
    BY <2>1 DEF AnswerComplete
  <2> QED
    BY <1>0, <2>1, <2>2 DEF ClientInv
<1> QED
  BY <1>1, <1>2, <1>3, <1>4, <1>5, <1>6, <1>7 DEF Handler

\* What is known of a client is kept by every step.
LEMMA ClientNext ==
  ASSUME CallInv, [Next]_vars, NEW c \in Conns PROVE ClientInv(c)'
<1>0. TypeOK /\ ClientInv(c)
  BY DEF CallInv
<1>1. CASE UNCHANGED vars
  BY <1>0, <1>1, ClientFrame DEF SameClient, vars, handlerVars, clientVars
<1>2. ASSUME NEW d \in Conns, Handler(d) PROVE ClientInv(c)'
  BY <1>0, <1>2, HandlerClient, OtherClients, ClientFrame
<1>3. ASSUME NEW d \in Conns, NetworkFails(d) PROVE ClientInv(c)'
  <2>1. CASE c = d
    BY <1>0, <1>3, <2>1, CallFailsStep DEF NetworkFails, handlerVars
  <2>2. CASE c # d
    <3>1. SameClient(c)
      BY <1>0, <1>3, <2>2
         DEF NetworkFails, CallFails, SameClient, handlerVars, TypeOK
    <3> QED
      BY <1>0, <3>1, ClientFrame
  <2> QED
    BY <2>1, <2>2
<1>4. ASSUME NEW h \in Conns,
             \/ Goroutine(h) \/ Transfer(h) \/ ServerRejects(h)
             \/ BodyPasses(h) \/ BackendFails(h) \/ MapFault(h)
      PROVE  ClientInv(c)'
  <2>1. SameClient(c)
    BY <1>0, <1>4, HandlesKeepClients
  <2> QED
    BY <1>0, <2>1, ClientFrame
<1> QED
  BY <1>1, <1>2, <1>3, <1>4 DEF Next, Environment

-----------------------------------------------------------------------------
(***************************************************************************)
(* DoTransfer                                                              *)
(***************************************************************************)
SameServer(h) ==
  /\ stage'[h] = stage[h] /\ session'[h] = session[h] /\ rcvd'[h] = rcvd[h]
  /\ sent'[h] = sent[h] /\ writing'[h] = writing[h]
  /\ alert'[h] = alert[h]

Early(h) == pc[h] \in {"idle", "allocated", "storing"}

\* A handle that is stored stays stored.
LEMMA NeverEarlyAgain ==
  ASSUME TypeOK, [Next]_vars, NEW h \in Conns, Early(h)' PROVE Early(h)
<1>1. pc \in [Conns -> T!Phases]
  BY DEF TypeOK, T!TypeOK
<1>2. CASE UNCHANGED tableVars
  BY <1>2 DEF tableVars, Early
<1>3. CASE T!Next
  BY <1>1, <1>3
     DEF T!Next, T!AllocateID, T!BeginStore, T!EndStore, T!Resolve, T!Serve,
         T!CloseConn, T!Remove, T!MapFault, T!TransferPanics, Early
<1> QED
  BY <1>2, <1>3, NextRefines DEF T!vars, tableVars

LEMMA ServerFrame ==
  ASSUME NEW h \in Conns, ServerInv(h), SameServer(h), Early(h)' => Early(h)
  PROVE  ServerInv(h)'
BY DEF ServerInv, SameServer, Early

LEMMA OutPipeFrame ==
  ASSUME NEW h \in Conns, OutPipeInv(h), SameServer(h),
         outPipe'[h] \in {outPipe[h], Nothing}
  PROVE  OutPipeInv(h)'
BY DEF OutPipeInv, SameServer, IsAlert

\* A session that breaks is not one that writes.
LEMMA BreaksServer ==
  ASSUME TypeOK, NEW h \in Conns, ServerInv(h), OutPipeInv(h),
         NEW why \in {"piece", "rejected"}, BreaksSession(h, why)
  PROVE  ServerInv(h)' /\ OutPipeInv(h)'
<1>1. /\ UNCHANGED <<pc, stage, session, rcvd, sent, writing>>
      /\ alert'[h] = why /\ why # "none"
      /\ outPipe'[h] = IF outPipe[h] = Nothing THEN Unit(h, FatalAlert)
                                             ELSE outPipe[h]
  BY DEF BreaksSession, TypeOK, tableVars
<1>2. ServerInv(h)'
  BY <1>1 DEF ServerInv
<1>3. Unit(h, FatalAlert).n = FatalAlert
  BY DEF Unit
<1>4. CASE outPipe[h] = Nothing
  BY <1>1, <1>2, <1>3, <1>4 DEF OutPipeInv, IsAlert
<1>5. CASE outPipe[h] # Nothing
  BY <1>1, <1>2, <1>5 DEF OutPipeInv, IsAlert
<1> QED
  BY <1>4, <1>5

\* Of the steps of a client, DoTransfer only sees that its handle is stored
\* and that what it wrote is read.
LEMMA HandlerServer ==
  ASSUME CallInv, NEW c \in Conns, Handler(c), NEW h \in Conns,
         Early(h)' => Early(h)
  PROVE  ServerInv(h)' /\ OutPipeInv(h)'
<1>0. TypeOK /\ ServerInv(h) /\ OutPipeInv(h)
  BY DEF CallInv
<1>1. CASE NewRequestReplies(c)
  <2>1. CASE c = h
    <3>1. Early(h) /\ ~Early(h)'
      BY <1>0, <1>1, <2>1
         DEF NewRequestReplies, T!EndStore, Early, TypeOK, T!TypeOK
    <3>2. /\ stage[h] = "none" /\ stage'[h] = "hello"
          /\ UNCHANGED <<session, rcvd, sent, writing, alert, outPipe>>
      BY <1>0, <1>1, <2>1, <3>1
         DEF NewRequestReplies, ServerInv, Early, TypeOK, pipeVars
    <3> QED
      BY <1>0, <3>1, <3>2, Sizes DEF ServerInv, OutPipeInv, IsAlert, Early
  <2>2. CASE c # h
    <3>1. SameServer(h) /\ outPipe' = outPipe
      BY <1>0, <1>1, <2>2 DEF NewRequestReplies, SameServer, TypeOK, pipeVars
    <3> QED
      BY <1>0, <3>1, ServerFrame, OutPipeFrame
  <2> QED
    BY <2>1, <2>2
<1>2. CASE CloseStart(c)
  <2>1. SameServer(h)
    BY <1>2 DEF CloseStart, SameServer, serverVars
  <2>2. ServerInv(h)'
    BY <1>0, <2>1, ServerFrame
  <2>3. CASE h # handle[c] \/ outPipe' = outPipe
    <3>1. outPipe'[h] = outPipe[h]
      BY <1>0, <1>2, <2>3 DEF CloseStart, TypeOK
    <3> QED
      BY <1>0, <2>1, <2>2, <3>1, OutPipeFrame
  <2>4. CASE /\ h = handle[c] /\ HandshakeComplete(h)
             /\ outPipe' = [outPipe EXCEPT ![h] = Unit(h, Farewell)]
    <3>1. outPipe'[h] = Unit(h, Farewell) /\ session[h] \in Conns
      BY <1>0, <2>4 DEF HandshakeComplete, ServerInv, TypeOK
    <3>2. outPipe'[h].to = session'[h] /\ outPipe'[h].n = Farewell
      BY <2>1, <3>1 DEF Unit, SameServer
    <3> QED
      BY <2>1, <2>2, <3>1, <3>2, Sizes DEF OutPipeInv, IsAlert, SameServer
  <2> QED
    BY <1>2, <2>3, <2>4 DEF CloseStart
<1>3. CASE ~NewRequestReplies(c) /\ ~CloseStart(c)
  <2>1. /\ UNCHANGED serverVars
        /\ \/ UNCHANGED outPipe
           \/ outPipe' = [outPipe EXCEPT ![handle[c]] = Nothing]
    BY <1>3 DEF Handler, NewRequest, NewRequestStores, Call, LockHandle,
                ClientWrite, ClientRead, ClientReadEOF, CloseEnd, pipeVars
  <2>2. SameServer(h) /\ outPipe'[h] \in {outPipe[h], Nothing}
    BY <1>0, <2>1 DEF SameServer, serverVars, TypeOK
  <2> QED
    BY <1>0, <2>2, ServerFrame, OutPipeFrame
<1> QED
  BY <1>1, <1>2, <1>3

\* The steps of DoTransfer keep what is known of it.
LEMMA TransferServer ==
  ASSUME CallInv, NEW g \in Conns, NEW h \in Conns, Early(h)' => Early(h),
         Transfer(g) \/ ServerRejects(g) \/ BodyPasses(g)
  PROVE  ServerInv(h)' /\ OutPipeInv(h)'
<1>0. TypeOK /\ ServerInv(h) /\ OutPipeInv(h)
  BY DEF CallInv
<1>1. ASSUME UNCHANGED <<outPipe, serverVars>>
      PROVE  ServerInv(h)' /\ OutPipeInv(h)'
  BY <1>0, <1>1, ServerFrame, OutPipeFrame DEF SameServer, serverVars
<1>2. ASSUME NEW why, Panic(g, why) PROVE ServerInv(h)' /\ OutPipeInv(h)'
  BY <1>1, <1>2 DEF Panic, pipeVars
<1>3. CASE g # h
  <2>1. SameServer(h) /\ outPipe'[h] = outPipe[h]
    BY <1>0, <1>3
       DEF Transfer, ServerReads, ServerReadFails, AlertWritten, BackendAnswers,
           ServerWrites, ServerWrote, ServerRejects, BodyPasses, Take, Panic,
           BreaksSession, SameServer, pipeVars, serverVars, TypeOK
  <2> QED
    BY <1>0, <2>1, ServerFrame, OutPipeFrame
<1>4. CASE g = h /\ (ServerReads(h) \/ BodyPasses(h))
  <2>1. CASE BreaksSession(h, "piece")
    BY <1>0, <2>1, BreaksServer
  <2>2. CASE ~BreaksSession(h, "piece")
    <3>1. /\ Fits(h, inPipe[h]) /\ inPipe[h] \in Records
          /\ rcvd'[h] = rcvd[h] + 1 /\ alert[h] = "none"
          /\ UNCHANGED <<outPipe, sent, writing, alert>>
      BY <1>0, <1>4, <2>2 DEF ServerReads, BodyPasses, Arrived, Take, TypeOK
    <3>2. rcvd[h] \in Nat
      BY <1>0 DEF TypeOK
    <3>3. CASE BodyPasses(h)
      BY <1>0, <2>2, <3>1, <3>2, <3>3
         DEF BodyPasses, ServerInv, OutPipeInv, IsAlert, Early
    <3>4. CASE ServerReads(h)
      <4>1. /\ session'[h] = inPipe[h].from /\ inPipe[h].from \in Conns
            /\ stage[h] \in {"finish", "head"} => session'[h] = session[h]
        BY <1>0, <2>2, <3>1, <3>4 DEF ServerReads, Fits, Records, TypeOK
      <4>2. \/ stage[h] = "hello" /\ stage'[h] = "flight"
            \/ stage[h] = "finish" /\ stage'[h] = "head"
            \/ stage[h] = "head" /\ stage'[h] = "backend"
        BY <1>0, <2>2, <3>4 DEF ServerReads, TypeOK
      <4>3. ServerInv(h)'
        BY <1>0, <3>1, <3>2, <4>1, <4>2 DEF ServerInv, Early
      <4>4. stage[h] = "hello" => outPipe[h] = Nothing
        BY <1>0, <3>1, TunnelAssumption DEF ServerInv, OutPipeInv
      <4>5. OutPipeInv(h)'
        BY <1>0, <3>1, <4>1, <4>2, <4>4 DEF OutPipeInv, IsAlert
      <4> QED
        BY <4>3, <4>5
    <3> QED
      BY <1>4, <3>3, <3>4
  <2> QED
    BY <2>1, <2>2
<1>5. CASE g = h /\ ServerReadFails(h)
  BY <1>2, <1>5 DEF ServerReadFails
<1>6. CASE g = h /\ BackendAnswers(h)
  <2>1. /\ stage[h] = "backend" /\ stage'[h] = "response"
        /\ UNCHANGED <<session, rcvd, sent, writing, alert, outPipe>>
    BY <1>0, <1>6 DEF BackendAnswers, TypeOK, pipeVars
  <2> QED
    BY <1>0, <2>1, Sizes DEF ServerInv, OutPipeInv, IsAlert, Early
<1>7. CASE g = h /\ ServerWrites(h)
  <2>1. CASE Panic(h, "closed")
    BY <1>2, <1>7, <2>1
  <2>2. CASE ~Panic(h, "closed")
    <3>1. /\ stage[h] \in {"flight", "response"}
          /\ outPipe'[h] = Unit(h, sent[h] + 1) /\ writing'[h] = TRUE
          /\ UNCHANGED <<stage, session, rcvd, sent>>
      BY <1>0, <1>7, <2>2 DEF ServerWrites, TypeOK
    <3>2. outPipe'[h].to = session[h] /\ outPipe'[h].n = sent[h] + 1
      BY <3>1 DEF Unit
    <3>3. session[h] \in Conns /\ sent[h] + 1 # FatalAlert
      BY <1>0, <3>1, Sizes DEF ServerInv, TypeOK
    <3> QED
      BY <1>0, <3>1, <3>2, <3>3, Sizes DEF ServerInv, OutPipeInv, IsAlert, Early
  <2> QED
    BY <2>1, <2>2
<1>8. CASE g = h /\ ServerWrote(h)
  <2>1. CASE Panic(h, "closed")
    BY <1>2, <1>8, <2>1
  <2>2. CASE ~Panic(h, "closed")
    <3>1. /\ outPipe'[h] = Nothing
          /\ writing[h] /\ writing'[h] = FALSE /\ sent'[h] = sent[h] + 1
          /\ UNCHANGED <<session, rcvd>>
      BY <1>0, <1>8, <2>2 DEF ServerWrote, TypeOK, pipeVars
    <3>2. stage[h] \in {"flight", "response"} /\ sent[h] \in 0 .. LastUnit
      BY <1>0, <3>1 DEF ServerInv, TypeOK, Stages
    <3>3. stage'[h] = IF stage[h] = "flight" THEN "finish"
                      ELSE IF sent[h] + 1 = LastUnit THEN "done" ELSE "response"
      <4>1. stage' = [stage EXCEPT ![h] =
                        CASE @ = "flight"           -> "finish"
                          [] sent[h] + 1 = LastUnit -> "done"
                          [] OTHER                  -> @]
        BY <1>8, <2>2 DEF ServerWrote
      <4>2. CASE stage[h] = "flight"
        <5>1. sent[h] + 1 # LastUnit
          BY <1>0, <4>2, Sizes DEF ServerInv
        <5> QED
          BY <1>0, <4>1, <4>2, <5>1 DEF TypeOK
      <4>3. CASE stage[h] = "response"
        BY <1>0, <4>1, <4>3 DEF TypeOK
      <4> QED
        BY <3>2, <4>2, <4>3
    <3>4. CASE stage[h] = "flight"
      BY <1>0, <3>1, <3>2, <3>3, <3>4, Sizes DEF ServerInv, OutPipeInv, Early
    <3>5. CASE stage[h] = "response" /\ sent[h] + 1 = LastUnit
      BY <1>0, <3>1, <3>2, <3>3, <3>5, Sizes DEF ServerInv, OutPipeInv, Early
    <3>6. CASE stage[h] = "response" /\ sent[h] + 1 # LastUnit
      BY <1>0, <3>1, <3>2, <3>3, <3>6, Sizes DEF ServerInv, OutPipeInv, Early
    <3> QED
      BY <3>2, <3>4, <3>5, <3>6
  <2> QED
    BY <2>1, <2>2
<1>9. CASE g = h /\ AlertWritten(h)
  BY <1>2, <1>9 DEF AlertWritten
<1>10. CASE g = h /\ ServerRejects(h)
  BY <1>0, <1>2, <1>10, BreaksServer DEF ServerRejects
<1> QED
  BY <1>3, <1>4, <1>5, <1>6, <1>7, <1>8, <1>9, <1>10 DEF Transfer

\* What is known of a handle is kept by every step.
LEMMA ServerNext ==
  ASSUME CallInv, [Next]_vars, NEW h \in Conns
  PROVE  ServerInv(h)' /\ OutPipeInv(h)'
<1>0. TypeOK /\ ServerInv(h) /\ OutPipeInv(h) /\ (Early(h)' => Early(h))
  BY NeverEarlyAgain DEF CallInv
<1>1. ASSUME SameServer(h), outPipe'[h] \in {outPipe[h], Nothing}
      PROVE  ServerInv(h)' /\ OutPipeInv(h)'
  BY <1>0, <1>1, ServerFrame, OutPipeFrame
<1>2. CASE UNCHANGED vars
  BY <1>1, <1>2 DEF vars, serverVars, pipeVars, SameServer
<1>3. ASSUME NEW g \in Conns,
             Goroutine(g) \/ BackendFails(g) \/ NetworkFails(g) \/ MapFault(g)
      PROVE  ServerInv(h)' /\ OutPipeInv(h)'
  <2>1. /\ UNCHANGED serverVars
        /\ \/ UNCHANGED outPipe
           \/ outPipe' = [outPipe EXCEPT ![g] = Nothing]
    BY <1>3 DEF Goroutine, WriterEnters, WriterFails, DrainReads, DrainEnds,
                BackendFails, NetworkFails, MapFault, Panic, pipeVars
  <2>2. SameServer(h) /\ outPipe'[h] \in {outPipe[h], Nothing}
    BY <1>0, <2>1 DEF SameServer, serverVars, TypeOK
  <2> QED
    BY <1>1, <2>2
<1> QED
  BY <1>0, <1>2, <1>3, HandlerServer, TransferServer DEF Next, Environment

-----------------------------------------------------------------------------
(***************************************************************************)
(* The hello of a client                                                   *)
(***************************************************************************)
Unwritten(c) ==
  wrote[c] = 0 /\ (client[c] = "active" \/ op[c] = "clientWrite")

\* A step that writes no hello keeps what is known of them.
LEMMA HelloFrame ==
  ASSUME NEW c \in Conns, HelloInv(c), Unwritten(c)' => Unwritten(c),
         \A h \in Conns : HasHello(c, h)' => HasHello(c, h)
  PROVE  HelloInv(c)'
BY DEF HelloInv, Unwritten

LEMMA SameClientUnwritten ==
  ASSUME NEW c \in Conns, SameClient(c) PROVE Unwritten(c)' => Unwritten(c)
BY DEF SameClient, Unwritten

LEMMA HelloWritten ==
  ASSUME CallInv, NEW c \in Conns, NEW d \in Conns, ClientWrite(d)
  PROVE  HelloInv(c)'
<1>0. TypeOK /\ HelloInv(c)
  BY DEF CallInv
<1>1. /\ handle[d] \in Conns
      /\ spawned' = [spawned EXCEPT ![handle[d]] =
                       @ \cup {Record(d, wrote[d] + 1)}]
      /\ UNCHANGED <<inPipe, session>>
      /\ op[d] = "clientWrite"
  BY <1>0, ResolvedHandle DEF ClientWrite, T!Serve, serverVars
<1>2. CASE c # d
  <2>1. Record(d, wrote[d] + 1) # Record(c, 1)
    BY <1>2 DEF Record
  <2>2. \A h \in Conns : HasHello(c, h)' => HasHello(c, h)
    BY <1>0, <1>1, <2>1 DEF HasHello, Record, TypeOK
  <2>3. SameClient(c)
    BY <1>0, <1>2, OtherClients DEF Handler
  <2> QED
    BY <1>0, <2>2, <2>3, HelloFrame, SameClientUnwritten
<1>3. CASE c = d
  <2>1. /\ op'[c] = "none" /\ client' = client
        /\ wrote'[c] = IF client[c] = "active" THEN wrote[c] + 1 ELSE wrote[c]
        /\ wrote[c] \in Nat
    BY <1>0, <1>3 DEF ClientWrite, Reply, TypeOK
  <2>2. ~Unwritten(c)'
    BY <2>1 DEF Unwritten
  <2>3. CASE wrote[c] = 0
    <3>1. \A h \in Conns : ~HasHello(c, h)
      BY <1>0, <1>1, <1>3, <2>3 DEF HelloInv
    <3>2. \A h \in Conns : HasHello(c, h)' => h = handle[c]
      BY <1>0, <1>1, <1>3, <3>1 DEF HasHello, Record, TypeOK
    <3> QED
      BY <2>2, <3>2 DEF HelloInv, Unwritten
  <2>4. CASE wrote[c] # 0
    <3>1. Record(c, wrote[c] + 1) # Record(c, 1)
      BY <2>1, <2>4 DEF Record
    <3>2. \A h \in Conns : HasHello(c, h)' => HasHello(c, h)
      BY <1>0, <1>1, <1>3, <3>1 DEF HasHello, Record, TypeOK
    <3> QED
      BY <1>0, <2>2, <3>2, HelloFrame
  <2> QED
    BY <2>3, <2>4
<1> QED
  BY <1>2, <1>3

\* Every other step of a client leaves the ways to the handles alone.
LEMMA HandlerHello ==
  ASSUME CallInv, NEW c \in Conns, NEW d \in Conns, Handler(d), ~ClientWrite(d)
  PROVE  HelloInv(c)'
<1>0. TypeOK /\ HelloInv(c)
  BY DEF CallInv
<1>1. UNCHANGED <<spawned, inPipe, session>>
  BY DEF Handler, NewRequest, NewRequestStores, NewRequestReplies, Call,
         LockHandle, ClientRead, ClientReadEOF, CloseStart, CloseEnd, pipeVars,
         serverVars
<1>2. \A h \in Conns : HasHello(c, h)' => HasHello(c, h)
  BY <1>1 DEF HasHello, Record
<1>3. Unwritten(c)' => Unwritten(c)
  <2>1. CASE c # d
    BY <1>0, <2>1, OtherClients, SameClientUnwritten
  <2>2. CASE c = d
    <3>1. CASE Call(c)
      BY <1>0, <3>1, Sizes DEF Call, CallFails, Unwritten, clientVars, TypeOK
    <3>2. CASE ~Call(c)
      <4>1. /\ wrote' = wrote
            /\ client'[c] \in {client[c], "failed", "done"}
            /\ op'[c] \in {op[c], "none", "newRequest"}
        BY <1>0, <2>2, <3>2
           DEF Handler, NewRequest, NewRequestStores, NewRequestReplies,
               LockHandle, ClientRead, ClientReadEOF, CloseStart, CloseEnd,
               ClientDone, Reply, handlerVars, clientVars, TypeOK
      <4> QED
        BY <4>1 DEF Unwritten
    <3> QED
      BY <3>1, <3>2
  <2> QED
    BY <2>1, <2>2
<1> QED
  BY <1>0, <1>2, <1>3, HelloFrame

\* A hello only moves on: from a goroutine to the pipe, from there to a session.
LEMMA HelloMoves ==
  ASSUME CallInv, NEW c \in Conns, NEW g \in Conns, NEW h \in Conns,
         Goroutine(g) \/ Transfer(g) \/ ServerRejects(g) \/ BodyPasses(g),
         HasHello(c, h)'
  PROVE  HasHello(c, h)
<1>0. TypeOK /\ ServerInv(h)
  BY DEF CallInv
<1>1. CASE UNCHANGED <<spawned, inPipe, session>>
  BY <1>1 DEF HasHello, Record
<1>2. CASE g # h
  <2>1. /\ spawned'[h] = spawned[h] /\ inPipe'[h] = inPipe[h]
        /\ session'[h] = session[h]
    BY <1>0, <1>2
       DEF Goroutine, WriterEnters, WriterFails, DrainReads, DrainEnds,
           Transfer, ServerReads, ServerReadFails, AlertWritten, BackendAnswers,
           ServerWrites, ServerWrote, ServerRejects, BodyPasses, Take, Panic,
           BreaksSession, pipeVars, serverVars, TypeOK
  <2> QED
    BY <2>1 DEF HasHello, Record
<1>3. CASE g = h /\ WriterEnters(h)
  <2>1. PICK r \in spawned[h] : /\ inPipe'[h] = r
                                /\ spawned'[h] = spawned[h] \ {r}
    BY <1>0, <1>3 DEF WriterEnters, TypeOK
  <2> QED
    BY <1>3, <2>1 DEF WriterEnters, HasHello, Record, serverVars
<1>4. CASE g = h /\ WriterFails(h)
  <2>1. /\ inPipe'[h] \in {inPipe[h], Nothing}
        /\ spawned'[h] \subseteq spawned[h]
        /\ session' = session
    BY <1>0, <1>4 DEF WriterFails, TypeOK, serverVars
  <2> QED
    BY <1>0, <1>4, <2>1 DEF WriterFails, HasHello, Record, TypeOK
<1>5. CASE /\ g = h /\ (ServerReads(h) \/ BodyPasses(h))
           /\ ~BreaksSession(h, "piece")
  <2>1. /\ Fits(h, inPipe[h]) /\ inPipe[h] \in Records /\ inPipe[h] # Nothing
        /\ inPipe'[h] = Nothing /\ spawned' = spawned
        /\ session' = session \/ session'[h] = inPipe[h].from
    BY <1>0, <1>5 DEF ServerReads, BodyPasses, Arrived, Take, TypeOK
  <2>2. CASE session'[h] # session[h]
    <3>1. stage[h] = "hello"
      BY <1>0, <1>5, <2>1, <2>2 DEF ServerReads, BodyPasses, Fits
    <3>2. inPipe[h].n = 1
      BY <1>0, <2>1, <3>1 DEF ServerInv, Fits
    <3>3. inPipe[h] = Record(inPipe[h].from, 1)
      BY <2>1, <3>2 DEF Records, Record
    <3> QED
      BY <2>1, <2>2, <3>3, TunnelAssumption DEF HasHello, Record
  <2>3. CASE session'[h] = session[h]
    BY <2>1, <2>3 DEF HasHello, Record
  <2> QED
    BY <2>2, <2>3
<1>6. ASSUME g = h, NEW why, BreaksSession(h, why) PROVE HasHello(c, h)
  BY <1>0, <1>6 DEF BreaksSession, HasHello, Record, TypeOK
<1> QED
  BY <1>1, <1>2, <1>3, <1>4, <1>5, <1>6
     DEF Goroutine, DrainReads, DrainEnds, Transfer, ServerReads,
         ServerReadFails, AlertWritten, BackendAnswers, ServerWrites,
         ServerWrote, ServerRejects, BodyPasses, Panic, pipeVars, serverVars

\* What is known of the hello of a client is kept by every step.
LEMMA HelloNext ==
  ASSUME CallInv, [Next]_vars, NEW c \in Conns PROVE HelloInv(c)'
<1>0. TypeOK /\ HelloInv(c)
  BY DEF CallInv
<1>1. ASSUME NEW d \in Conns, Handler(d) PROVE HelloInv(c)'
  BY <1>1, HelloWritten, HandlerHello
<1>2. ASSUME NEW h \in Conns,
             Goroutine(h) \/ Transfer(h) \/ ServerRejects(h) \/ BodyPasses(h)
      PROVE  HelloInv(c)'
  BY <1>0, <1>2, HelloMoves, HandlesKeepClients, SameClientUnwritten, HelloFrame
<1>3. ASSUME UNCHANGED <<spawned, inPipe, session>>,
             Unwritten(c)' => Unwritten(c)
      PROVE  HelloInv(c)'
  <2>1. \A h \in Conns : HasHello(c, h)' => HasHello(c, h)
    BY <1>3 DEF HasHello, Record
  <2> QED
    BY <1>0, <1>3, <2>1, HelloFrame
<1>4. ASSUME NEW h \in Conns, BackendFails(h) \/ MapFault(h) PROVE HelloInv(c)'
  BY <1>0, <1>3, <1>4, HandlesKeepClients, SameClientUnwritten
     DEF BackendFails, MapFault, Panic, pipeVars, serverVars
<1>5. ASSUME NEW d \in Conns, NetworkFails(d) PROVE HelloInv(c)'
  <2>1. Unwritten(c)' => Unwritten(c)
    BY <1>0, <1>5, Sizes
       DEF NetworkFails, CallFails, Unwritten, handlerVars, TypeOK
  <2> QED
    BY <1>3, <1>5, <2>1 DEF NetworkFails, pipeVars, serverVars
<1>6. CASE UNCHANGED vars
  BY <1>3, <1>6 DEF vars, handlerVars, clientVars, pipeVars, serverVars,
                    Unwritten
<1> QED
  BY <1>1, <1>2, <1>4, <1>5, <1>6 DEF Next, Environment

-----------------------------------------------------------------------------
(***************************************************************************)
(* Nothing is read that was not written                                    *)
(***************************************************************************)

\* A session is for good, and what was written was written.
LEMMA SentGrows ==
  ASSUME CallInv, [Next]_vars, NEW h \in Conns
  PROVE  /\ session[h] \in Conns => session'[h] = session[h]
         /\ \/ sent'[h] = sent[h] /\ (writing[h] => writing'[h])
            \/ sent'[h] = sent[h] + 1
<1>0. TypeOK /\ ServerInv(h)
  BY DEF CallInv
<1>1. CASE UNCHANGED <<session, sent, writing>>
  BY <1>1
<1>2. ASSUME NEW g \in Conns, ServerReads(g) \/ BodyPasses(g)
      PROVE  /\ UNCHANGED <<sent, writing>>
             /\ session[h] \in Conns => session'[h] = session[h]
  <2>1. UNCHANGED <<sent, writing>>
    BY <1>2 DEF ServerReads, BodyPasses, Take, BreaksSession
  <2>2. CASE session' # session
    <3>1. /\ ServerReads(g) /\ Fits(g, inPipe[g])
          /\ session' = [session EXCEPT ![g] = inPipe[g].from]
      BY <1>2, <2>2 DEF ServerReads, BodyPasses, BreaksSession
    <3>2. CASE h = g
      <4>1. stage[h] = "hello" => session[h] \notin Conns
        BY <1>0, TunnelAssumption DEF ServerInv
      <4>2. stage[h] # "hello" => inPipe[h].from = session[h]
        BY <3>1, <3>2 DEF Fits
      <4> QED
        BY <1>0, <2>1, <3>1, <3>2, <4>1, <4>2 DEF TypeOK
    <3> QED
      BY <1>0, <2>1, <3>1, <3>2 DEF TypeOK
  <2> QED
    BY <2>1, <2>2
<1>3. ASSUME NEW g \in Conns, ServerWrites(g) \/ ServerWrote(g)
      PROVE  /\ session' = session
             /\ \/ sent'[h] = sent[h] /\ (writing[h] => writing'[h])
                \/ sent'[h] = sent[h] + 1
  <2>0. /\ session' = session
        /\ \/ /\ sent' = sent
              /\ writing' \in {writing, [writing EXCEPT ![g] = TRUE]}
           \/ /\ sent' = [sent EXCEPT ![g] = @ + 1]
              /\ writing' = [writing EXCEPT ![g] = FALSE]
    BY <1>3 DEF ServerWrites, ServerWrote, Panic, serverVars
  <2>1. CASE h = g
    BY <1>0, <2>0, <2>1 DEF TypeOK
  <2>2. CASE h # g
    BY <1>0, <2>0, <2>2 DEF TypeOK
  <2> QED
    BY <2>1, <2>2
<1>4. ASSUME NEW g \in Conns,
             \/ Handler(g) \/ Goroutine(g) \/ ServerReadFails(g)
             \/ AlertWritten(g) \/ ServerRejects(g) \/ BackendAnswers(g)
             \/ BackendFails(g) \/ NetworkFails(g) \/ MapFault(g)
      PROVE  UNCHANGED <<session, sent, writing>>
  BY <1>4
     DEF Handler, NewRequest, NewRequestStores, NewRequestReplies, Call,
         LockHandle, ClientWrite, ClientRead, ClientReadEOF, CloseStart,
         CloseEnd, Goroutine, WriterEnters, WriterFails, DrainReads, DrainEnds,
         ServerReadFails, AlertWritten, ServerRejects, BackendAnswers,
         BackendFails, NetworkFails, MapFault, Panic, BreaksSession, serverVars
<1> QED
  BY <1>1, <1>2, <1>3, <1>4 DEF Next, Transfer, Environment, vars, serverVars

\* A piece that was written stays written.
LEMMA WrittenStays ==
  ASSUME CallInv, [Next]_vars, NEW h \in Conns, NEW c \in Conns,
         NEW n \in 1 .. LastUnit, HasWritten(h, c, n)
  PROVE  HasWritten(h, c, n)'
<1>1. sent[h] \in Nat /\ n \in Nat
  BY Sizes DEF CallInv, TypeOK
<1> QED
  BY <1>1, SentGrows DEF HasWritten

\* A client is sent something only where it reads.
LEMMA OnlyReadsAreGot ==
  ASSUME CallInv, [Next]_vars, NEW c \in Conns, got'[c] # got[c]
  PROVE  /\ ClientRead(c) /\ Accepts(c, outPipe[handle[c]])
         /\ got'[c] = Append(got[c], outPipe[handle[c]])
<1>0. TypeOK
  BY DEF CallInv
<1>1. ~UNCHANGED vars
  BY DEF vars, clientVars
<1>2. ASSUME NEW d \in Conns, NetworkFails(d) PROVE FALSE
  BY <1>2 DEF NetworkFails, CallFails
<1>3. ASSUME NEW d \in Conns, Handler(d) PROVE d = c
  BY <1>0, <1>3, OtherClients DEF SameClient
<1>4. Handler(c)
  BY <1>0, <1>1, <1>2, <1>3, HandlesKeepClients
     DEF Next, Environment, SameClient
<1>5. ClientRead(c)
  BY <1>4
     DEF Handler, NewRequest, NewRequestStores, NewRequestReplies, Call,
         CallFails, LockHandle, ClientWrite, ClientReadEOF, CloseStart,
         CloseEnd, clientVars
<1> QED
  BY <1>0, <1>5 DEF ClientRead, TypeOK

\* What a client has read was written, after every step.
LEMMA GotNext ==
  ASSUME CallInv, [Next]_vars, NEW c \in Conns PROVE GotInv(c)'
<1>0. TypeOK /\ GotInv(c) /\ \A h \in Conns : OutPipeInv(h)
  BY DEF CallInv
<1> SUFFICES ASSUME NEW n \in 1 .. LastUnit, Len(got'[c]) >= n
             PROVE  \E h \in Conns : HasWritten(h, c, n)'
  BY DEF GotInv, LastUnit
<1>1. CASE Len(got[c]) >= n
  BY <1>0, <1>1, WrittenStays DEF GotInv
<1>2. CASE ~(Len(got[c]) >= n)
  <2> DEFINE u == outPipe[handle[c]]
  <2>1. ClientRead(c) /\ Accepts(c, u) /\ got'[c] = Append(got[c], u)
    BY <1>2, OnlyReadsAreGot
  <2>2. handle[c] \in Conns /\ u # Nothing /\ u \in Units
    BY <1>0, <2>1, ResolvedHandle DEF ClientRead, T!Serve, TypeOK
  <2>3. Len(got[c]) \in Nat /\ Len(got'[c]) = Len(got[c]) + 1
    BY <1>0, <2>1, <2>2 DEF TypeOK
  <2>4. n \in Nat /\ LastUnit \in Nat /\ n =< LastUnit
    BY Sizes
  <2>5. n = Len(got[c]) + 1
    BY <1>2, <2>3, <2>4
  <2>6. u.to = c /\ u.n = n /\ ~IsAlert(u)
    BY <2>1, <2>3, <2>4, <2>5, Sizes DEF Accepts, IsAlert
  <2>7. HasWritten(handle[c], c, n)
    <3>1. /\ session[handle[c]] = c /\ writing[handle[c]]
          /\ n = sent[handle[c]] + 1
      BY <1>0, <2>2, <2>4, <2>6, Sizes DEF OutPipeInv, IsAlert
    <3>2. sent[handle[c]] \in Nat
      BY <1>0, <2>2, <2>4 DEF TypeOK
    <3> QED
      BY <3>1, <3>2 DEF HasWritten
  <2> QED
    BY <2>2, <2>7, WrittenStays
<1> QED
  BY <1>1, <1>2

-----------------------------------------------------------------------------
(***************************************************************************)
(* The invariant                                                           *)
(***************************************************************************)
\* The initial states have the types.
LEMMA InitTypes == Init /\ T!TypeOK => TypeOK
<1> SUFFICES ASSUME Init, T!TypeOK PROVE TypeOK
  OBVIOUS
<1>1. 0 \in 0 .. CloseNotify /\ 0 \in 0 .. LastUnit /\ "none" \in Stages
  BY Sizes DEF Stages
<1>2. /\ op \in [Conns -> {"none", "newRequest", "clientWrite", "clientRead",
                           "clientClose"}]
      /\ locked \in [Conns -> {"none", "read", "write"}]
      /\ client \in [Conns -> {"active", "done", "failed"}]
      /\ wrote \in [Conns -> 0 .. CloseNotify]
      /\ got \in [Conns -> Seq(Units)]
  BY <1>1 DEF Init
<1>3. /\ spawned \in [Conns -> SUBSET Records]
      /\ inPipe \in [Conns -> Records \cup {Nothing}]
      /\ outPipe \in [Conns -> Units \cup {Nothing}]
      /\ drain \in [Conns -> BOOLEAN] /\ hungUp \in [Conns -> BOOLEAN]
  BY DEF Init
<1>4. /\ stage \in [Conns -> Stages]
      /\ session \in [Conns -> Conns \cup {NoHandle}]
      /\ rcvd \in [Conns -> 0 .. CloseNotify]
      /\ sent \in [Conns -> 0 .. LastUnit]
      /\ writing \in [Conns -> BOOLEAN] /\ untilClose \in [Conns -> BOOLEAN]
      /\ alert \in [Conns -> {"none", "piece", "rejected"}]
  BY <1>1 DEF Init
<1> QED
  BY <1>2, <1>3, <1>4 DEF Init, TypeOK

\* The initial states satisfy the invariant.
LEMMA InitCallInv == Init /\ T!TypeOK => CallInv
<1> SUFFICES ASSUME Init, T!TypeOK PROVE CallInv
  OBVIOUS
<1>1. ASSUME NEW c \in Conns PROVE ClientInv(c) /\ HelloInv(c) /\ GotInv(c)
  <2>1. /\ op[c] = "none" /\ wrote[c] = 0 /\ got[c] = <<>>
        /\ client[c] = "active"
    BY DEF Init
  <2>2. ClientInv(c)
    BY <2>1, Sizes DEF ClientInv
  <2>3. \A h \in Conns : ~HasHello(c, h)
    BY TunnelAssumption DEF Init, HasHello
  <2>4. GotInv(c)
    BY <2>1, Sizes DEF GotInv
  <2> QED
    BY <2>2, <2>3, <2>4 DEF HelloInv
<1>2. ASSUME NEW h \in Conns PROVE ServerInv(h) /\ OutPipeInv(h)
  BY DEF Init, ServerInv, OutPipeInv
<1> QED
  BY <1>1, <1>2, InitTypes DEF CallInv

\* What ConnTableProofs shows of the types of the table, for the tunnel.
LEMMA TableTypesAlways == Spec => []T!TypeOK
<1>1. TP!ConnsAssumption
  BY TunnelAssumption DEF TP!ConnsAssumption, TP!IsFiniteSet, IsFiniteSet
<1>2. TP!Spec => []TP!TypeOK
  BY <1>1, TP!TypeCorrect, PTL
<1>3. TP!TypeOK => T!TypeOK
  BY DEF TP!TypeOK, TP!Phases, TP!Handles, TP!IsFiniteSet,
         T!TypeOK, T!Phases, T!Handles, T!IsFiniteSet
<1> QED
  BY <1>2, <1>3, TunnelIsTable, PTL

\* The invariant is inductive.
LEMMA CallInvNext == CallInv /\ T!TypeOK' /\ [Next]_vars => CallInv'
BY TypesNext, ClientNext, HelloNext, GotNext, ServerNext DEF CallInv

LEMMA CallInvHolds == Spec => []CallInv
BY InitCallInv, CallInvNext, TableTypesAlways, PTL DEF Spec

\* Every variable of the tunnel keeps its type: no count of pieces goes past the
\* last piece there is, and every call works on some handle.
THEOREM TunnelTypeCorrect == Spec => []TypeOK
<1>1. CallInv => TypeOK
  BY DEF CallInv
<1> QED
  BY <1>1, CallInvHolds, PTL

-----------------------------------------------------------------------------
(***************************************************************************)
(* The answer                                                              *)
(***************************************************************************)

\* A client that read the whole answer has its session with a handle that wrote
\* it, so its request was executed.
LEMMA AnswerWasWritten ==
  ASSUME CallInv, NEW c \in Conns, AnswerComplete(c)
  PROVE  /\ Len(got[c]) >= LastUnit
         /\ \E h \in Conns :
              /\ session[h] = c /\ rcvd[h] >= 3 /\ h \in ExecutedBy(c)
              /\ \/ sent[h] = LastUnit
                 \/ sent[h] = LastUnit - 1 /\ writing[h]
<1>0. TypeOK /\ GotInv(c)
  BY DEF CallInv
<1>1. Len(got[c]) >= LastUnit
  BY Sizes DEF AnswerComplete
<1>2. PICK h \in Conns : HasWritten(h, c, LastUnit)
  BY <1>0, <1>1, Sizes DEF GotInv
<1>3. /\ session[h] = c
      /\ sent[h] = LastUnit \/ (sent[h] = LastUnit - 1 /\ writing[h])
  BY <1>0, <1>2, Sizes DEF HasWritten, TypeOK
<1>4. stage[h] \in {"response", "done"}
  <2>1. ServerInv(h) /\ stage[h] \in Stages
    BY <1>0 DEF CallInv, TypeOK
  <2>2. sent[h] # 0
    BY <1>3, Sizes
  <2>3. sent[h] = 1 => writing[h]
    BY <1>3, Sizes
  <2> QED
    BY <2>1, <2>2, <2>3 DEF ServerInv, Stages
<1>5. rcvd[h] >= 3
  BY <1>4 DEF CallInv, ServerInv
<1> QED
  BY <1>1, <1>3, <1>4, <1>5 DEF ExecutedBy

\* Whatever the table does, a client that is done was answered by one handle,
\* with which it had its session, which had read the head of its request and had
\* written the whole answer, and it read that answer in order.
THEOREM AnswersAreWhole == Spec => []AnswerIntegrity
<1>1. CallInv => AnswerIntegrity
  <2> SUFFICES ASSUME CallInv, NEW c \in Conns, client[c] = "done"
               PROVE  \E h \in Conns :
                        /\ session[h] = c /\ rcvd[h] >= 3
                        /\ \/ sent[h] = LastUnit
                           \/ sent[h] = LastUnit - 1 /\ writing[h]
                        /\ Len(got[c]) >= LastUnit
                        /\ \A n \in 1 .. LastUnit :
                             got[c][n].to = c /\ got[c][n].n = n
    BY DEF AnswerIntegrity
  <2>1. AnswerComplete(c) /\ ClientInv(c) /\ Len(got[c]) \in Nat
    BY DEF CallInv, ClientInv, TypeOK
  <2>2. Len(got[c]) >= LastUnit
    BY <2>1, AnswerWasWritten
  <2>3. \A n \in 1 .. LastUnit : n \in 1 .. Len(got[c]) /\ n =< LastUnit
    BY <2>1, <2>2, Sizes
  <2>4. \A n \in 1 .. LastUnit : got[c][n].to = c /\ got[c][n].n = n
    BY <2>1, <2>3 DEF ClientInv
  <2> QED
    BY <2>1, <2>2, <2>4, AnswerWasWritten
<1> QED
  BY <1>1, CallInvHolds, PTL

-----------------------------------------------------------------------------
(***************************************************************************)
(* The promise of RemoteCall                                               *)
(***************************************************************************)
Executed(h) == stage[h] \in {"backend", "response", "done"}

\* DoTransfer has read the head of the request, and turns to the backend.
Executes(h) ==
  /\ stage[h] = "head" /\ stage' = [stage EXCEPT ![h] = "backend"]
  /\ session'[h] = session[h] /\ UNCHANGED clientVars

\* A step executes a request or leaves the executed ones as they were.
LEMMA OnlyHeadsExecute ==
  ASSUME CallInv, [Next]_vars
  PROVE  \/ \E h \in Conns : Executes(h)
         \/ \A h \in Conns : Executed(h)' <=> Executed(h)
<1>0. TypeOK
  BY DEF CallInv
<1>1. ASSUME UNCHANGED stage
      PROVE  \A h \in Conns : Executed(h)' <=> Executed(h)
  BY <1>1 DEF Executed
<1>2. ASSUME NEW g \in Conns, NEW s \in Stages,
             stage' = [stage EXCEPT ![g] = s],
             s \in {"backend", "response", "done"} <=> Executed(g)
      PROVE  \A h \in Conns : Executed(h)' <=> Executed(h)
  BY <1>0, <1>2 DEF Executed, TypeOK
<1>3. ASSUME NEW g \in Conns, ServerReads(g)
      PROVE  Executes(g) \/ \A h \in Conns : Executed(h)' <=> Executed(h)
  <2>1. CASE BreaksSession(g, "piece")
    BY <1>1, <2>1 DEF BreaksSession
  <2>2. CASE ~BreaksSession(g, "piece") /\ stage[g] = "head"
    <3>1. /\ Fits(g, inPipe[g]) /\ UNCHANGED clientVars
          /\ session' = [session EXCEPT ![g] = inPipe[g].from]
          /\ stage' = [stage EXCEPT ![g] = "backend"]
      BY <1>3, <2>2 DEF ServerReads, Take
    <3>2. session'[g] = session[g]
      BY <1>0, <2>2, <3>1 DEF Fits, TypeOK
    <3> QED
      BY <2>2, <3>1, <3>2 DEF Executes
  <2>3. CASE ~BreaksSession(g, "piece") /\ stage[g] \in {"hello", "finish"}
    <3>1. \/ stage' = [stage EXCEPT ![g] = "flight"]
          \/ stage' = [stage EXCEPT ![g] = "head"]
      BY <1>3, <2>3 DEF ServerReads
    <3> QED
      BY <1>2, <2>3, <3>1 DEF Executed, Stages
  <2> QED
    BY <1>3, <2>1, <2>2, <2>3 DEF ServerReads
<1>4. ASSUME NEW g \in Conns, BackendAnswers(g)
      PROVE  \A h \in Conns : Executed(h)' <=> Executed(h)
  BY <1>2, <1>4 DEF BackendAnswers, Executed, Stages
<1>5. ASSUME NEW g \in Conns, ServerWrote(g)
      PROVE  \A h \in Conns : Executed(h)' <=> Executed(h)
  <2>1. CASE UNCHANGED stage
    BY <1>1, <2>1
  <2>2. CASE stage' # stage
    <3> DEFINE s == CASE stage[g] = "flight"       -> "finish"
                      [] sent[g] + 1 = LastUnit    -> "done"
                      [] OTHER                     -> stage[g]
    <3>1. writing[g] /\ stage' = [stage EXCEPT ![g] = s]
      BY <1>5, <2>2 DEF ServerWrote, Panic, serverVars
    <3>2. stage[g] \in {"flight", "response"}
      BY <1>0, <3>1 DEF CallInv, ServerInv, TypeOK, Stages
    <3>3. CASE stage[g] = "flight"
      <4>1. s = "finish" /\ sent[g] # LastUnit - 1
        BY <1>0, <3>3, Sizes DEF CallInv, ServerInv
      <4> HIDE DEF s
      <4> QED
        BY <1>2, <3>1, <3>3, <4>1 DEF Executed, Stages
    <3>4. CASE stage[g] = "response"
      <4>1. s \in {"done", stage[g]}
        BY <3>4
      <4> HIDE DEF s
      <4> QED
        BY <1>2, <3>1, <3>4, <4>1 DEF Executed, Stages
    <3> QED
      BY <3>2, <3>3, <3>4
  <2> QED
    BY <2>1, <2>2
<1>6. ASSUME NEW c \in Conns, NewRequestReplies(c)
      PROVE  \A h \in Conns : Executed(h)' <=> Executed(h)
  <2>1. stage[c] = "none"
    BY <1>6 DEF NewRequestReplies, T!EndStore, CallInv, ServerInv
  <2>2. stage' = [stage EXCEPT ![c] = "hello"]
    BY <1>6 DEF NewRequestReplies
  <2> QED
    BY <1>2, <2>1, <2>2 DEF Executed, Stages
<1>7. ASSUME NEW g \in Conns, Handler(g), ~NewRequestReplies(g)
      PROVE  UNCHANGED stage
  BY <1>7
     DEF Handler, NewRequest, NewRequestStores, Call, LockHandle, ClientWrite,
         ClientRead, ClientReadEOF, CloseStart, CloseEnd, serverVars
<1>8. ASSUME NEW g \in Conns,
             \/ Goroutine(g) \/ ServerReadFails(g) \/ AlertWritten(g)
             \/ ServerWrites(g) \/ ServerRejects(g) \/ BodyPasses(g)
             \/ BackendFails(g) \/ NetworkFails(g) \/ MapFault(g)
      PROVE  UNCHANGED stage
  BY <1>8
     DEF Goroutine, WriterEnters, WriterFails, DrainReads, DrainEnds,
         ServerReadFails, AlertWritten, ServerWrites, ServerRejects, BodyPasses,
         BackendFails, NetworkFails, MapFault, Panic, BreaksSession, serverVars
<1> QED
  BY <1>1, <1>3, <1>4, <1>5, <1>6, <1>7, <1>8
     DEF Next, Transfer, Environment, vars, serverVars

\* A client comes to one end, and only once.
LEMMA ClientEndsOnce ==
  ASSUME CallInv, [Next]_vars
  PROVE  \/ client' = client
         \/ \E c \in Conns : /\ client[c] = "active"
                             /\ \/ client' = [client EXCEPT ![c] = "done"]
                                \/ client' = [client EXCEPT ![c] = "failed"]
<1>0. TypeOK
  BY DEF CallInv
<1>1. CASE UNCHANGED client
  BY <1>1
<1>2. ASSUME NEW c \in Conns, client[c] = "active", CallFails(c)
      PROVE  \/ client' = client
             \/ client' = [client EXCEPT ![c] = "done"]
             \/ client' = [client EXCEPT ![c] = "failed"]
  BY <1>0, <1>2 DEF CallFails, TypeOK
<1>3. ASSUME NEW c \in Conns, client' # client,
             \/ ClientDone(c)
             \/ client' = [client EXCEPT ![c] =
                             IF @ = "active" THEN "failed" ELSE @]
      PROVE  /\ client[c] = "active"
             /\ \/ client' = [client EXCEPT ![c] = "done"]
                \/ client' = [client EXCEPT ![c] = "failed"]
  BY <1>0, <1>3 DEF ClientDone, TypeOK
<1>4. ASSUME NEW c \in Conns, client' # client, Handler(c)
      PROVE  \/ /\ client[c] = "active"
                /\ \/ CallFails(c)
                   \/ client' = [client EXCEPT ![c] = "failed"]
             \/ ClientDone(c)
             \/ client' = [client EXCEPT ![c] =
                             IF @ = "active" THEN "failed" ELSE @]
  BY <1>4
     DEF Handler, NewRequest, NewRequestStores, NewRequestReplies, Call,
         LockHandle, ClientWrite, ClientRead, ClientReadEOF, CloseStart,
         CloseEnd, clientVars
<1>5. ASSUME NEW g \in Conns,
             \/ Goroutine(g) \/ Transfer(g) \/ ServerRejects(g)
             \/ BodyPasses(g) \/ BackendFails(g) \/ MapFault(g)
      PROVE  UNCHANGED client
  BY <1>5
     DEF Goroutine, Transfer, WriterEnters, WriterFails, DrainReads, DrainEnds,
         ServerReads, ServerReadFails, AlertWritten, BackendAnswers,
         ServerWrites, ServerWrote, ServerRejects, BodyPasses, BackendFails,
         MapFault, Panic, BreaksSession, Take, clientVars
<1> QED
  BY <1>1, <1>2, <1>3, <1>4, <1>5
     DEF Next, Environment, NetworkFails, vars, clientVars

LEMMA RefinesCallInit == Init => R!Init
BY DEF Init, R!Init, ExecutedBy

\* The executions as RemoteCall sees them change only where DoTransfer turns to
\* the backend; each is the first and only one of its call.
LEMMA ExecuteRefines ==
  ASSUME CallInv, [Next]_vars, NEW h \in Conns, Executes(h)
  PROVE  R!Next
<1>0. TypeOK
  BY DEF CallInv
<1> DEFINE c == session[h]
<1>1. c \in Conns
  BY DEF Executes, CallInv, ServerInv
<1>2. \A d \in Conns : h \notin ExecutedBy(d)
  BY DEF Executes, ExecutedBy
<1>3. ExecutedBy(c) = {}
  <2> SUFFICES ASSUME NEW g \in ExecutedBy(c) PROVE FALSE
    OBVIOUS
  <2>1. g \in Conns /\ HasHello(c, g) /\ HasHello(c, h)
    BY DEF ExecutedBy, HasHello
  <2>2. g = h
    BY <1>1, <2>1 DEF CallInv, HelloInv
  <2> QED
    BY <1>1, <1>2, <2>2
<1>4. \A g \in Conns \ {h} : Executed(g)' <=> Executed(g)
  BY <1>0 DEF Executes, Executed, TypeOK
<1>5. \A g \in Conns : Executed(g) => session'[g] = session[g]
  BY SentGrows DEF Executed, CallInv, ServerInv
<1>6. Executed(h)' /\ session'[h] = c
  BY <1>0 DEF Executes, Executed, TypeOK
<1>7. \A d \in Conns :
        ExecutedBy(d)' = IF d = c THEN {h} ELSE ExecutedBy(d)
  BY <1>2, <1>3, <1>4, <1>5, <1>6 DEF ExecutedBy, Executed
<1>8. [d \in Conns |-> ExecutedBy(d)']
        = [[d \in Conns |-> ExecutedBy(d)] EXCEPT ![c] = {h}]
  BY <1>1, <1>7
<1>9. R!Execute(c, h)
  BY <1>1, <1>2, <1>3, <1>8 DEF R!Execute, Executes, clientVars
<1> QED
  BY <1>1, <1>9 DEF R!Next

AnsweredAreExecuted ==
  \A c \in Conns : client[c] = "done" => ExecutedBy(c) # {}

\* A client that is done was executed.
LEMMA DoneIsExecuted == CallInv => AnsweredAreExecuted
BY AnswerWasWritten DEF AnsweredAreExecuted, CallInv, ClientInv

\* Every step of the tunnel is one of RemoteCall or a stutter.
LEMMA RefinesCallNext ==
  CallInv /\ AnsweredAreExecuted' /\ [Next]_vars => [R!Next]_(R!vars)
<1> SUFFICES ASSUME CallInv, AnsweredAreExecuted', [Next]_vars
             PROVE  [R!Next]_(R!vars)
  OBVIOUS
<1>0. TypeOK
  BY DEF CallInv
<1>1. CASE \E h \in Conns : Executes(h)
  BY <1>1, ExecuteRefines
<1>2. CASE \A h \in Conns : Executed(h)' <=> Executed(h)
  <2>1. \A h \in Conns : Executed(h) => session'[h] = session[h]
    BY SentGrows DEF Executed, CallInv, ServerInv
  <2>2. \A c \in Conns : ExecutedBy(c)' = ExecutedBy(c)
    BY <1>2, <2>1 DEF ExecutedBy, Executed
  <2>3. [c \in Conns |-> ExecutedBy(c)'] = [c \in Conns |-> ExecutedBy(c)]
    BY <2>2
  <2>4. CASE client' = client
    BY <2>3, <2>4 DEF R!vars
  <2>5. ASSUME NEW c \in Conns, client[c] = "active",
               client' = [client EXCEPT ![c] = "failed"]
        PROVE  R!Next
    <3>1. R!Fail(c)
      BY <2>3, <2>5 DEF R!Fail
    <3> QED
      BY <3>1 DEF R!Next
  <2>6. ASSUME NEW c \in Conns, client[c] = "active",
               client' = [client EXCEPT ![c] = "done"]
        PROVE  R!Next
    <3>1. client'[c] = "done"
      BY <1>0, <2>6 DEF TypeOK
    <3>2. ExecutedBy(c)' # {}
      BY <3>1 DEF AnsweredAreExecuted
    <3>3. R!Answer(c)
      BY <2>2, <2>3, <2>6, <3>2 DEF R!Answer
    <3> QED
      BY <3>3 DEF R!Next
  <2> QED
    BY <2>4, <2>5, <2>6, ClientEndsOnce
<1> QED
  BY <1>1, <1>2, OnlyHeadsExecute

\* The tunnel keeps the promise of RemoteCall, even when ids collide, calls fail
\* or the process dies: a request is executed at most once and an answered
\* request was executed.
THEOREM TunnelRefinesCall == Spec => CallRefinement
BY RefinesCallInit, RefinesCallNext, DoneIsExecuted, CallInvHolds, PTL
   DEF Spec, CallRefinement, R!Spec

-----------------------------------------------------------------------------
(***************************************************************************)
(* What a client that failed leaves behind                                 *)
(***************************************************************************)

\* A client leaves the registered ones only by its own /clientClose.
LEMMA OnlyClosesUnregister ==
  ASSUME CallInv, [Next]_vars,
         NEW c \in Conns, c \in T!Registered, c \notin T!Registered'
  PROVE  op[c] = "clientClose"
<1>1. pc \in [Conns -> T!Phases] /\ pc'[c] # pc[c]
  BY DEF CallInv, TypeOK, T!TypeOK, T!Registered
<1>2. pc[c] \in {"open", "resolved", "removing"}
      /\ pc'[c] \notin {"open", "resolved", "removing"}
  BY DEF T!Registered
<1>3. ASSUME NEW d \in Conns, Handler(d) PROVE op[c] = "clientClose"
  <2>1. CASE NewRequest(d) \/ NewRequestStores(d) \/ NewRequestReplies(d)
    BY <1>1, <1>2, <2>1
       DEF NewRequest, NewRequestStores, NewRequestReplies, T!AllocateID,
           T!BeginStore, T!EndStore
  <2>2. CASE Call(d)
    BY <1>1, <1>2, <2>2 DEF Call, T!Resolve
  <2>3. CASE LockHandle(d)
    BY <1>1, <2>3 DEF LockHandle, tableVars
  <2>4. CASE ClientWrite(d) \/ ClientRead(d) \/ ClientReadEOF(d)
    BY <1>1, <1>2, <2>4 DEF ClientWrite, ClientRead, ClientReadEOF, T!Serve
  <2>5. CASE CloseStart(d) \/ CloseEnd(d)
    BY <1>1, <1>2, <2>5 DEF CloseStart, CloseEnd, T!CloseConn, T!Remove
  <2> QED
    BY <1>3, <2>1, <2>2, <2>3, <2>4, <2>5 DEF Handler
<1>4. ASSUME NEW g \in Conns,
             Goroutine(g) \/ Transfer(g) \/ Environment(g)
      PROVE  UNCHANGED pc
  BY <1>4
     DEF Goroutine, WriterEnters, WriterFails, DrainReads, DrainEnds, Transfer,
         ServerReads, ServerReadFails, AlertWritten, BackendAnswers,
         ServerWrites, ServerWrote, Environment, ServerRejects, BodyPasses,
         BackendFails, NetworkFails, MapFault, Panic, BreaksSession, Take,
         T!TransferPanics, T!MapFault, tableVars
<1> QED
  BY <1>1, <1>3, <1>4 DEF Next, vars, tableVars

\* Requests that were not orderly are not orderly again.
LEMMA StaysOrderly == [Next]_vars /\ orderly' => orderly
<1>1. T!Next /\ orderly' => orderly
  BY DEF T!Next, T!AllocateID, T!BeginStore, T!EndStore, T!Resolve, T!Serve,
         T!CloseConn, T!Remove, T!OrderlyAfterRemove, T!MapFault,
         T!TransferPanics
<1> QED
  BY <1>1, NextRefines DEF T!vars

\* What ConnTableProofs shows of its contents, for the tunnel.
LEMMA TableIsExactAlways == Spec => []T!TableIsRegistered
<1>1. TP!ConnsAssumption
  BY TunnelAssumption DEF TP!ConnsAssumption, TP!IsFiniteSet, IsFiniteSet
<1>2. TP!Spec => []TP!TableIsRegistered
  BY <1>1, TP!TableIsExact, PTL
<1>3. TP!TableIsRegistered => T!TableIsRegistered
  BY DEF TP!TableIsRegistered, TP!Handles, TP!Registered,
         T!TableIsRegistered, T!Handles, T!Registered
<1> QED
  BY <1>2, <1>3, TunnelIsTable, PTL

\* What a client that fails leaves behind stays: NewHttpClient returns without
\* Close, nothing else deletes an entry, and as long as requests are orderly no
\* other connection's /clientClose deletes it by mistake.
THEOREM FailuresLeak == Spec => FailedStaysInTable
<1> DEFINE Stays == orderly' => \A c \in T!Handles :
                      client[c] = "failed" => c \in T!Handles'
<1>1. CallInv /\ T!TableIsRegistered /\ T!TableIsRegistered' /\ [Next]_vars
        => Stays
  <2> SUFFICES ASSUME CallInv, T!TableIsRegistered, T!TableIsRegistered',
                      [Next]_vars, orderly', NEW c \in T!Handles,
                      client[c] = "failed"
               PROVE  c \in T!Handles'
    OBVIOUS
  <2>1. T!Handles = T!Registered /\ T!Handles' = T!Registered'
    BY StaysOrderly DEF T!TableIsRegistered
  <2>2. c \in Conns
    BY <2>1 DEF T!Registered
  <2>3. op[c] # "clientClose"
    <3>1. ClientInv(c)
      BY <2>2 DEF CallInv
    <3> QED
      BY <3>1 DEF ClientInv
  <2> QED
    BY <2>1, <2>2, <2>3, OnlyClosesUnregister
<1> QED
  BY <1>1, CallInvHolds, TableIsExactAlways, PTL DEF Spec, FailedStaysInTable

=============================================================================
