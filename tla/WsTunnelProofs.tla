--------------------------- MODULE WsTunnelProofs ---------------------------
(***************************************************************************)
(* Proofs about WsTunnel: its types, its two properties about answers and  *)
(* failures, and that it implements RemoteCall, for any calls, any numbers *)
(* of pieces and any buffers.                                              *)
(***************************************************************************)
EXTENDS WsTunnel, TLAPS

\* How far the handler has come and what it has read and written, ...
Progress(c) ==
  /\ got[c] <= sent[c]
  /\ rcvd[c] <= wrote[c]
  /\ stage[c] \in {"none", "hello", "flight"} => sent[c] = 0
  /\ stage[c] \in {"finish", "head", "backend"} => sent[c] = 1
  /\ stage[c] = "response" => sent[c] \in 1 .. RespPieces

\* ... and when it passed the request to the backend, or refused it.
Execution(c) ==
  /\ stage[c] \in {"backend", "response"} => executed[c]
  /\ stage[c] \in {"none", "hello", "flight", "finish", "head"} => ~executed[c]
  /\ sent[c] > 1 => executed[c]
  /\ "rejected" \in trouble[c] =>
       stage[c] \in {"closing", "ended"} /\ sent[c] <= 1

\* What the end of the connection says about the answer.
Closing(c) ==
  /\ serverEnd[c] = "notified" => stage[c] \in {"closing", "ended"}
  /\ serverEnd[c] = "aborted" => stage[c] = "ended"
  /\ (stage[c] = "closing" \/ serverEnd[c] = "notified")
       /\ trouble[c] \cap {"backend", "rejected"} = {} => sent[c] = LastUnit
  /\ ended[c] => /\ untilClose[c]
                 /\ serverEnd[c] = "notified"
                 /\ got[c] = sent[c]
                 /\ got[c] > 1
  /\ client[c] = "done" => AnswerComplete(c)

\* What holds as long as nothing befalls a call.
Undisturbed(c) == late[c] = {} /\ trouble[c] = {}

Calm(c) ==
  Undisturbed(c) =>
    /\ client[c] \notin {"failed", "panicked"}
    /\ serverEnd[c] = "aborted" => client[c] = "done"
    /\ stage[c] \in {"response", "closing", "ended"} => rcvd[c] = LastReq

IInv ==
  /\ TypeOK
  /\ \A c \in Calls : Progress(c) /\ Execution(c) /\ Closing(c) /\ Calm(c)

-----------------------------------------------------------------------------
\* The invariant holds when no websocket has been dialled.
THEOREM InvInit == Init => IInv
BY WsAssumption DEF Init, IInv, TypeOK, Progress, Execution, Closing, Calm,
   Undisturbed, AnswerComplete, LastReq, LastUnit

\* Every step of a client, of its handler, of the backend, of a timer or of the
\* network keeps the invariant.
THEOREM InvStep == IInv /\ [Next]_vars => IInv'
<1> SUFFICES ASSUME IInv, [Next]_vars PROVE IInv'
  OBVIOUS
<1> USE WsAssumption DEF LastReq, LastUnit, clientVars, serverVars, linkVars,
                         historyVars
<1>1. ASSUME NEW c \in Calls, Dial(c) PROVE IInv'
  <2>1. TypeOK'
    BY <1>1 DEF Dial, IInv, TypeOK
  <2>2. ASSUME NEW d \in Calls PROVE Progress(d)' /\ Execution(d)'
    BY <1>1 DEF Dial, IInv, TypeOK, Progress, Execution
  <2>3. ASSUME NEW d \in Calls PROVE Closing(d)'
    BY <1>1 DEF Dial, IInv, TypeOK, Progress, Closing, AnswerComplete
  <2>4. ASSUME NEW d \in Calls PROVE Calm(d)'
    BY <1>1 DEF Dial, IInv, TypeOK, Progress, Execution, Closing, Calm,
       Undisturbed, AnswerComplete
  <2> QED
    BY <2>1, <2>2, <2>3, <2>4 DEF IInv
<1>2. ASSUME NEW c \in Calls, ClientWrites(c) PROVE IInv'
  <2>1. TypeOK'
    BY <1>2 DEF ClientWrites, ToWrite, IInv, TypeOK
  <2>2. ASSUME NEW d \in Calls PROVE Progress(d)' /\ Execution(d)'
    BY <1>2 DEF ClientWrites, ToWrite, IInv, TypeOK, Progress, Execution
  <2>3. ASSUME NEW d \in Calls PROVE Closing(d)'
    BY <1>2 DEF ClientWrites, ToWrite, IInv, TypeOK, Progress, Closing,
       AnswerComplete
  <2>4. ASSUME NEW d \in Calls PROVE Calm(d)'
    BY <1>2 DEF ClientWrites, ToWrite, IInv, TypeOK, Progress, Execution,
       Closing, Calm, Undisturbed, AnswerComplete
  <2> QED
    BY <2>1, <2>2, <2>3, <2>4 DEF IInv
<1>3. ASSUME NEW c \in Calls, ClientWriteFails(c) PROVE IInv'
  <2>1. TypeOK'
    BY <1>3 DEF ClientWriteFails, ToWrite, ClientBroken, GivesUp, IInv, TypeOK
  <2>2. ASSUME NEW d \in Calls PROVE Progress(d)' /\ Execution(d)'
    BY <1>3 DEF ClientWriteFails, ToWrite, ClientBroken, GivesUp, IInv,
       TypeOK, Progress, Execution
  <2>3. ASSUME NEW d \in Calls PROVE Closing(d)'
    BY <1>3 DEF ClientWriteFails, ToWrite, ClientBroken, GivesUp, IInv,
       TypeOK, Progress, Closing, AnswerComplete
  <2>4. ASSUME NEW d \in Calls PROVE Calm(d)'
    BY <1>3 DEF ClientWriteFails, ToWrite, ClientBroken, GivesUp, IInv,
       TypeOK, Progress, Execution, Closing, Calm, Undisturbed, AnswerComplete
  <2> QED
    BY <2>1, <2>2, <2>3, <2>4 DEF IInv
<1>4. ASSUME NEW c \in Calls, ClientReads(c) PROVE IInv'
  <2>1. TypeOK'
    BY <1>4 DEF ClientReads, ToRead, IInv, TypeOK, Progress
  <2>2. ASSUME NEW d \in Calls PROVE Progress(d)' /\ Execution(d)'
    BY <1>4 DEF ClientReads, ToRead, IInv, TypeOK, Progress, Execution
  <2>3. ASSUME NEW d \in Calls PROVE Closing(d)'
    BY <1>4 DEF ClientReads, ToRead, IInv, TypeOK, Progress, Closing,
       AnswerComplete
  <2>4. ASSUME NEW d \in Calls PROVE Calm(d)'
    BY <1>4 DEF ClientReads, ToRead, IInv, TypeOK, Progress, Execution,
       Closing, Calm, Undisturbed, AnswerComplete
  <2> QED
    BY <2>1, <2>2, <2>3, <2>4 DEF IInv
<1>5. ASSUME NEW c \in Calls, ClientReadsEnd(c) PROVE IInv'
  <2>1. TypeOK'
    <3>1. TypeOK
      BY DEF IInv
    <3>2. UNCHANGED <<wrote, loaded, got, serverVars, linkVars, historyVars>>
      BY <1>5 DEF ClientReadsEnd, GivesUp
    <3>3. ended' = ended \/ ended' = [ended EXCEPT ![c] = TRUE]
      BY <1>5 DEF ClientReadsEnd, GivesUp
    <3>4. \/ client' = client
          \/ \E s \in {"panicked", "failed"} :
               client' = [client EXCEPT ![c] = s]
      BY <1>5 DEF ClientReadsEnd, GivesUp
    <3>5. client' \in [Calls -> {"dial", "active", "done", "failed", "panicked"}]
      BY <3>1, <3>4 DEF TypeOK
    <3>6. ended' \in [Calls -> BOOLEAN]
      BY <3>1, <3>3 DEF TypeOK
    <3> QED
      BY <3>1, <3>2, <3>5, <3>6 DEF TypeOK, serverVars, linkVars, historyVars
  <2>2. ASSUME NEW d \in Calls PROVE Progress(d)' /\ Execution(d)'
    <3>1. UNCHANGED <<wrote, got, serverVars, historyVars>>
      BY <1>5 DEF ClientReadsEnd, GivesUp
    <3> QED
      BY <3>1 DEF serverVars, historyVars, IInv, Progress, Execution
  <2>3. ASSUME NEW d \in Calls PROVE Closing(d)'
    BY <1>5 DEF ClientReadsEnd, ToRead, GivesUp, IInv, TypeOK, Progress,
       Closing, AnswerComplete
  <2>4. ASSUME NEW d \in Calls PROVE Calm(d)'
    BY <1>5 DEF ClientReadsEnd, ToRead, GivesUp, IInv, TypeOK, Progress,
       Execution, Closing, Calm, Undisturbed, AnswerComplete
  <2> QED
    BY <2>1, <2>2, <2>3, <2>4 DEF IInv
<1>6. ASSUME NEW c \in Calls, ClientReadFails(c) PROVE IInv'
  <2>1. TypeOK'
    BY <1>6 DEF ClientReadFails, ToRead, ClientBroken, GivesUp, IInv, TypeOK
  <2>2. ASSUME NEW d \in Calls PROVE Progress(d)' /\ Execution(d)'
    BY <1>6 DEF ClientReadFails, ToRead, ClientBroken, GivesUp, IInv,
       TypeOK, Progress, Execution
  <2>3. ASSUME NEW d \in Calls PROVE Closing(d)'
    BY <1>6 DEF ClientReadFails, ToRead, ClientBroken, GivesUp, IInv,
       TypeOK, Progress, Closing, AnswerComplete
  <2>4. ASSUME NEW d \in Calls PROVE Calm(d)'
    BY <1>6 DEF ClientReadFails, ToRead, ClientBroken, GivesUp, IInv,
       TypeOK, Progress, Execution, Closing, Calm, Undisturbed, AnswerComplete
  <2> QED
    BY <2>1, <2>2, <2>3, <2>4 DEF IInv
<1>7. ASSUME NEW c \in Calls, ClientCloses(c) PROVE IInv'
  <2>1. TypeOK'
    BY <1>7 DEF ClientCloses, IInv, TypeOK
  <2>2. ASSUME NEW d \in Calls PROVE Progress(d)' /\ Execution(d)'
    BY <1>7 DEF ClientCloses, IInv, TypeOK, Progress, Execution
  <2>3. ASSUME NEW d \in Calls PROVE Closing(d)'
    BY <1>7 DEF ClientCloses, IInv, TypeOK, Progress, Closing, AnswerComplete
  <2>4. ASSUME NEW d \in Calls PROVE Calm(d)'
    BY <1>7 DEF ClientCloses, IInv, TypeOK, Progress, Execution, Closing,
       Calm, Undisturbed, AnswerComplete
  <2> QED
    BY <2>1, <2>2, <2>3, <2>4 DEF IInv
<1>8. ASSUME NEW c \in Calls, ServerReads(c) PROVE IInv'
  <2>1. TypeOK'
    BY <1>8 DEF ServerReads, Arrives, IInv, TypeOK, Progress
  <2>2. ASSUME NEW d \in Calls PROVE Progress(d)' /\ Execution(d)'
    <3>1. CASE d = c
      <4>1. CASE stage[c] = "hello"
        BY <1>8, <3>1, <4>1 DEF ServerReads, Arrives, IInv, TypeOK,
           Progress, Execution
      <4>2. CASE stage[c] = "finish"
        BY <1>8, <3>1, <4>2 DEF ServerReads, Arrives, IInv, TypeOK,
           Progress, Execution
      <4>3. CASE stage[c] = "head"
        <5>1. executed'[c]
          BY <1>8, <4>3 DEF ServerReads, IInv, TypeOK
        <5>2. /\ stage'[c] = "backend"
              /\ UNCHANGED <<client, wrote, got, sent, trouble>>
          BY <1>8, <4>3 DEF ServerReads, IInv, TypeOK
        <5>3. rcvd[c] < wrote[c] /\ rcvd'[c] = rcvd[c] + 1
          BY <1>8 DEF ServerReads, Arrives, IInv, TypeOK
        <5> QED
          BY <3>1, <4>3, <5>1, <5>2, <5>3 DEF IInv, TypeOK, Progress, Execution
      <4> QED
        BY <1>8, <4>1, <4>2, <4>3 DEF ServerReads
    <3>2. CASE d # c
      BY <1>8, <3>2 DEF ServerReads, Arrives, IInv, TypeOK, Progress, Execution
    <3> QED
      BY <3>1, <3>2
  <2>3. ASSUME NEW d \in Calls PROVE Closing(d)'
    BY <1>8 DEF ServerReads, Arrives, IInv, TypeOK, Progress, Closing,
       AnswerComplete
  <2>4. ASSUME NEW d \in Calls PROVE Calm(d)'
    BY <1>8 DEF ServerReads, Arrives, IInv, TypeOK, Progress, Execution,
       Closing, Calm, Undisturbed, AnswerComplete
  <2> QED
    BY <2>1, <2>2, <2>3, <2>4 DEF IInv
<1>9. ASSUME NEW c \in Calls, ServerReadFails(c) PROVE IInv'
  <2>1. TypeOK'
    BY <1>9 DEF ServerReadFails, ServerBroken, ClientClosed, Abort, IInv,
       TypeOK
  <2>2. ASSUME NEW d \in Calls PROVE Progress(d)' /\ Execution(d)'
    BY <1>9 DEF ServerReadFails, ServerBroken, ClientClosed, Abort, IInv,
       TypeOK, Progress, Execution
  <2>3. ASSUME NEW d \in Calls PROVE Closing(d)'
    BY <1>9 DEF ServerReadFails, ServerBroken, ClientClosed, Abort, IInv,
       TypeOK, Progress, Closing, AnswerComplete
  <2>4. ASSUME NEW d \in Calls PROVE Calm(d)'
    BY <1>9 DEF ServerReadFails, ServerBroken, ClientClosed, Abort, IInv,
       TypeOK, Progress, Execution, Closing, Calm, Undisturbed, AnswerComplete
  <2> QED
    BY <2>1, <2>2, <2>3, <2>4 DEF IInv
<1>10. ASSUME NEW c \in Calls, ServerWrites(c) PROVE IInv'
  <2>1. TypeOK'
    BY <1>10 DEF ServerWrites, Writing, IInv, TypeOK, Progress
  <2>2. ASSUME NEW d \in Calls PROVE Progress(d)' /\ Execution(d)'
    <3>1. CASE d = c
      BY <1>10, <3>1 DEF ServerWrites, Writing, IInv, TypeOK, Progress,
          Execution
    <3>2. CASE d # c
      BY <1>10, <3>2 DEF ServerWrites, Writing, IInv, TypeOK, Progress,
          Execution
    <3> QED
      BY <3>1, <3>2
  <2>3. ASSUME NEW d \in Calls PROVE Closing(d)'
    BY <1>10 DEF ServerWrites, Writing, IInv, TypeOK, Progress, Closing,
        AnswerComplete
  <2>4. ASSUME NEW d \in Calls PROVE Calm(d)'
    BY <1>10 DEF ServerWrites, Writing, IInv, TypeOK, Progress, Execution,
        Closing, Calm, Undisturbed, AnswerComplete
  <2> QED
    BY <2>1, <2>2, <2>3, <2>4 DEF IInv
<1>11. ASSUME NEW c \in Calls, ServerWriteFails(c) PROVE IInv'
  <2>1. TypeOK'
    BY <1>11 DEF ServerWriteFails, Writing, ServerBroken, ClientClosed, Abort,
        IInv, TypeOK
  <2>2. ASSUME NEW d \in Calls PROVE Progress(d)' /\ Execution(d)'
    BY <1>11 DEF ServerWriteFails, Writing, ServerBroken, ClientClosed, Abort,
        IInv, TypeOK, Progress, Execution
  <2>3. ASSUME NEW d \in Calls PROVE Closing(d)'
    BY <1>11 DEF ServerWriteFails, Writing, ServerBroken, ClientClosed, Abort,
        IInv, TypeOK, Progress, Closing, AnswerComplete
  <2>4. ASSUME NEW d \in Calls PROVE Calm(d)'
    BY <1>11 DEF ServerWriteFails, Writing, ServerBroken, ClientClosed, Abort,
        IInv, TypeOK, Progress, Execution, Closing, Calm, Undisturbed,
        AnswerComplete
  <2> QED
    BY <2>1, <2>2, <2>3, <2>4 DEF IInv
<1>12. ASSUME NEW c \in Calls, ServerCloses(c) PROVE IInv'
  <2>1. TypeOK'
    BY <1>12 DEF ServerCloses, ServerBroken, ClientClosed, Abort, Befalls,
       IInv, TypeOK
  <2>2. ASSUME NEW d \in Calls PROVE Progress(d)' /\ Execution(d)'
    BY <1>12 DEF ServerCloses, ServerBroken, ClientClosed, Abort, Befalls,
       IInv, TypeOK, Progress, Execution
  <2>3. ASSUME NEW d \in Calls PROVE Closing(d)'
    BY <1>12 DEF ServerCloses, ServerBroken, ClientClosed, Abort, Befalls,
       IInv, TypeOK, Progress, Closing, AnswerComplete
  <2>4. ASSUME NEW d \in Calls PROVE Calm(d)'
    <3>1. CASE d = c
      <4>1. CASE /\ UNCHANGED <<client, late, trouble, stage, rcvd>>
                 /\ serverEnd'[c] = "notified"
        BY <1>12, <3>1, <4>1 DEF ServerCloses, IInv, TypeOK, Calm, Undisturbed
      <4>2. CASE ServerBroken(c) /\ Abort(c) /\ UNCHANGED trouble
        BY <1>12, <3>1, <4>2 DEF ServerCloses, ServerBroken, ClientClosed,
           Abort, IInv, TypeOK, Calm, Undisturbed
      <4>3. CASE Befalls(c, "slow")
        BY <3>1, <4>3 DEF Befalls, IInv, TypeOK, Calm, Undisturbed
      <4> QED
        BY <1>12, <4>1, <4>2, <4>3 DEF ServerCloses, IInv, TypeOK
    <3>2. CASE d # c
      BY <1>12, <3>2 DEF ServerCloses, ServerBroken, ClientClosed, Abort,
         Befalls, IInv, TypeOK, Progress, Execution, Closing, Calm,
         Undisturbed, AnswerComplete
    <3> QED
      BY <3>1, <3>2
  <2> QED
    BY <2>1, <2>2, <2>3, <2>4 DEF IInv
<1>13. ASSUME NEW c \in Calls, CloseEnds(c) PROVE IInv'
  <2>1. TypeOK'
    BY <1>13 DEF CloseEnds, IInv, TypeOK
  <2>2. ASSUME NEW d \in Calls PROVE Progress(d)' /\ Execution(d)'
    BY <1>13 DEF CloseEnds, IInv, TypeOK, Progress, Execution
  <2>3. ASSUME NEW d \in Calls PROVE Closing(d)'
    BY <1>13 DEF CloseEnds, IInv, TypeOK, Progress, Closing, AnswerComplete
  <2>4. ASSUME NEW d \in Calls PROVE Calm(d)'
    BY <1>13 DEF CloseEnds, IInv, TypeOK, Progress, Execution, Closing,
       Calm, Undisturbed, AnswerComplete
  <2> QED
    BY <2>1, <2>2, <2>3, <2>4 DEF IInv
<1>14. ASSUME NEW c \in Calls, BackendAnswers(c) PROVE IInv'
  <2>1. TypeOK'
    BY <1>14 DEF BackendAnswers, Befalls, IInv, TypeOK
  <2>2. ASSUME NEW d \in Calls PROVE Progress(d)' /\ Execution(d)'
    BY <1>14 DEF BackendAnswers, Befalls, IInv, TypeOK, Progress, Execution
  <2>3. ASSUME NEW d \in Calls PROVE Closing(d)'
    BY <1>14 DEF BackendAnswers, Befalls, IInv, TypeOK, Progress, Closing,
       AnswerComplete
  <2>4. ASSUME NEW d \in Calls PROVE Calm(d)'
    <3>1. CASE d = c
      <4>1. CASE rcvd[c] < LastReq
        <5>1. "early" \in trouble'[c]
          BY <1>14, <4>1 DEF BackendAnswers, Befalls, IInv, TypeOK
        <5> QED
          BY <3>1, <5>1 DEF Calm, Undisturbed
      <4>2. CASE ~(rcvd[c] < LastReq)
        BY <1>14, <3>1, <4>2 DEF BackendAnswers, IInv, TypeOK, Progress,
           Execution, Closing, Calm, Undisturbed, AnswerComplete
      <4> QED
        BY <4>1, <4>2
    <3>2. CASE d # c
      BY <1>14, <3>2 DEF BackendAnswers, Befalls, IInv, TypeOK, Progress,
         Execution, Closing, Calm, Undisturbed, AnswerComplete
    <3> QED
      BY <3>1, <3>2
  <2> QED
    BY <2>1, <2>2, <2>3, <2>4 DEF IInv
<1>15. ASSUME NEW c \in Calls, DialFails(c) PROVE IInv'
  <2>1. TypeOK'
    BY <1>15 DEF DialFails, GivesUp, Befalls, IInv, TypeOK
  <2>2. ASSUME NEW d \in Calls PROVE Progress(d)' /\ Execution(d)'
    BY <1>15 DEF DialFails, GivesUp, Befalls, IInv, TypeOK, Progress, Execution
  <2>3. ASSUME NEW d \in Calls PROVE Closing(d)'
    BY <1>15 DEF DialFails, GivesUp, Befalls, IInv, TypeOK, Progress,
       Closing, AnswerComplete
  <2>4. ASSUME NEW d \in Calls PROVE Calm(d)'
    BY <1>15 DEF DialFails, GivesUp, Befalls, IInv, TypeOK, Progress,
       Execution, Closing, Calm, Undisturbed, AnswerComplete
  <2> QED
    BY <2>1, <2>2, <2>3, <2>4 DEF IInv
<1>16. ASSUME NEW c \in Calls, LinkLost(c) PROVE IInv'
  <2>1. TypeOK'
    BY <1>16 DEF LinkLost, Befalls, IInv, TypeOK
  <2>2. ASSUME NEW d \in Calls PROVE Progress(d)' /\ Execution(d)'
    BY <1>16 DEF LinkLost, Befalls, IInv, TypeOK, Progress, Execution
  <2>3. ASSUME NEW d \in Calls PROVE Closing(d)'
    BY <1>16 DEF LinkLost, Befalls, IInv, TypeOK, Progress, Closing,
       AnswerComplete
  <2>4. ASSUME NEW d \in Calls PROVE Calm(d)'
    BY <1>16 DEF LinkLost, Befalls, IInv, TypeOK, Progress, Execution,
       Closing, Calm, Undisturbed, AnswerComplete
  <2> QED
    BY <2>1, <2>2, <2>3, <2>4 DEF IInv
<1>17. ASSUME NEW c \in Calls, BodyPasses(c) PROVE IInv'
  <2>1. TypeOK'
    BY <1>17 DEF BodyPasses, Arrives, IInv, TypeOK, Progress
  <2>2. ASSUME NEW d \in Calls PROVE Progress(d)' /\ Execution(d)'
    BY <1>17 DEF BodyPasses, Arrives, IInv, TypeOK, Progress, Execution
  <2>3. ASSUME NEW d \in Calls PROVE Closing(d)'
    BY <1>17 DEF BodyPasses, Arrives, IInv, TypeOK, Progress, Closing,
       AnswerComplete
  <2>4. ASSUME NEW d \in Calls PROVE Calm(d)'
    BY <1>17 DEF BodyPasses, Arrives, IInv, TypeOK, Progress, Execution,
       Closing, Calm, Undisturbed, AnswerComplete
  <2> QED
    BY <2>1, <2>2, <2>3, <2>4 DEF IInv
<1>18. ASSUME NEW c \in Calls, BodyFails(c) PROVE IInv'
  <2>1. TypeOK'
    BY <1>18 DEF BodyFails, ServerBroken, ClientClosed, Abort, IInv, TypeOK
  <2>2. ASSUME NEW d \in Calls PROVE Progress(d)' /\ Execution(d)'
    BY <1>18 DEF BodyFails, ServerBroken, ClientClosed, Abort, IInv, TypeOK,
       Progress, Execution
  <2>3. ASSUME NEW d \in Calls PROVE Closing(d)'
    BY <1>18 DEF BodyFails, ServerBroken, ClientClosed, Abort, IInv, TypeOK,
       Progress, Closing, AnswerComplete
  <2>4. ASSUME NEW d \in Calls PROVE Calm(d)'
    BY <1>18 DEF BodyFails, ServerBroken, ClientClosed, Abort, IInv, TypeOK,
       Progress, Execution, Closing, Calm, Undisturbed, AnswerComplete
  <2> QED
    BY <2>1, <2>2, <2>3, <2>4 DEF IInv
<1>19. ASSUME NEW c \in Calls, BackendFails(c) PROVE IInv'
  <2>1. TypeOK'
    BY <1>19 DEF BackendFails, BackendAwaited, Befalls, IInv, TypeOK
  <2>2. ASSUME NEW d \in Calls PROVE Progress(d)' /\ Execution(d)'
    BY <1>19 DEF BackendFails, BackendAwaited, Befalls, IInv, TypeOK, Progress,
        Execution
  <2>3. ASSUME NEW d \in Calls PROVE Closing(d)'
    BY <1>19 DEF BackendFails, BackendAwaited, Befalls, IInv, TypeOK, Progress,
        Closing, AnswerComplete
  <2>4. ASSUME NEW d \in Calls PROVE Calm(d)'
    BY <1>19 DEF BackendFails, BackendAwaited, Befalls, IInv, TypeOK, Progress,
        Execution, Closing, Calm, Undisturbed, AnswerComplete
  <2> QED
    BY <2>1, <2>2, <2>3, <2>4 DEF IInv
<1>20. ASSUME NEW c \in Calls, CloseDiscards(c) PROVE IInv'
  <2>1. TypeOK'
    BY <1>20 DEF CloseDiscards, Arrives, IInv, TypeOK, Progress
  <2>2. ASSUME NEW d \in Calls PROVE Progress(d)' /\ Execution(d)'
    BY <1>20 DEF CloseDiscards, Arrives, IInv, TypeOK, Progress, Execution
  <2>3. ASSUME NEW d \in Calls PROVE Closing(d)'
    BY <1>20 DEF CloseDiscards, Arrives, IInv, TypeOK, Progress, Closing,
       AnswerComplete
  <2>4. ASSUME NEW d \in Calls PROVE Calm(d)'
    BY <1>20 DEF CloseDiscards, Arrives, IInv, TypeOK, Progress, Execution,
       Closing, Calm, Undisturbed, AnswerComplete
  <2> QED
    BY <2>1, <2>2, <2>3, <2>4 DEF IInv
<1>21. ASSUME NEW c \in Calls, NEW side \in Sides, Expire(c, side) PROVE IInv'
  <2>1. TypeOK'
    BY <1>21 DEF Expire, IInv, TypeOK
  <2>2. ASSUME NEW d \in Calls PROVE Progress(d)' /\ Execution(d)'
    BY <1>21 DEF Expire, IInv, TypeOK, Progress, Execution
  <2>3. ASSUME NEW d \in Calls PROVE Closing(d)'
    BY <1>21 DEF Expire, IInv, TypeOK, Progress, Closing, AnswerComplete
  <2>4. ASSUME NEW d \in Calls PROVE Calm(d)'
    BY <1>21 DEF Expire, IInv, TypeOK, Progress, Execution, Closing, Calm,
       Undisturbed, AnswerComplete
  <2> QED
    BY <2>1, <2>2, <2>3, <2>4 DEF IInv
<1>22. ASSUME NEW c \in Calls, Accept(c) PROVE IInv'
  <2>1. TypeOK'
    BY <1>22 DEF Accept, IInv, TypeOK, Progress
  <2>2. ASSUME NEW d \in Calls PROVE Progress(d)' /\ Execution(d)'
    BY <1>22 DEF Accept, IInv, TypeOK, Progress, Execution
  <2>3. ASSUME NEW d \in Calls PROVE Closing(d)'
    BY <1>22 DEF Accept, IInv, TypeOK, Progress, Closing, AnswerComplete
  <2>4. ASSUME NEW d \in Calls PROVE Calm(d)'
    BY <1>22 DEF Accept, IInv, TypeOK, Progress, Execution, Closing, Calm,
       Undisturbed, AnswerComplete
  <2> QED
    BY <2>1, <2>2, <2>3, <2>4 DEF IInv
<1>23. ASSUME NEW c \in Calls, CallerContinues(c) PROVE IInv'
  <2>1. TypeOK'
    BY <1>23 DEF CallerContinues, CallerAwaited, IInv, TypeOK, Progress
  <2>2. ASSUME NEW d \in Calls PROVE Progress(d)' /\ Execution(d)'
    BY <1>23 DEF CallerContinues, CallerAwaited, IInv, TypeOK, Progress,
       Execution
  <2>3. ASSUME NEW d \in Calls PROVE Closing(d)'
    BY <1>23 DEF CallerContinues, CallerAwaited, IInv, TypeOK, Progress,
       Closing, AnswerComplete
  <2>4. ASSUME NEW d \in Calls PROVE Calm(d)'
    BY <1>23 DEF CallerContinues, CallerAwaited, IInv, TypeOK, Progress,
       Execution, Closing, Calm, Undisturbed, AnswerComplete
  <2> QED
    BY <2>1, <2>2, <2>3, <2>4 DEF IInv
<1>24. ASSUME NEW c \in Calls, CallerFails(c) PROVE IInv'
  <2>1. TypeOK'
    BY <1>24 DEF CallerFails, CallerAwaited, GivesUp, Befalls, IInv, TypeOK,
       Progress
  <2>2. ASSUME NEW d \in Calls PROVE Progress(d)' /\ Execution(d)'
    BY <1>24 DEF CallerFails, CallerAwaited, GivesUp, Befalls, IInv, TypeOK,
       Progress, Execution
  <2>3. ASSUME NEW d \in Calls PROVE Closing(d)'
    BY <1>24 DEF CallerFails, CallerAwaited, GivesUp, Befalls, IInv, TypeOK,
       Progress, Closing, AnswerComplete
  <2>4. ASSUME NEW d \in Calls PROVE Calm(d)'
    BY <1>24 DEF CallerFails, CallerAwaited, GivesUp, Befalls, IInv, TypeOK,
       Progress, Execution, Closing, Calm, Undisturbed, AnswerComplete
  <2> QED
    BY <2>1, <2>2, <2>3, <2>4 DEF IInv
<1>25. ASSUME NEW c \in Calls, ServerRejects(c) PROVE IInv'
  <2>1. TypeOK'
    BY <1>25 DEF ServerRejects, Arrives, Befalls, IInv, TypeOK, Progress
  <2>2. ASSUME NEW d \in Calls PROVE Progress(d)' /\ Execution(d)'
    BY <1>25 DEF ServerRejects, Arrives, Befalls, IInv, TypeOK, Progress,
       Execution
  <2>3. ASSUME NEW d \in Calls PROVE Closing(d)'
    BY <1>25 DEF ServerRejects, Arrives, Befalls, IInv, TypeOK, Progress,
       Closing, AnswerComplete
  <2>4. ASSUME NEW d \in Calls PROVE Calm(d)'
    BY <1>25 DEF ServerRejects, Arrives, Befalls, IInv, TypeOK, Progress,
       Execution, Closing, Calm, Undisturbed, AnswerComplete
  <2> QED
    BY <2>1, <2>2, <2>3, <2>4 DEF IInv
<1>26. ASSUME NEW c \in Calls, BackendContinues(c) PROVE IInv'
  <2>1. TypeOK'
    BY <1>26 DEF BackendContinues, IInv, TypeOK, Progress
  <2>2. ASSUME NEW d \in Calls PROVE Progress(d)' /\ Execution(d)'
    BY <1>26 DEF BackendContinues, IInv, TypeOK, Progress, Execution
  <2>3. ASSUME NEW d \in Calls PROVE Closing(d)'
    BY <1>26 DEF BackendContinues, IInv, TypeOK, Progress, Closing,
       AnswerComplete
  <2>4. ASSUME NEW d \in Calls PROVE Calm(d)'
    BY <1>26 DEF BackendContinues, IInv, TypeOK, Progress, Execution, Closing,
       Calm, Undisturbed, AnswerComplete
  <2> QED
    BY <2>1, <2>2, <2>3, <2>4 DEF IInv
<1>27. ASSUME UNCHANGED vars PROVE IInv'
  BY <1>27 DEF vars, IInv, TypeOK, Progress, Execution, Closing, Calm,
     Undisturbed, AnswerComplete
<1> QED
  BY <1>1, <1>2, <1>3, <1>4, <1>5, <1>6, <1>7, <1>8, <1>9, <1>10, <1>11,
     <1>12, <1>13, <1>14, <1>15, <1>16, <1>17, <1>18, <1>19, <1>20, <1>21,
     <1>27, <1>22, <1>23, <1>24, <1>25, <1>26
     DEF Next, SetUp, Client, Server, Backend, Environment

\* The inductive invariant of the websocket tunnel.
THEOREM InvAlways == Spec => []IInv
BY InvInit, InvStep, PTL DEF Spec

-----------------------------------------------------------------------------
\* The variables have their types: no side reads more than the other wrote, or
\* writes more than its message has.
THEOREM TypeCorrect == Spec => []TypeOK
<1>1. IInv => TypeOK
  BY DEF IInv
<1> QED
  BY <1>1, InvAlways, PTL

\* A client fails only for one of the reasons FailureCauses lists.
THEOREM FailuresExplained == Spec => []FailureCauses
<1>1. IInv => FailureCauses
  BY DEF IInv, Calm, Undisturbed, FailureCauses
<1> QED
  BY <1>1, InvAlways, PTL

\* A truncated answer passes for a whole one only when the backend failed in an
\* answer without length.
THEOREM TruncationByBackendOnly == Spec => []TruncatedByBackendOnly
<1>1. IInv => TruncatedByBackendOnly
  <2> SUFFICES ASSUME IInv, NEW c \in Calls, client[c] = "done",
                      got[c] < LastUnit
               PROVE  untilClose[c] /\ "backend" \in trouble[c]
    BY DEF TruncatedByBackendOnly
  <2>1. got[c] # LastUnit
    BY WsAssumption DEF IInv, TypeOK, LastUnit
  <2>2. ended[c]
    BY <2>1 DEF IInv, Closing, AnswerComplete
  <2>3. untilClose[c] /\ serverEnd[c] = "notified" /\ got[c] = sent[c]
    BY <2>2 DEF IInv, Closing
  <2>4. "rejected" \notin trouble[c]
    <3>1. got[c] \in Nat /\ sent[c] \in Nat /\ got[c] > 1
      BY <2>2 DEF IInv, TypeOK, Closing
    <3> QED
      BY <2>3, <3>1 DEF IInv, Execution
  <2>5. trouble[c] \cap {"backend", "rejected"} # {}
    BY <2>1, <2>3 DEF IInv, Closing
  <2> QED
    BY <2>3, <2>4, <2>5
<1> QED
  BY <1>1, InvAlways, PTL

-----------------------------------------------------------------------------
(***************************************************************************)
(* The refinement of RemoteCall                                            *)
(***************************************************************************)
\* A step is invisible to the caller if it neither executes nor ends a call.
LEMMA Unseen ==
  ASSUME UNCHANGED <<client, executed>>
  PROVE  UNCHANGED R!vars
BY DEF R!vars

\* A client that gives up, with an error or a panic, fails its call.
LEMMA GivesUpFails ==
  ASSUME IInv, NEW c \in Calls, client[c] \in {"dial", "active"}, GivesUp(c),
         UNCHANGED executed
  PROVE  R!Next
<1>1. \A d \in Calls : client'[d] = IF d = c THEN IF wrote[c] < LastReq
                                                  THEN "panicked" ELSE "failed"
                                    ELSE client[d]
  BY DEF GivesUp, IInv, TypeOK
<1>2. R!Fail(c)
  BY <1>1 DEF R!Fail
<1> QED
  BY <1>2 DEF R!Next

\* The websocket tunnel executes a request at most once, and answers only a
\* request that was executed.
THEOREM WsRefinesCall == Spec => CallRefinement
<1>1. Init => R!Init
  BY DEF Init, R!Init
<1>2. IInv /\ [Next]_vars => [R!Next]_(R!vars)
  <2> SUFFICES ASSUME IInv, [Next]_vars PROVE R!Next \/ UNCHANGED R!vars
    OBVIOUS
  <2>1. ASSUME NEW c \in Calls, ServerReads(c) PROVE R!Next \/ UNCHANGED R!vars
    <3>1. CASE stage[c] = "head"
      <4>1. executed' = [executed EXCEPT ![c] = TRUE] /\ UNCHANGED client
        BY <2>1, <3>1 DEF ServerReads, clientVars
      <4>2. ~executed[c]
        BY <3>1 DEF IInv, Execution
      <4>3. R!Execute(c, c)
        BY <4>1, <4>2 DEF R!Execute, IInv, TypeOK
      <4> QED
        BY <4>3 DEF R!Next
    <3>2. CASE stage[c] # "head"
      <4>1. ~executed[c]
        BY <2>1, <3>2 DEF ServerReads, IInv, Execution
      <4>2. UNCHANGED <<client, executed>>
        BY <2>1, <3>2, <4>1 DEF ServerReads, clientVars, IInv, TypeOK
      <4> QED
        BY <4>2, Unseen
    <3> QED
      BY <3>1, <3>2
  <2>2. ASSUME NEW c \in Calls, ClientCloses(c) PROVE R!Next
    <3>1. executed[c]
      BY <2>2, WsAssumption DEF ClientCloses, AnswerComplete, LastUnit, IInv,
         TypeOK, Progress, Execution, Closing
    <3>2. R!Answer(c)
      BY <2>2, <3>1 DEF ClientCloses, R!Answer, historyVars, IInv, TypeOK
    <3> QED
      BY <3>2 DEF R!Next
  <2>3. ASSUME NEW c \in Calls,
               \/ DialFails(c)
               \/ CallerFails(c)
               \/ ClientWriteFails(c)
               \/ ClientReadFails(c)
               \/ ClientReadsEnd(c) /\ GivesUp(c)
        PROVE  R!Next
    <3>1. client[c] \in {"dial", "active"} /\ GivesUp(c) /\ UNCHANGED executed
      BY <2>3 DEF DialFails, CallerFails, CallerAwaited, ClientWriteFails,
         ClientReadFails, ClientReadsEnd, ToRead, ToWrite, historyVars
    <3> QED
      BY <3>1, GivesUpFails
  <2>4. ASSUME NEW c \in Calls, Dial(c) PROVE UNCHANGED R!vars
    <3>1. \A d \in Calls : client'[d] = IF d = c THEN "active" ELSE client[d]
      BY <2>4 DEF Dial, IInv, TypeOK
    <3> QED
      BY <2>4, <3>1 DEF Dial, historyVars, R!vars
  <2>5. ASSUME NEW c \in Calls,
               \/ Accept(c)
               \/ ClientWrites(c)
               \/ CallerContinues(c)
               \/ ClientReads(c)
               \/ ClientReadsEnd(c) /\ ~GivesUp(c)
               \/ ServerReadFails(c)
               \/ ServerRejects(c)
               \/ ServerWrites(c)
               \/ ServerWriteFails(c)
               \/ ServerCloses(c)
               \/ CloseEnds(c)
               \/ BackendAnswers(c)
               \/ BackendContinues(c)
               \/ LinkLost(c)
               \/ BodyPasses(c)
               \/ BodyFails(c)
               \/ BackendFails(c)
               \/ CloseDiscards(c)
               \/ \E side \in Sides : Expire(c, side)
        PROVE  UNCHANGED R!vars
    <3>1. UNCHANGED <<client, executed>>
      BY <2>5 DEF Accept, ClientWrites, CallerContinues, ClientReads,
         ClientReadsEnd, ServerReadFails, ServerRejects, ServerWrites,
         ServerWriteFails, ServerCloses, CloseEnds, BackendAnswers,
         BackendContinues, LinkLost, BodyPasses, BodyFails, BackendFails,
         CloseDiscards, Expire, Abort, clientVars, historyVars
    <3> QED
      BY <3>1, Unseen
  <2>6. CASE UNCHANGED vars
    BY <2>6, Unseen DEF vars, clientVars, historyVars
  <2> QED
    BY <2>1, <2>2, <2>3, <2>4, <2>5, <2>6
    DEF Next, SetUp, Client, Server, Backend, Environment
<1> QED
  BY <1>1, <1>2, InvAlways, PTL DEF Spec, CallRefinement, R!Spec

=============================================================================
