--------------------------- MODULE CallersProofs ---------------------------
(***************************************************************************)
(* Theorems about Callers and BrowserResponse.                             *)
(*                                                                         *)
(* RpcNamesThePeer and ResultIsOfTarget relate a request as it was asked   *)
(* for to its execution, which may come after the caller has given up; the *)
(* invariant follows the request in between.  BodyGoesToOne is about the   *)
(* readers of a response; its invariant says who has the body by now.      *)
(***************************************************************************)
EXTENDS BrowserResponse, FiniteSetTheorems, TLAPS

\* A call has a sidecar once it has opened a tunnel, and is executed there.
Route(c) ==
  /\ caller[c] \in {"idle", "spawned"} => sidecar[c] = NoSidecar
  /\ sidecar[c] = NoSidecar => executedBy[c] = {} /\ passed[c] = {}
  /\ executedBy[c] \subseteq {<<sidecar[c], c>>}
  /\ outcome[c] = "done" => executedBy[c] # {}

\* A request that was refused has no sidecar; an answered one was executed.
Result(c) ==
  /\ result[c] # "none" => caller[c] = "over"
  /\ result[c] = "answer" => outcome[c] = "done"
  /\ result[c] \in {"404", "400"} => sidecar[c] = NoSidecar

\* The sidecar is the one that was asked for.
Asked(c) ==
  /\ c \in BrowserCalls /\ caller[c] # "idle" => input[c] \in BrowserInputs
  /\ c \in WrapCalls /\ sidecar[c] # NoSidecar =>
       /\ input[c].deploy \in DOMAIN DeployHostMap
       /\ sidecar[c] = <<DeployHostMap[input[c].deploy], input[c].service>>

\* The request has the headers of /wrap, and once it was executed its peer's.
Identity(c) ==
  /\ c \in WrapCalls /\ sidecar[c] # NoSidecar =>
       headers[c].identity = "cert-rpc"
  /\ executedBy[c] # {} /\ headers[c].identity = "cert-rpc" =>
       headers[c].from = Peer(c) /\ Peer(c) # NoPeer

IInv ==
  /\ TypeOK
  /\ \A c \in Calls : Route(c) /\ Result(c) /\ Asked(c) /\ Identity(c)

-----------------------------------------------------------------------------
\* What pages ask for is well formed.
LEMMA BrowserInputFields ==
  ASSUME NEW i \in BrowserInputs
  PROVE  /\ i.sidecar \in Sidecars
         /\ i.headers \in HeadersType
         /\ i.peer \in Peers \cup {NoPeer}
BY CallersAssumption DEF BrowserInputType

\* What applications ask for is well formed.
LEMMA WrapInputFields ==
  ASSUME NEW i \in WrapInputs
  PROVE  i.service \in Services /\ i.headers \in HeadersType
BY CallersAssumption DEF WrapInputType

\* The run of DoTransfer that executes a call.
LEMMA RunsOfDoTransfer ==
  ASSUME NEW S, NEW T, NEW s \in S, NEW t \in T
  PROVE  {<<s, t>>} \in SUBSET (S \X T)
<1>1. <<s, t>> \in S \X T
  OBVIOUS
<1> QED
  BY <1>1, Zenon

\* Initially nothing was asked for.
THEOREM InvInit == Init => IInv
<1> SUFFICES ASSUME Init PROVE IInv
  OBVIOUS
<1>1. NoHeaders \in HeadersType
  BY CallersAssumption DEF NoHeaders, HeadersType
<1>2. TypeOK
  BY <1>1 DEF Init, RC!Init, TypeOK
<1>3. ASSUME NEW c \in Calls
      PROVE  Route(c) /\ Result(c) /\ Asked(c) /\ Identity(c)
  BY DEF Init, RC!Init, Route, Result, Asked, Identity
<1> QED
  BY <1>2, <1>3 DEF IInv

\* The headers HandleIdentity makes are headers.
LEMMA HandleIdentityType ==
  ASSUME NEW h \in HeadersType, NEW p \in Peers \cup {NoPeer}
  PROVE  HandleIdentity(h, p) \in HeadersType
BY CallersAssumption DEF HandleIdentity, HeadersType

\* Who says cert-rpc is named after the peer; the type itself is not changed
\* unless it was missing.
LEMMA HandleIdentityNames ==
  ASSUME NEW h \in HeadersType, NEW p \in Peers \cup {NoPeer}
  PROVE  /\ HandleIdentity(h, p).identity = "cert-rpc" =>
              HandleIdentity(h, p).from = p
         /\ h.identity = "cert-rpc" =>
              HandleIdentity(h, p).identity = "cert-rpc"
BY CallersAssumption DEF HandleIdentity, HeadersType

\* What does not touch the request of a call, nor starts the call, keeps what is
\* said of its request.
LEMMA SameRequest ==
  ASSUME NEW d \in Calls, Asked(d), Identity(d),
         input'[d] = input[d], sidecar'[d] = sidecar[d],
         headers'[d] = headers[d], executedBy'[d] = executedBy[d],
         caller'[d] # "idle" => caller[d] # "idle"
  PROVE  Asked(d)' /\ Identity(d)'
<1>1. Peer(d)' = Peer(d)
  BY DEF Peer
<1>2. Asked(d)'
  BY DEF Asked
<1>3. Identity(d)'
  BY <1>1 DEF Identity
<1> QED
  BY <1>2, <1>3

\* Every step of a caller, of a tunnel or of DoTransfer keeps the invariant.
THEOREM InvStep == IInv /\ [Next]_vars => IInv'
<1> SUFFICES ASSUME IInv, [Next]_vars PROVE IInv'
  OBVIOUS
<1> USE CallersAssumption DEF Calls, linkVars
<1>1. ASSUME NEW c \in WrapCalls, Wrap(c) PROVE IInv'
  <2>1. PICK i \in WrapInputs :
          /\ input' = [input EXCEPT ![c] = i]
          /\ \/ /\ \/ Returns(c, "404")
                   \/ Returns(c, "400")
                /\ UNCHANGED <<sidecar, headers>>
             \/ /\ i.deploy \in DOMAIN DeployHostMap
                /\ OpensTunnel(c, <<DeployHostMap[i.deploy], i.service>>)
                /\ headers' = [headers EXCEPT ![c] =
                     [i.headers EXCEPT !.identity = "cert-rpc"]]
                /\ UNCHANGED result
    BY <1>1 DEF Wrap
  <2>2. /\ caller[c] = "idle"
        /\ UNCHANGED <<exited, panicked, executedBy, outcome, passed, cut, down>>
    BY <1>1 DEF Wrap, callVars
  <2>3. i.service \in Services /\ i.headers \in HeadersType
    BY WrapInputFields
  <2>4. CASE /\ Returns(c, "404") \/ Returns(c, "400")
             /\ UNCHANGED <<sidecar, headers>>
    <3>1. TypeOK'
      <4>1. PICK what \in {"404", "400"} :
              /\ caller' = [caller EXCEPT ![c] = "over"]
              /\ result' = [result EXCEPT ![c] = what]
        BY <2>4 DEF Returns
      <4> QED
        BY <2>1, <2>2, <2>4, <4>1 DEF IInv, TypeOK
    <3>2. \A d \in Calls : Route(d)' /\ Result(d)'
      BY <2>2, <2>4 DEF Returns, IInv, TypeOK, Route, Result
    <3>3. /\ sidecar[c] = NoSidecar
          /\ UNCHANGED <<sidecar, headers, executedBy>>
          /\ \A d \in Calls \ {c} :
               input'[d] = input[d] /\ caller'[d] = caller[d]
      BY <2>1, <2>2, <2>4 DEF Returns, IInv, TypeOK, Route
    <3>4. ASSUME NEW d \in Calls PROVE Asked(d)' /\ Identity(d)'
      <4>1. Asked(d) /\ Identity(d)
        BY DEF IInv
      <4>2. CASE d = c
        BY <3>3, <4>1, <4>2 DEF Asked, Identity, Peer
      <4>3. CASE d # c
        <5>1. input'[d] = input[d] /\ caller'[d] = caller[d]
          BY <3>3, <4>3
        <5> QED
          BY <3>3, <4>1, <5>1, SameRequest
      <4> QED
        BY <4>2, <4>3
    <3> QED
      BY <3>1, <3>2, <3>4 DEF IInv
  <2>5. CASE /\ i.deploy \in DOMAIN DeployHostMap
             /\ OpensTunnel(c, <<DeployHostMap[i.deploy], i.service>>)
             /\ headers' = [headers EXCEPT ![c] =
                  [i.headers EXCEPT !.identity = "cert-rpc"]]
             /\ UNCHANGED result
    <3> DEFINE s == <<DeployHostMap[i.deploy], i.service>>
               h == [i.headers EXCEPT !.identity = "cert-rpc"]
    <3>1. s \in Sidecars /\ s # NoSidecar
      <4>1. DeployHostMap[i.deploy]
              \in {DeployHostMap[d] : d \in DOMAIN DeployHostMap}
        BY <2>5
      <4>2. s \in Sidecars
        BY <2>3, <4>1, Zenon DEF Sidecars
      <4> QED
        BY <4>2
    <3>2. h \in HeadersType /\ h.identity = "cert-rpc"
      BY <2>3 DEF HeadersType
    <3> HIDE DEF s, h
    <3>3. /\ caller' = [caller EXCEPT ![c] = "calling"]
          /\ sidecar' = [sidecar EXCEPT ![c] = s]
          /\ headers' = [headers EXCEPT ![c] = h]
          /\ UNCHANGED result
      BY <2>5 DEF OpensTunnel, s, h
    <3>4. TypeOK'
      BY <2>1, <2>2, <3>1, <3>2, <3>3 DEF IInv, TypeOK
    <3>5. \A d \in Calls : Route(d)' /\ Result(d)'
      BY <2>2, <3>1, <3>3 DEF IInv, TypeOK, Route, Result
    <3>6. ASSUME NEW d \in Calls PROVE Asked(d)'
      <4>1. CASE d = c
        <5>1. /\ input'[d] = i /\ sidecar'[d] = s
              /\ i.deploy \in DOMAIN DeployHostMap
          BY <2>1, <2>5, <3>3, <4>1 DEF IInv, TypeOK
        <5> QED
          BY <2>1, <4>1, <5>1, CallersAssumption DEF Asked, s
      <4>2. CASE d # c
        <5>1. Asked(d) /\ caller'[d] = caller[d]
          BY <3>3, <4>2 DEF IInv, TypeOK
        <5>2. input'[d] = input[d] /\ sidecar'[d] = sidecar[d]
          BY <2>1, <3>3, <4>2 DEF IInv, TypeOK
        <5> QED
          BY <5>1, <5>2 DEF Asked
      <4> QED
        BY <4>1, <4>2
    <3>7. ASSUME NEW d \in Calls PROVE Identity(d)'
      <4>1. Identity(d) /\ Route(d) /\ Route(c) /\ executedBy' = executedBy
        BY <2>2 DEF IInv
      <4>2. CASE d = c
        <5>1. headers'[c] = h
          BY <3>3 DEF IInv, TypeOK
        <5>2. executedBy[c] = {}
          BY <2>2, <4>1 DEF Route
        <5> QED
          BY <3>2, <4>1, <4>2, <5>1, <5>2 DEF Identity
      <4>3. CASE d # c
        <5>1. /\ headers'[d] = headers[d]
              /\ sidecar'[d] = sidecar[d]
              /\ input'[d] = input[d]
          BY <2>1, <3>3, <4>3 DEF IInv, TypeOK
        <5> QED
          BY <4>1, <5>1 DEF Identity, Peer
      <4> QED
        BY <4>2, <4>3
    <3> QED
      BY <3>4, <3>5, <3>6, <3>7 DEF IInv
  <2> QED
    BY <2>1, <2>4, <2>5
<1>2. ASSUME NEW c \in WrapCalls, WrapReturns(c) PROVE IInv'
  <2>1. /\ UNCHANGED <<input, sidecar, headers, executedBy, passed, cut, down>>
        /\ caller[c] = "calling"
    BY <1>2 DEF WrapReturns, Returns, callVars
  <2>2. TypeOK'
    <3>1. PICK what \in {"answer", "500"} : Returns(c, what)
      BY <1>2 DEF WrapReturns
    <3>2. UNCHANGED <<exited, panicked, outcome>>
      BY <1>2 DEF WrapReturns, callVars
    <3> QED
      BY <2>1, <3>1, <3>2 DEF Returns, IInv, TypeOK
  <2>3. ASSUME NEW d \in Calls PROVE Route(d)' /\ Result(d)'
    <3>1. Route(d) /\ Result(d)
      BY DEF IInv
    <3>2. CASE d = c
      BY <1>2, <3>1, <3>2
      DEF WrapReturns, Returns, callVars, IInv, TypeOK, Route, Result
    <3>3. CASE d # c
      <4>1. /\ caller'[d] = caller[d] /\ result'[d] = result[d]
            /\ outcome' = outcome
        BY <1>2, <3>3 DEF WrapReturns, Returns, callVars, IInv, TypeOK
      <4> QED
        BY <2>1, <3>1, <4>1 DEF Route, Result
    <3> QED
      BY <3>2, <3>3
  <2>4. \A d \in Calls : caller'[d] # "idle" => caller[d] # "idle"
    BY <1>2, <2>1 DEF WrapReturns, Returns, IInv, TypeOK
  <2>5. ASSUME NEW d \in Calls PROVE Asked(d)' /\ Identity(d)'
    <3>1. Asked(d) /\ Identity(d)
      BY DEF IInv
    <3> QED
      BY <2>1, <2>4, <3>1, SameRequest
  <2> QED
    BY <2>2, <2>3, <2>5 DEF IInv
<1>3. ASSUME NEW c \in BrowserCalls, TLSRequest(c) PROVE IInv'
  <2>1. PICK i \in BrowserInputs :
          /\ input' = [input EXCEPT ![c] = i]
          /\ headers' = [headers EXCEPT ![c] = i.headers]
          /\ \/ exited' = TRUE /\ UNCHANGED caller
             \/ /\ caller' = [caller EXCEPT ![c] = "spawned"]
                /\ UNCHANGED exited
    BY <1>3 DEF TLSRequest
  <2>2. /\ caller[c] = "idle"
        /\ UNCHANGED <<result, sidecar, panicked, executedBy, outcome, passed,
                       cut, down>>
    BY <1>3 DEF TLSRequest, callVars
  <2>3. i.headers \in HeadersType
    BY BrowserInputFields
  <2>4. TypeOK'
    BY <2>1, <2>2, <2>3 DEF IInv, TypeOK
  <2>5. \A d \in Calls : Route(d)' /\ Result(d)' /\ Asked(d)'
    BY <2>1, <2>2 DEF IInv, TypeOK, Route, Result, Asked
  <2>6. \A d \in Calls : Identity(d)'
    BY <2>1, <2>2 DEF IInv, TypeOK, Route, Identity, Peer
  <2> QED
    BY <2>4, <2>5, <2>6 DEF IInv
<1>4. ASSUME NEW c \in BrowserCalls, RunPromise(c) PROVE IInv'
  <2>1. input[c] \in BrowserInputs
    BY <1>4 DEF RunPromise, IInv, Asked
  <2>2. input[c].sidecar \in Sidecars
    BY <2>1, BrowserInputFields
  <2>3. /\ UNCHANGED <<input, result, headers, executedBy, outcome, passed, cut,
                       down>>
        /\ caller[c] = "spawned"
    BY <1>4 DEF RunPromise, callVars
  <2>4. TypeOK'
    BY <1>4, <2>2 DEF RunPromise, OpensTunnel, callVars, IInv, TypeOK
  <2>5. ASSUME NEW d \in Calls PROVE Route(d)' /\ Result(d)'
    <3>1. /\ Route(d) /\ Result(d) /\ Route(c) /\ Result(c)
          /\ input[c].sidecar # NoSidecar
      BY <2>2, CallersAssumption DEF IInv
    <3>2. CASE d = c
      BY <1>4, <2>3, <3>1, <3>2
      DEF RunPromise, OpensTunnel, IInv, TypeOK, Route, Result
    <3>3. CASE d # c
      <4>1. caller'[d] = caller[d] /\ sidecar'[d] = sidecar[d]
        BY <1>4, <3>3 DEF RunPromise, OpensTunnel, IInv, TypeOK
      <4> QED
        BY <2>3, <3>1, <4>1 DEF Route, Result
    <3> QED
      BY <3>2, <3>3
  <2>6. ASSUME NEW d \in Calls PROVE Asked(d)' /\ Identity(d)'
    <3>1. /\ Asked(d) /\ Identity(d) /\ Route(d) /\ Route(c)
          /\ c \notin WrapCalls
      BY CallersAssumption DEF IInv
    <3>2. CASE d = c
      BY <2>1, <2>3, <3>1, <3>2 DEF Asked, Identity, Route, Peer
    <3>3. CASE d # c
      <4>1. caller'[d] = caller[d] /\ sidecar'[d] = sidecar[d]
        BY <1>4, <3>3 DEF RunPromise, OpensTunnel, IInv, TypeOK
      <4> QED
        BY <2>3, <3>1, <4>1, SameRequest
    <3> QED
      BY <3>2, <3>3
  <2> QED
    BY <2>4, <2>5, <2>6 DEF IInv
<1>5. ASSUME NEW c \in BrowserCalls, Settle(c) PROVE IInv'
  <2>1. /\ UNCHANGED <<input, sidecar, headers, executedBy, passed, cut, down>>
        /\ caller[c] = "calling"
    BY <1>5 DEF Settle, Returns, callVars
  <2>2. TypeOK'
    <3>1. UNCHANGED <<panicked, outcome>>
      BY <1>5 DEF Settle, callVars
    <3>2. CASE exited' = TRUE /\ UNCHANGED <<caller, result>>
      BY <2>1, <3>1, <3>2 DEF IInv, TypeOK
    <3>3. CASE /\ UNCHANGED exited
               /\ Returns(c, "resolved") \/ Returns(c, "rejected")
      <4>1. PICK r \in {"resolved", "rejected"} :
              /\ caller' = [caller EXCEPT ![c] = "over"]
              /\ result' = [result EXCEPT ![c] = r]
        BY <3>3 DEF Returns
      <4> QED
        BY <2>1, <3>1, <3>3, <4>1 DEF IInv, TypeOK
    <3>4. \/ exited' = TRUE /\ UNCHANGED <<caller, result>>
          \/ /\ UNCHANGED exited
             /\ Returns(c, "resolved") \/ Returns(c, "rejected")
      BY <1>5, Zenon DEF Settle
    <3> QED
      BY <3>2, <3>3, <3>4
  <2>3. ASSUME NEW d \in Calls PROVE Route(d)' /\ Result(d)'
    <3>1. Route(d) /\ Result(d)
      BY DEF IInv
    <3>2. CASE d = c
      BY <1>5, <3>1, <3>2
      DEF Settle, Returns, callVars, IInv, TypeOK, Route, Result
    <3>3. CASE d # c
      <4>1. /\ caller'[d] = caller[d] /\ result'[d] = result[d]
            /\ outcome' = outcome
        BY <1>5, <3>3 DEF Settle, Returns, callVars, IInv, TypeOK
      <4> QED
        BY <2>1, <3>1, <4>1 DEF Route, Result
    <3> QED
      BY <3>2, <3>3
  <2>4. \A d \in Calls : caller'[d] # "idle" => caller[d] # "idle"
    BY <1>5, <2>1 DEF Settle, Returns, IInv, TypeOK
  <2>5. ASSUME NEW d \in Calls PROVE Asked(d)' /\ Identity(d)'
    <3>1. Asked(d) /\ Identity(d)
      BY DEF IInv
    <3> QED
      BY <2>1, <2>4, <3>1, SameRequest
  <2> QED
    BY <2>2, <2>3, <2>5 DEF IInv
<1>6. ASSUME NEW c \in Calls, DoTransfer(c) PROVE IInv'
  <2> DEFINE h == HandleIdentity(headers[c], Peer(c))
  <2>1. /\ sidecar[c] # NoSidecar
        /\ executedBy' = [executedBy EXCEPT ![c] = {<<sidecar[c], c>>}]
        /\ headers' = [headers EXCEPT ![c] = h]
        /\ UNCHANGED <<input, caller, result, exited, outcome, sidecar,
                       panicked, passed, cut, down>>
    BY <1>6 DEF DoTransfer, InTransfer, RC!Execute, callerVars, IInv, Route
  <2>2. sidecar[c] \in Sidecars /\ headers[c] \in HeadersType
    BY <2>1 DEF IInv, TypeOK
  <2>3. Peer(c) \in Peers \cup {NoPeer}
    <3>1. c \notin WrapCalls => input[c] \in BrowserInputs
      BY <2>1 DEF IInv, Route, Asked
    <3> QED
      BY <3>1, BrowserInputFields DEF Peer
  <2>4. /\ h \in HeadersType
        /\ h.identity = "cert-rpc" => h.from = Peer(c) /\ Peer(c) # NoPeer
        /\ headers[c].identity = "cert-rpc" => h.identity = "cert-rpc"
    <3>1. h.identity = "cert-rpc" => headers[c].identity = "cert-rpc"
      BY <2>2 DEF HandleIdentity, HeadersType
    <3>2. headers[c].identity = "cert-rpc" => Peer(c) # NoPeer
      BY <1>6 DEF DoTransfer, Unnamed
    <3> QED
      BY <2>2, <2>3, <3>1, <3>2, HandleIdentityType, HandleIdentityNames
  <2> HIDE DEF h
  <2>5. TypeOK'
    <3>1. {<<sidecar[c], c>>} \in SUBSET (Sidecars \X Calls)
      BY <2>2, RunsOfDoTransfer
    <3>2. executedBy' \in [Calls -> SUBSET (Sidecars \X Calls)]
      BY <2>1, <3>1 DEF IInv, TypeOK
    <3> QED
      BY <2>1, <2>4, <3>2 DEF IInv, TypeOK
  <2>6. \A d \in Calls : Route(d)' /\ Result(d)' /\ Asked(d)'
    BY <2>1 DEF IInv, TypeOK, Route, Result, Asked
  <2>7. \A d \in Calls : Identity(d)'
    BY <2>1, <2>4 DEF IInv, TypeOK, Identity, Peer
  <2> QED
    BY <2>5, <2>6, <2>7 DEF IInv
<1>7. ASSUME NEW c \in Calls, TunnelAnswers(c) PROVE IInv'
  <2>1. UNCHANGED <<input, caller, sidecar, headers, executedBy, passed>>
    BY <1>7 DEF TunnelAnswers, InTunnel, RC!Answer, callerVars
  <2>2. TypeOK'
    BY <1>7 DEF TunnelAnswers, InTunnel, RC!Answer, callerVars, IInv, TypeOK
  <2>3. \A d \in Calls : Route(d)' /\ Result(d)'
    BY <1>7 DEF TunnelAnswers, InTunnel, RC!Answer, callerVars, IInv, TypeOK,
       Route, Result
  <2>4. \A d \in Calls : Asked(d)' /\ Identity(d)'
    BY <2>1 DEF IInv, Asked, Identity, Peer
  <2> QED
    BY <2>2, <2>3, <2>4 DEF IInv
<1>8. ASSUME NEW c \in Calls, TunnelFails(c) PROVE IInv'
  <2>1. UNCHANGED <<input, caller, sidecar, headers, executedBy, passed>>
    BY <1>8 DEF TunnelFails, InTunnel, RC!Fail, callerVars
  <2>2. TypeOK'
    <3>1. PICK b \in BOOLEAN : panicked' = [panicked EXCEPT ![c] = b]
      BY <1>8 DEF TunnelFails
    <3>2. outcome' = [outcome EXCEPT ![c] = "failed"]
      BY <1>8 DEF TunnelFails, RC!Fail
    <3>3. UNCHANGED <<result, exited, cut, down>>
      BY <1>8 DEF TunnelFails, callerVars
    <3> QED
      BY <2>1, <3>1, <3>2, <3>3 DEF IInv, TypeOK
  <2>3. \A d \in Calls : Route(d)' /\ Result(d)'
    BY <1>8 DEF TunnelFails, InTunnel, RC!Fail, callerVars, IInv, TypeOK, Route,
       Result
  <2>4. \A d \in Calls : Asked(d)' /\ Identity(d)'
    BY <2>1 DEF IInv, Asked, Identity, Peer
  <2> QED
    BY <2>2, <2>3, <2>4 DEF IInv
<1>9. ASSUME \/ \E c \in Calls : TransferPanics(c)
             \/ \E s \in Sidecars : Restarts(s)
      PROVE  IInv'
  <2>1. UNCHANGED <<input, caller, result, exited, outcome, sidecar, panicked,
                    headers, executedBy, passed>>
    BY <1>9 DEF TransferPanics, Restarts, callerVars
  <2>2. cut' \subseteq Calls /\ down' \subseteq Sidecars
    <3>1. ASSUME NEW c \in Calls, TransferPanics(c)
          PROVE  cut' \subseteq Calls /\ down' \subseteq Sidecars
      <4>1. sidecar[c] \in Sidecars
        BY <3>1 DEF TransferPanics, InTransfer, IInv, TypeOK, Route
      <4> QED
        BY <3>1, <4>1 DEF TransferPanics, IInv, TypeOK
    <3>2. ASSUME NEW s \in Sidecars, Restarts(s)
          PROVE  cut' \subseteq Calls /\ down' \subseteq Sidecars
      BY <3>2 DEF Restarts, IInv, TypeOK
    <3> QED
      BY <1>9, <3>1, <3>2
  <2>3. TypeOK'
    BY <2>1, <2>2 DEF IInv, TypeOK
  <2>4. \A d \in Calls : Route(d)' /\ Result(d)' /\ Asked(d)' /\ Identity(d)'
    BY <2>1 DEF IInv, Route, Result, Asked, Identity, Peer
  <2> QED
    BY <2>3, <2>4 DEF IInv
<1>10. ASSUME NEW c \in Calls, Connects(c) \/ BodyRead(c) PROVE IInv'
  <2>1. /\ UNCHANGED <<input, caller, result, exited, outcome, sidecar,
                       panicked, headers, executedBy, cut, down>>
        /\ sidecar[c] # NoSidecar
    BY <1>10 DEF Connects, BodyRead, InTunnel, callerVars, IInv, TypeOK
  <2>2. /\ passed' \in [Calls -> SUBSET {"dial", "body"}]
        /\ \A d \in Calls : d # c => passed'[d] = passed[d]
    <3>1. PICK p \in SUBSET {"dial", "body"} :
            passed' = [passed EXCEPT ![c] = p]
      <4>1. CASE Connects(c)
        BY <4>1 DEF Connects
      <4>2. CASE BodyRead(c)
        <5>1. passed[c] \cup {"body"} \in SUBSET {"dial", "body"}
          BY DEF IInv, TypeOK
        <5> QED
          BY <4>2, <5>1 DEF BodyRead
      <4> QED
        BY <1>10, <4>1, <4>2
    <3> QED
      BY <3>1 DEF IInv, TypeOK
  <2>3. TypeOK'
    BY <2>1, <2>2 DEF IInv, TypeOK
  <2>4. ASSUME NEW d \in Calls PROVE Route(d)'
    <3>1. Route(d) /\ UNCHANGED <<caller, sidecar, executedBy, outcome>>
      BY <2>1 DEF IInv
    <3>2. sidecar[d] = NoSidecar => passed'[d] = passed[d]
      BY <2>1, <2>2
    <3> QED
      BY <3>1, <3>2 DEF Route
  <2>5. \A d \in Calls : Result(d)' /\ Asked(d)' /\ Identity(d)'
    BY <2>1 DEF IInv, Result, Asked, Identity, Peer
  <2> QED
    BY <2>3, <2>4, <2>5 DEF IInv
<1>11. CASE UNCHANGED vars
  BY <1>11 DEF vars, callerVars, callVars, IInv, TypeOK, Route, Result, Asked,
     Identity, Peer
<1> QED
  BY <1>1, <1>2, <1>3, <1>4, <1>5, <1>6, <1>7, <1>8, <1>9, <1>10,
     <1>11 DEF Next

\* The invariant holds in every reachable state.
THEOREM InvAlways == Spec => []IInv
BY InvInit, InvStep, PTL DEF Spec

-----------------------------------------------------------------------------
\* The variables have their types, for any callers and inputs.
THEOREM TypeCorrect == Spec => []TypeOK
<1>1. IInv => TypeOK
  BY DEF IInv
<1> QED
  BY <1>1, InvAlways, PTL

\* A backend that is told "cert-rpc" is told the peer of the TLS session, and a
\* request that came through /wrap always is.
THEOREM PeersAreNamed == Spec => []RpcNamesThePeer
<1>1. IInv => RpcNamesThePeer
  <2> SUFFICES ASSUME IInv, NEW c \in Calls, executedBy[c] # {}
               PROVE  /\ headers[c].identity = "cert-rpc" =>
                           headers[c].from = Peer(c) /\ Peer(c) # NoPeer
                      /\ c \in WrapCalls => headers[c] =
                           [identity |-> "cert-rpc", from |-> SelfPeer]
    BY DEF RpcNamesThePeer
  <2>1. Identity(c) /\ sidecar[c] # NoSidecar /\ headers[c] \in HeadersType
    BY DEF IInv, TypeOK, Route
  <2>2. headers[c] = [identity |-> headers[c].identity,
                      from     |-> headers[c].from]
    BY <2>1 DEF HeadersType
  <2> QED
    BY <2>1, <2>2 DEF Identity, Peer
<1> QED
  BY <1>1, InvAlways, PTL

\* /wrap only passes on answers of the service and deployment it was asked for,
\* and what it refuses is never executed.
THEOREM ResultsAreOfTarget == Spec => []ResultIsOfTarget
<1>1. IInv => ResultIsOfTarget
  <2> SUFFICES ASSUME IInv, NEW c \in WrapCalls
               PROVE  /\ result[c] = "answer" => executedBy[c] =
                           {<< <<DeployHostMap[input[c].deploy],
                                 input[c].service>>, c>>}
                      /\ result[c] \in {"404", "400"} => executedBy[c] = {}
    BY DEF ResultIsOfTarget
  <2>1. Route(c) /\ Result(c) /\ Asked(c)
    BY DEF IInv, Calls
  <2>2. CASE executedBy[c] = {}
    BY <2>1, <2>2 DEF Route, Result
  <2>3. CASE executedBy[c] # {}
    <3>1. executedBy[c] = {<<sidecar[c], c>>} /\ sidecar[c] # NoSidecar
      BY <2>1, <2>3 DEF Route
    <3> QED
      BY <2>1, <3>1 DEF Result, Asked
  <2> QED
    BY <2>2, <2>3
<1> QED
  BY <1>1, InvAlways, PTL

-----------------------------------------------------------------------------
(***************************************************************************)
(* What a page does with the responses (BrowserResponse)                   *)
(***************************************************************************)
Over(c) == ReadersOf(c, {"resolved", "rejected"})

\* A reader is of a response there is, and has no value before it has read.
ReaderInv(r) ==
  /\ promise[r] # "none" =>
       reads[r].call \in BrowserCalls /\ result[reads[r].call] = "resolved"
  /\ promise[r] \in {"none", "spawned"} => value[r] = ""

\* The body is there as long as nobody read it, and then is gone; the first that
\* read it has it, if it asked for what the body is.
BodyInv(c) ==
  /\ Over(c) = {} => unread[c] = body[c]
  /\ Over(c) # {} => unread[c] = ""
  /\ \A r \in Over(c) : value[r] \in {"", body[c]}
  /\ \A r, s \in Over(c) : value[r] # "" /\ value[s] # "" => r = s
  /\ body[c] = "object" /\ Over(c) # {} =>
       \E r \in Over(c) : value[r] = "object"

ResponseTypes ==
  /\ body \in [BrowserCalls -> BodyKinds]
  /\ unread \in [BrowserCalls -> BodyKinds]
  /\ reads \in [Readers -> [call : BrowserCalls \cup {NoInput},
                            method : Methods]]
  /\ promise \in [Readers -> {"none", "spawned", "resolved", "rejected"}]
  /\ value \in [Readers -> BodyKinds]

ResponseInv ==
  /\ IInv /\ ResponseTypes
  /\ \A r \in Readers : ReaderInv(r)
  /\ \A c \in BrowserCalls : BodyInv(c)

-----------------------------------------------------------------------------
\* The page of BrowserResponse makes its calls as Callers says.
LEMMA PageCalls == [ResponseNext]_responseVars => [Next]_vars
<1>1. ASSUME NEW c \in BrowserCalls, WrapHttpResponse(c) PROVE Next
  BY <1>1 DEF WrapHttpResponse, Next
<1>2. PageStep => Next
  BY DEF PageStep, Next, Calls
<1>3. ASSUME NEW r \in Readers, CallReader(r) \/ Read(r) PROVE UNCHANGED vars
  BY <1>3 DEF CallReader, Read
<1> QED
  BY <1>1, <1>2, <1>3 DEF ResponseNext, responseVars

\* What nobody read, and what its readers have, stays as it was.
LEMMA BodyFrame ==
  ASSUME NEW c \in BrowserCalls, BodyInv(c), unread'[c] = unread[c],
         body'[c] = body[c], Over(c)' = Over(c),
         \A r \in Over(c) : value'[r] = value[r]
  PROVE  BodyInv(c)'
<1>1. \A r \in Over(c)' : value'[r] \in {"", body'[c]}
  BY DEF BodyInv
<1>2. \A r, s \in Over(c)' : value'[r] # "" /\ value'[s] # "" => r = s
  BY DEF BodyInv
<1>3. body'[c] = "object" /\ Over(c)' # {} =>
        \E r \in Over(c)' : value'[r] = "object"
  BY DEF BodyInv
<1>4. (Over(c)' = {} => unread'[c] = body'[c])
      /\ (Over(c)' # {} => unread'[c] = "")
  BY DEF BodyInv
<1> QED
  BY <1>1, <1>2, <1>3, <1>4 DEF BodyInv

\* So does all that is known of responses, unless one of them settles.
LEMMA ResponseFrame ==
  ASSUME ResponseInv, UNCHANGED bodyVars,
         \A c \in BrowserCalls : result[c] = "resolved" =>
                                   result'[c] = "resolved"
  PROVE  /\ ResponseTypes' /\ \A r \in Readers : ReaderInv(r)'
         /\ \A c \in BrowserCalls : BodyInv(c)'
<1>1. ResponseTypes' /\ \A r \in Readers : ReaderInv(r)'
  BY DEF ResponseInv, ResponseTypes, ReaderInv, bodyVars, readerVars
<1>2. \A c \in BrowserCalls : Over(c)' = Over(c)
  BY DEF Over, ReadersOf, bodyVars, readerVars
<1>3. \A c \in BrowserCalls : BodyInv(c)'
  BY <1>2, BodyFrame DEF ResponseInv, bodyVars, readerVars
<1> QED
  BY <1>1, <1>3

\* Initially there are no responses.
LEMMA InitResponse == ResponseInit => ResponseInv
<1> SUFFICES ASSUME ResponseInit PROVE ResponseInv
  OBVIOUS
<1>1. IInv
  BY InvInit DEF ResponseInit
<1>2. ResponseTypes
  BY DEF ResponseInit, ResponseTypes, NoRead, BodyKinds, Methods
<1>3. \A r \in Readers : ReaderInv(r)
  BY DEF ResponseInit, ReaderInv
<1>4. \A c \in BrowserCalls : Over(c) = {}
  BY DEF ResponseInit, Over, ReadersOf
<1>5. \A c \in BrowserCalls : BodyInv(c)
  BY <1>4 DEF ResponseInit, BodyInv
<1> QED
  BY <1>1, <1>2, <1>3, <1>5 DEF ResponseInv

\* A call that settles has no readers yet.
LEMMA SettledResponse ==
  ASSUME ResponseInv, NEW d \in BrowserCalls, WrapHttpResponse(d)
  PROVE  /\ ResponseTypes' /\ \A r \in Readers : ReaderInv(r)'
         /\ \A c \in BrowserCalls : BodyInv(c)'
<1>1. /\ UNCHANGED readerVars /\ d \in Calls
      /\ result \in [Calls -> {"none", "404", "400", "500", "answer",
                               "rejected", "resolved"}]
      /\ result' = result \/ \E x : result' = [result EXCEPT ![d] = x]
  BY DEF WrapHttpResponse, Settle, Returns, ResponseInv, IInv, TypeOK, Calls
<1>2. result[d] = "none"
  BY <1>1 DEF WrapHttpResponse, Settle, ResponseInv, IInv, Result, TypeOK
<1>3. \A c \in BrowserCalls : result[c] = "resolved" => result'[c] = "resolved"
  BY <1>1, <1>2 DEF Calls
<1>4. CASE UNCHANGED <<body, unread>>
  <2>1. UNCHANGED bodyVars
    BY <1>1, <1>4 DEF bodyVars
  <2> QED
    BY <1>3, <2>1, ResponseFrame
<1>5. ASSUME NEW b \in Bodies, body' = [body EXCEPT ![d] = b],
             unread' = [unread EXCEPT ![d] = b]
      PROVE  /\ ResponseTypes' /\ \A r \in Readers : ReaderInv(r)'
             /\ \A c \in BrowserCalls : BodyInv(c)'
  <2>1. ResponseTypes'
    BY <1>1, <1>5, ResponseAssumption
       DEF ResponseInv, ResponseTypes, readerVars
  <2>2. \A r \in Readers : ReaderInv(r)'
    BY <1>1, <1>3 DEF ResponseInv, ReaderInv, readerVars
  <2>3. \A c \in BrowserCalls : Over(c)' = Over(c)
    BY <1>1 DEF Over, ReadersOf, readerVars
  <2>4. Over(d) = {}
    BY <1>2 DEF Over, ReadersOf, ResponseInv, ReaderInv
  <2>5. ASSUME NEW c \in BrowserCalls PROVE BodyInv(c)'
    <3>1. CASE c = d
      <4>1. unread'[c] = b /\ body'[c] = b
        BY <1>5, <3>1 DEF ResponseInv, ResponseTypes
      <4> QED
        BY <2>3, <2>4, <3>1, <4>1 DEF BodyInv
    <3>2. CASE c # d
      <4>1. unread'[c] = unread[c] /\ body'[c] = body[c] /\ value' = value
        BY <1>1, <1>5, <3>2 DEF ResponseInv, ResponseTypes, readerVars
      <4> QED
        BY <2>3, <4>1, BodyFrame DEF ResponseInv
    <3> QED
      BY <3>1, <3>2
  <2> QED
    BY <2>1, <2>2, <2>5
<1> QED
  BY <1>4, <1>5 DEF WrapHttpResponse

\* A reader that was called has not read yet.
LEMMA CalledReader ==
  ASSUME ResponseInv, NEW q \in Readers, CallReader(q)
  PROVE  /\ ResponseTypes' /\ \A r \in Readers : ReaderInv(r)'
         /\ \A c \in BrowserCalls : BodyInv(c)'
<1>1. PICK d \in BrowserCalls, m \in Methods :
        /\ result[d] = "resolved"
        /\ reads' = [reads EXCEPT ![q] = [call |-> d, method |-> m]]
  BY DEF CallReader
<1>2. /\ promise[q] = "none" /\ promise' = [promise EXCEPT ![q] = "spawned"]
      /\ UNCHANGED <<result, body, unread, value>>
  BY DEF CallReader, vars, callerVars
<1>3. ResponseTypes'
  BY <1>1, <1>2 DEF ResponseInv, ResponseTypes
<1>4. \A r \in Readers : ReaderInv(r)'
  BY <1>1, <1>2 DEF ResponseInv, ResponseTypes, ReaderInv
<1>5. \A c \in BrowserCalls : Over(c)' = Over(c)
  BY <1>1, <1>2 DEF ResponseInv, ResponseTypes, Over, ReadersOf
<1>6. \A c \in BrowserCalls : BodyInv(c)'
  BY <1>2, <1>5, BodyFrame DEF ResponseInv
<1> QED
  BY <1>3, <1>4, <1>6

\* The first reader takes the body, the others find nothing.
LEMMA ReadBody ==
  ASSUME ResponseInv, NEW q \in Readers, Read(q)
  PROVE  /\ ResponseTypes' /\ \A r \in Readers : ReaderInv(r)'
         /\ \A c \in BrowserCalls : BodyInv(c)'
<1>1. PICK d \in BrowserCalls :
        /\ d = reads[q].call /\ result[d] = "resolved"
        /\ promise[q] = "spawned" /\ value[q] = ""
  BY DEF Read, ResponseInv, ReaderInv
<1>2. PICK end \in {"resolved", "rejected"}, v \in {"", unread[d]} :
        /\ promise' = [promise EXCEPT ![q] = end]
        /\ value' = [value EXCEPT ![q] = v]
        /\ unread[d] = "object" => v = "object"
  <2>1. CASE /\ reads[q].method = "json" /\ unread[d] # "object"
             /\ promise' = [promise EXCEPT ![q] = "rejected"]
             /\ UNCHANGED value
    <3>1. value' = [value EXCEPT ![q] = ""]
      BY <1>1, <2>1 DEF ResponseInv, ResponseTypes
    <3> QED
      BY <2>1, <3>1
  <2>2. CASE /\ promise' = [promise EXCEPT ![q] = "resolved"]
             /\ value' = [value EXCEPT ![q] = unread[d]]
    BY <2>2
  <2> QED
    BY <1>1, <2>1, <2>2 DEF Read
<1>3. /\ unread' = [unread EXCEPT ![d] = ""]
      /\ UNCHANGED <<body, reads, result>>
  BY <1>1 DEF Read, vars, callerVars
<1>4. ResponseTypes'
  BY <1>1, <1>2, <1>3 DEF ResponseInv, ResponseTypes, BodyKinds
<1>5. \A r \in Readers : ReaderInv(r)'
  BY <1>1, <1>2, <1>3 DEF ResponseInv, ResponseTypes, ReaderInv
<1>6. q \notin Over(d) /\ Over(d)' = Over(d) \cup {q}
  BY <1>1, <1>2, <1>3 DEF ResponseInv, ResponseTypes, Over, ReadersOf
<1>7. \A c \in BrowserCalls \ {d} : Over(c)' = Over(c) /\ q \notin Over(c)
  BY <1>1, <1>2, <1>3 DEF ResponseInv, ResponseTypes, Over, ReadersOf
<1>8. \A r \in Readers \ {q} : value'[r] = value[r]
  BY <1>2 DEF ResponseInv, ResponseTypes
<1>9. value'[q] = v /\ \A c \in BrowserCalls : Over(c) \subseteq Readers
  BY <1>2 DEF ResponseInv, ResponseTypes, Over, ReadersOf
<1>10. BodyInv(d)'
  <2>1. unread'[d] = "" /\ body'[d] = body[d] /\ Over(d)' # {}
    BY <1>1, <1>3, <1>6 DEF ResponseInv, ResponseTypes
  <2>2. BodyInv(d)
    BY <1>1 DEF ResponseInv
  <2>3. CASE Over(d) = {}
    <3>1. Over(d)' = {q} /\ unread[d] = body[d]
      BY <1>6, <2>2, <2>3 DEF BodyInv
    <3>2. \A r \in Over(d)' : value'[r] \in {"", body'[d]}
      BY <1>9, <2>1, <3>1
    <3>3. body'[d] = "object" => value'[q] = "object"
      BY <1>2, <1>9, <2>1, <3>1
    <3> QED
      BY <2>1, <3>1, <3>2, <3>3 DEF BodyInv
  <2>4. CASE Over(d) # {}
    <3>1. v = ""
      BY <1>2, <2>2, <2>4 DEF BodyInv
    <3>2. value'[q] = "" /\ \A r \in Over(d) : value'[r] = value[r]
      BY <1>6, <1>8, <1>9, <3>1
    <3>3. \A r \in Over(d)' : value'[r] \in {"", body'[d]}
      BY <1>6, <2>1, <2>2, <3>2 DEF BodyInv
    <3>4. \A r, s \in Over(d)' : value'[r] # "" /\ value'[s] # "" => r = s
      BY <1>6, <2>2, <3>2 DEF BodyInv
    <3>5. body'[d] = "object" => \E r \in Over(d)' : value'[r] = "object"
      BY <1>6, <2>1, <2>2, <2>4, <3>2 DEF BodyInv
    <3> QED
      BY <2>1, <3>3, <3>4, <3>5 DEF BodyInv
  <2> QED
    BY <2>3, <2>4
<1>11. ASSUME NEW c \in BrowserCalls \ {d} PROVE BodyInv(c)'
  <2>1. unread'[c] = unread[c] /\ body'[c] = body[c]
    BY <1>3 DEF ResponseInv, ResponseTypes
  <2>2. Over(c)' = Over(c) /\ \A r \in Over(c) : value'[r] = value[r]
    BY <1>7, <1>8, <1>9
  <2> QED
    BY <2>1, <2>2, BodyFrame DEF ResponseInv
<1> QED
  BY <1>4, <1>5, <1>10, <1>11

LEMMA ResponseStep ==
  ResponseInv /\ [ResponseNext]_responseVars => ResponseInv'
<1> SUFFICES ASSUME ResponseInv, [ResponseNext]_responseVars
             PROVE  ResponseInv'
  OBVIOUS
<1>1. IInv'
  BY PageCalls, InvStep DEF ResponseInv
<1>2. CASE PageStep /\ UNCHANGED bodyVars
  <2>1. UNCHANGED result
    BY <1>2 DEF PageStep, TLSRequest, RunPromise, Connects, DoTransfer,
                TransferPanics, TunnelAnswers, TunnelFails, Restarts,
                OpensTunnel, callerVars
  <2> QED
    BY <1>1, <1>2, <2>1, ResponseFrame DEF ResponseInv
<1>3. CASE UNCHANGED responseVars
  <2>1. UNCHANGED result /\ UNCHANGED bodyVars
    BY <1>3 DEF responseVars, vars, callerVars
  <2> QED
    BY <1>1, <2>1, ResponseFrame DEF ResponseInv
<1> QED
  BY <1>1, <1>2, <1>3, SettledResponse, CalledReader, ReadBody
     DEF ResponseNext, ResponseInv

LEMMA ResponseInvAlways == ResponseSpec => []ResponseInv
BY InitResponse, ResponseStep, PTL DEF ResponseSpec

\* A set without two members has at most one.
LEMMA AtMostOne ==
  ASSUME NEW S, \A r, s \in S : r = s PROVE Cardinality(S) =< 1
<1>1. CASE S = {}
  <2>1. Cardinality(S) = 0
    BY <1>1, FS_EmptySet, Zenon
  <2> QED
    BY <2>1
<1>2. CASE S # {}
  <2>1. PICK r \in S : S = {r}
    BY <1>2
  <2>2. Cardinality(S) = 1
    BY <2>1, FS_Singleton, Zenon
  <2> QED
    BY <2>2
<1> QED
  BY <1>1, <1>2

\* Of the readers of a response one gets its body, whichever goroutine runs
\* first, and it gets all of it; every other is resolved with nothing, or
\* rejected for want of JSON.
THEOREM BodiesGoToOne == ResponseSpec => []BodyGoesToOne
<1>1. ResponseInv => BodyGoesToOne
  <2> SUFFICES ASSUME ResponseInv, NEW c \in BrowserCalls
               PROVE  /\ \A r \in Over(c) : value[r] \in {"", body[c]}
                      /\ Cardinality({r \in Over(c) : value[r] # ""}) =< 1
                      /\ body[c] = "object" /\ Over(c) # {} =>
                           \E r \in Over(c) : value[r] = "object"
                      /\ unread[c] # body[c] => Over(c) # {}
    BY DEF BodyGoesToOne, Over
  <2> DEFINE S == {r \in Over(c) : value[r] # ""}
  <2>1. BodyInv(c)
    BY DEF ResponseInv
  <2>2. \A r, s \in S : r = s
    BY <2>1 DEF BodyInv
  <2>3. Cardinality(S) =< 1
    BY <2>2, AtMostOne
  <2> QED
    BY <2>1, <2>3, Zenon DEF BodyInv
<1> QED
  BY <1>1, ResponseInvAlways, PTL

=============================================================================
