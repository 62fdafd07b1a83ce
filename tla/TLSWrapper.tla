----------------------------- MODULE TLSWrapper -----------------------------
(***************************************************************************)
(* The outbound sidecar (tls_wrapper.go) in front of the router of the     *)
(* deployment it calls.  An application sends its request in the clear,    *)
(* with headers that name a deployment and a service; the wrapper looks up *)
(* the host of the deployment, puts the service in front of the path and   *)
(* sends the request on with the certificate of the sidecar.  What answers *)
(* there is ServiceRouter.                                                 *)
(*                                                                         *)
(* A channel carries the call of an application, or a request of somebody  *)
(* who speaks to the router directly.                                      *)
(***************************************************************************)
EXTENDS ServiceRouter, Sequences

CONSTANTS
  DeployInfos,  \* deployIDDeployInfoMap: the deployments with a host
  AppRequests,  \* what an application may ask for: see AppRequestType
  NoCall        \* none, or a channel that does not come from the wrapper

\* A path is the sequence of its segments; "" is a target header that is not
\* there.
AppRequestType == [deploy : STRING, service : STRING, path : Seq(STRING),
                   method : STRING, type : IdentityTypes,
                   value : {"none", "good", "bad"}]

ASSUME WrapperAssumption ==
  /\ \A a \in AppRequests : a \in AppRequestType
  /\ \A a \in AppRequests : <<a.service>> \o a.path \in Paths
  /\ "" \notin DeployInfos
  /\ NoCall \notin AppRequests

VARIABLES
  call,   \* what the application asked for
  answer  \* what it was answered

wrapperVars == <<vars, call, answer>>

WrapperInit ==
  /\ Init
  /\ call = [q \in Channels |-> NoCall]
  /\ answer = [q \in Channels |-> "none"]

Waiting(q) == call[q] # NoCall /\ answer[q] = "none"

\* HandleRead and HandleWrite, up to the transport.
WrapperHandles(q) ==
  /\ pc[q] = "idle"
  /\ call[q] = NoCall
  /\ \E a \in AppRequests :
       /\ call' = [call EXCEPT ![q] = a]
       /\ \/ /\ a.deploy \notin DeployInfos
             /\ answer' = [answer EXCEPT ![q] = "40400"]
          \/ /\ a.deploy \in DeployInfos
             /\ UNCHANGED answer
  /\ UNCHANGED vars

\* Mutant: the service is left out of the path.
WrappedUnprefixed(a) ==
  [target |-> IF a.service = "" THEN "noService" ELSE "both",
   path |-> <<"">> \o a.path,
   method |-> a.method, type |-> a.type, value |-> a.value,
   absolute |-> FALSE, named |-> TRUE]

\* What the Director makes of a request, as the router gets it.  http.Transport
\* writes the path alone, so it is not in absolute form.
Wrapped(a) ==
  [target |-> IF a.service = "" THEN "noService" ELSE "both",
   path |-> <<a.service>> \o a.path,
   method |-> a.method, type |-> a.type, value |-> a.value,
   absolute |-> FALSE, named |-> TRUE]

\* The round trip: the request arrives.
Sends(q) ==
  /\ Waiting(q)
  /\ HandleRequest(q, Wrapped(call[q]))
  /\ UNCHANGED <<call, answer>>

\* The round trip: its answer comes back.  A channel that is closed is an error,
\* which the proxy answers with 502; the router answers a service that cannot be
\* reached with the same.
Returns(q) ==
  /\ Waiting(q)
  /\ pc[q] = "over"
  /\ answer' = [answer EXCEPT ![q] = IF outcome[q] \in {"closed", "unreachable"}
                                     THEN "502" ELSE outcome[q]]
  /\ UNCHANGED <<vars, call>>

\* The round trip: no connection, no TLS session, or none any more.
TransportFails(q) ==
  /\ Waiting(q)
  /\ answer' = [answer EXCEPT ![q] = "502"]
  /\ UNCHANGED <<vars, call>>

\* A request that does not come through the wrapper.
DirectRequest(q) ==
  /\ call[q] = NoCall
  /\ \E r \in Requests : HandleRequest(q, r)
  /\ UNCHANGED <<call, answer>>

WrapperNext ==
  \/ \E q \in Channels : \/ WrapperHandles(q) \/ Sends(q) \/ Returns(q)
                         \/ TransportFails(q) \/ DirectRequest(q)
  \/ RouterStep /\ UNCHANGED <<call, answer>>

WrapperSpec == WrapperInit /\ [][WrapperNext]_wrapperVars

-----------------------------------------------------------------------------
(***************************************************************************)
(* Properties                                                              *)
(***************************************************************************)

\* What an answer tells the application.  40400 means that its request went
\* nowhere.  40402 means that the router did not know the API of that service
\* and path when the request came, or looked it up in a data race; 40403, 40300
\* and 40003 that it does not permit the call.  A call that its API permits is
\* answered with 502, and so are some that it does not: the scheme the wrapper
\* sets does not cross the connection, and the router refuses to go on without.
AnswerTells ==
  \A q \in Channels :
    LET a == call[q]
        api == <<a.service>> \o a.path
    IN  a # NoCall /\ answer[q] # "none" =>
          /\ answer[q] = "40400" <=> a.deploy \notin DeployInfos
          /\ answer[q] = "40400" => pc[q] = "idle"
          /\ answer[q] = "40402" => api \notin knownAt[q] \/ q \in raced
          /\ answer[q] \in {"40403", "40300", "40003"} =>
               ~Permits(found[q], Wrapped(a))
          /\ pc[q] = "over" /\ Permits(found[q], Wrapped(a)) => answer[q] = "502"
          /\ answer[q] \notin {"40001", "forwarded"}

=============================================================================
