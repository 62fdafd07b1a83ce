--------------------------- MODULE ServiceRouter ---------------------------
(***************************************************************************)
(* The service router of the inbound sidecar (service_router.go): the      *)
(* backend service reports its APIs over gRPC                              *)
(* (proto_impl/sidecar/sidecar_service_impl.go), and each request that     *)
(* comes in over mutual TLS is checked against them before it is proxied.  *)
(* The map of the APIs has no lock: the assignments of a report, and the   *)
(* lookups of the requests, are made by different goroutines, so an        *)
(* assignment is two steps here and an access between them is a data race: *)
(* it may end the process, a lookup may miss what is there, and an         *)
(* assignment may be lost.                                                 *)
(***************************************************************************)
EXTENDS FiniteSets

CONSTANTS
  Reports,   \* the calls of ReportHTTPAPI
  Channels,  \* the connections, each with one request
  Paths,     \* the API paths
  Infos,     \* what a report may say of a path: see InfoType
  Requests,  \* what a client may ask for: see RequestType
  NoInfo,    \* the path is not in the map
  NoRequest  \* before the request

(***************************************************************************)
(* The Authorization header of a request is a type and a value, separated  *)
(* by a space.  "" is the header that is missing; value "none" is the one  *)
(* without a space.  named says whether the certificate of the peer has an *)
(* organizational unit, target which of the target headers are missing.    *)
(***************************************************************************)
IdentityTypes == {"", "unauthorized", "rpc", "jwt"}

InfoType == [methods : SUBSET STRING, types : SUBSET IdentityTypes]
RequestType == [target : {"both", "noDeploy", "noService"}, path : Paths,
                method : STRING, type : IdentityTypes,
                value : {"none", "good", "bad"}, absolute : BOOLEAN,
                named : BOOLEAN]

ASSUME RouterAssumption ==
  /\ \A i \in Infos : i \in InfoType
  /\ \A r \in Requests : r \in RequestType
  /\ NoInfo \notin Infos
  /\ NoRequest \notin Requests

VARIABLES
  routerInfo, \* PathRouterInfoMap
  listed,     \* the entries of each report, by path
  toAdd,      \* the paths it has still to assign
  adding,     \* the path it is assigning
  report,     \* a report: "none", "adding", "acked"
  dead,       \* the process has died of a data race
  request,    \* the request of each channel
  pc,         \* where it is: "idle", "routing", "found", "passed", "over"
  found,      \* the API info it was checked against
  outcome,    \* what became of it
  \* histories
  orderly,    \* no two assignments have overlapped
  raced,      \* the requests whose lookup overlapped an assignment, or came
              \*   after two that overlapped
  knownAt,    \* the paths in the map when a request came
  ackedBefore,\* the reports that were answered when a request came
  ackedAt     \* the reports that were answered when a report came

tableVars   == <<routerInfo, dead, orderly>>
reportVars  == <<listed, toAdd, adding, report, ackedAt>>
pastVars    == <<knownAt, ackedBefore>>
requestVars == <<request, pc, found, outcome, raced, pastVars>>
vars == <<tableVars, reportVars, requestVars>>

\* "502" is the one without an attempt, "unreachable" the one after it failed.
Outcomes == {"none", "forwarded", "unreachable", "closed", "502", "40001",
             "40002", "40003", "40300", "40402", "40403"}

NoEntry == [p \in {} |-> NoInfo]
Entries == UNION {[D -> Infos] : D \in SUBSET Paths}

Init ==
  /\ routerInfo = [p \in Paths |-> NoInfo]
  /\ listed = [r \in Reports |-> NoEntry]
  /\ toAdd = [r \in Reports |-> {}]
  /\ adding = [r \in Reports |-> {}]
  /\ report = [r \in Reports |-> "none"]
  /\ dead = FALSE
  /\ request = [q \in Channels |-> NoRequest]
  /\ pc = [q \in Channels |-> "idle"]
  /\ found = [q \in Channels |-> NoInfo]
  /\ outcome = [q \in Channels |-> "none"]
  /\ orderly = TRUE
  /\ raced = {}
  /\ knownAt = [q \in Channels |-> {}]
  /\ ackedBefore = [q \in Channels |-> {}]
  /\ ackedAt = [r \in Reports |-> {}]

-----------------------------------------------------------------------------
(***************************************************************************)
(* ReportHTTPAPI                                                           *)
(***************************************************************************)

\* A report comes in, with a list of APIs.
Arrives(r) ==
  /\ report[r] = "none"
  /\ report' = [report EXCEPT ![r] = "adding"]
  /\ \E e \in Entries :
       /\ listed' = [listed EXCEPT ![r] = e]
       /\ toAdd' = [toAdd EXCEPT ![r] = DOMAIN e]
  /\ ackedAt' = [ackedAt EXCEPT ![r] = {s \in Reports : report[s] = "acked"}]
  /\ UNCHANGED adding

\* Mutant: a report starts with an empty map.
ReportHTTPAPIReplaces(r) ==
  /\ ~dead
  /\ Arrives(r)
  /\ routerInfo' = [p \in Paths |-> NoInfo]
  /\ UNCHANGED <<dead, orderly, requestVars>>

ReportHTTPAPI(r) ==
  /\ ~dead
  /\ Arrives(r)
  /\ UNCHANGED <<tableVars, requestVars>>

\* AddHttpAPIInfo assigns one entry after the other.
BeginAdd(r) ==
  /\ ~dead
  /\ adding[r] = {}
  /\ \E p \in toAdd[r] : adding' = [adding EXCEPT ![r] = {p}]
  /\ orderly' = (orderly /\ \A s \in Reports : adding[s] = {})
  /\ UNCHANGED <<routerInfo, dead, listed, toAdd, report, ackedAt, requestVars>>

\* Mutant: the first report of a path stays.
EndAddKeepsFirst(r) ==
  /\ ~dead
  /\ \E p \in adding[r] :
       /\ routerInfo' = [routerInfo EXCEPT ![p] = IF @ = NoInfo THEN listed[r][p]
                                                 ELSE @]
       /\ toAdd' = [toAdd EXCEPT ![r] = @ \ {p}]
  /\ adding' = [adding EXCEPT ![r] = {}]
  /\ UNCHANGED <<dead, orderly, listed, report, ackedAt, requestVars>>

\* The assignment of an entry ends.  Once two have overlapped, one may be lost.
EndAdd(r) ==
  /\ ~dead
  /\ \E p \in adding[r] :
       /\ \/ routerInfo' = [routerInfo EXCEPT ![p] = listed[r][p]]
          \/ ~orderly /\ UNCHANGED routerInfo
       /\ toAdd' = [toAdd EXCEPT ![r] = @ \ {p}]
  /\ adding' = [adding EXCEPT ![r] = {}]
  /\ UNCHANGED <<dead, orderly, listed, report, ackedAt, requestVars>>

\* Mutant: the answer does not wait for the assignments.
AckReportAtOnce(r) ==
  /\ ~dead
  /\ report[r] = "adding"
  /\ report' = [report EXCEPT ![r] = "acked"]
  /\ UNCHANGED <<tableVars, listed, toAdd, adding, ackedAt, requestVars>>

\* All entries are in the map: the report is answered.
AckReport(r) ==
  /\ ~dead
  /\ report[r] = "adding"
  /\ toAdd[r] = {}
  /\ report' = [report EXCEPT ![r] = "acked"]
  /\ UNCHANGED <<tableVars, listed, toAdd, adding, ackedAt, requestVars>>

\* The Go runtime detects an access of the map during an assignment: the process
\* ends.
MapFault ==
  /\ ~dead
  /\ \E r \in Reports :
       /\ adding[r] # {}
       /\ \/ \E s \in Reports \ {r} : adding[s] # {}
          \/ \E q \in Channels : pc[q] = "routing"
  /\ dead' = TRUE
  /\ UNCHANGED <<routerInfo, orderly, reportVars, requestVars>>

-----------------------------------------------------------------------------
(***************************************************************************)
(* A request                                                               *)
(***************************************************************************)
Ends(q, what) ==
  /\ pc' = [pc EXCEPT ![q] = "over"]
  /\ outcome' = [outcome EXCEPT ![q] = what]

\* HandleRead and HandleWrite: the Director looks at the certificate of the peer
\* and at the target headers first.  The path loses its first slash and no more.
\* A peer without organizational unit is an index out of range, after which
\* go-netty closes the channel.
HandleRequest(q, r) ==
  /\ ~dead
  /\ pc[q] = "idle"
  /\ request' = [request EXCEPT ![q] = r]
  /\ \/ ~r.named /\ Ends(q, "closed")
     \/ r.named /\ r.target = "noDeploy" /\ Ends(q, "40001")
     \/ r.named /\ r.target = "noService" /\ Ends(q, "40002")
     \/ /\ r.named /\ r.target = "both"
        /\ pc' = [pc EXCEPT ![q] = "routing"]
        /\ UNCHANGED outcome
  /\ knownAt' = [knownAt EXCEPT ![q] =
       {p \in Paths : routerInfo[p] # NoInfo}]
  /\ ackedBefore' = [ackedBefore EXCEPT ![q] =
       {s \in Reports : report[s] = "acked"}]
  /\ UNCHANGED <<tableVars, reportVars, found, raced>>

\* A lookup reads a map that is being changed, or that two have changed at once.
Races == ~orderly \/ \E r \in Reports : adding[r] # {}

\* What a lookup may read: during an assignment, the old entry or the new one,
\* or nothing.
Readable(p) ==
  {routerInfo[p]} \cup {listed[r][p] : r \in {s \in Reports : p \in adding[s]}}
                  \cup {i \in {NoInfo} : Races}

Remembers(q) == raced' = IF Races THEN raced \cup {q} ELSE raced

\* Mutant: the entry is not checked for nil.
GetAPIInfoByPathUnchecked(q) ==
  /\ ~dead
  /\ pc[q] = "routing"
  /\ \E i \in Readable(request[q].path) :
       /\ found' = [found EXCEPT ![q] = i]
       /\ pc' = [pc EXCEPT ![q] = "found"]
  /\ Remembers(q)
  /\ UNCHANGED <<tableVars, reportVars, request, pastVars, outcome>>

GetAPIInfoByPath(q) ==
  /\ ~dead
  /\ pc[q] = "routing"
  /\ \E i \in Readable(request[q].path) :
       /\ found' = [found EXCEPT ![q] = i]
       /\ \/ i = NoInfo /\ Ends(q, "40402")
          \/ /\ i # NoInfo
             /\ pc' = [pc EXCEPT ![q] = "found"]
             /\ UNCHANGED outcome
  /\ Remembers(q)
  /\ UNCHANGED <<tableVars, reportVars, request, pastVars>>

IdentityType(r) == IF r.type = "" THEN "unauthorized" ELSE r.type

\* Mutant: an API that names no identity type takes all.
SupportedIdentityTypesAll(i) == IF i.types = {} THEN IdentityTypes ELSE i.types

\* An API that names no identity type is for requests without any.
SupportedIdentityTypes(i) == IF i.types = {} THEN {"unauthorized"} ELSE i.types

\* The Director checks method and identity.  An Authorization header without a
\* space is an index out of range.
Direct(q) ==
  /\ ~dead
  /\ pc[q] = "found"
  /\ LET r == request[q]
         i == found[q]
         supported == IdentityType(r) \in SupportedIdentityTypes(i)
     IN  \/ /\ r.method \notin i.methods
            /\ Ends(q, "40403")
         \/ /\ r.method \in i.methods
            /\ r.type # "" /\ r.value = "none"
            /\ Ends(q, "closed")
         \/ /\ r.method \in i.methods
            /\ r.type = "" \/ r.value # "none"
            /\ \/ ~supported /\ Ends(q, "40300")
               \/ supported /\ r.type = "jwt" /\ r.value = "bad"
                    /\ Ends(q, "40003")
               \/ /\ supported /\ (r.type = "jwt" => r.value = "good")
                  /\ pc' = [pc EXCEPT ![q] = "passed"]
                  /\ UNCHANGED outcome
  /\ UNCHANGED <<tableVars, reportVars, request, found, raced, pastVars>>

\* The transport sends the request to the service.  Nobody sets the scheme of
\* its URL, so a request that did not come with one (in absolute form) is an
\* error, which the proxy answers with 502.  So is one that cannot reach the
\* service.
RoundTrip(q) ==
  /\ ~dead
  /\ pc[q] = "passed"
  /\ \/ request[q].absolute /\ Ends(q, "forwarded")
     \/ request[q].absolute /\ Ends(q, "unreachable")
     \/ ~request[q].absolute /\ Ends(q, "502")
  /\ UNCHANGED <<tableVars, reportVars, request, found, raced, pastVars>>

-----------------------------------------------------------------------------
RouterStep ==
  \/ \E r \in Reports :
       ReportHTTPAPI(r) \/ BeginAdd(r) \/ EndAdd(r) \/ AckReport(r)
  \/ \E q \in Channels : GetAPIInfoByPath(q) \/ Direct(q) \/ RoundTrip(q)
  \/ MapFault

Next == RouterStep \/ \E q \in Channels, r \in Requests : HandleRequest(q, r)

Spec == Init /\ [][Next]_vars

-----------------------------------------------------------------------------
(***************************************************************************)
(* Properties                                                              *)
(***************************************************************************)

\* The types of the variables; a request is only checked against an API that
\* was found.
TypeOK ==
  /\ routerInfo \in [Paths -> Infos \cup {NoInfo}]
  /\ listed \in [Reports -> Entries]
  /\ toAdd \in [Reports -> SUBSET Paths]
  /\ adding \in [Reports -> SUBSET Paths]
  /\ \A r \in Reports :
       adding[r] \subseteq toAdd[r] /\ toAdd[r] \subseteq DOMAIN listed[r]
  /\ report \in [Reports -> {"none", "adding", "acked"}]
  /\ ackedAt \in [Reports -> SUBSET Reports]
  /\ dead \in BOOLEAN
  /\ request \in [Channels -> {NoRequest} \cup RequestType]
  /\ pc \in [Channels -> {"idle", "routing", "found", "passed", "over"}]
  /\ found \in [Channels -> Infos \cup {NoInfo}]
  /\ \A q \in Channels : pc[q] \in {"found", "passed"} => found[q] # NoInfo
  /\ outcome \in [Channels -> Outcomes]
  /\ orderly \in BOOLEAN
  /\ raced \subseteq Channels
  /\ knownAt \in [Channels -> SUBSET Paths]
  /\ ackedBefore \in [Channels -> SUBSET Reports]

\* Who may call an API, as its reporter sees it.
Permits(i, r) ==
  /\ i # NoInfo
  /\ r.method \in i.methods
  /\ \/ i.types = {} /\ r.type = ""
     \/ r.type = "" /\ "unauthorized" \in i.types
     \/ /\ r.type \in i.types \ {""}
        /\ r.value # "none"
        /\ r.type = "jwt" => r.value = "good"
     \/ i.types = {} /\ r.type = "unauthorized" /\ r.value # "none"

\* A request passes exactly if the API info it found permits it.  In between,
\* reports may have changed the entry.
RoutedAsReported ==
  \A q \in Channels :
    /\ outcome[q] \in {"forwarded", "unreachable", "502"} =>
         Permits(found[q], request[q])
    /\ outcome[q] \in {"40402", "40403", "40300", "40003", "closed"} =>
         ~Permits(found[q], request[q]) \/ ~request[q].named

\* A request for a path that was in the map when it came is not answered with
\* "api with path does not exist", whatever reports come in meanwhile, unless its
\* lookup was in a data race.
NoFalse404 ==
  \A q \in Channels \ raced :
    outcome[q] = "40402" => request[q].path \notin knownAt[q]

\* As long as assignments have not overlapped, no request is checked against an
\* entry that had been replaced when it came: what it finds is of a report no
\* older than any that names its path and was answered by then.
NotSuperseded ==
  orderly =>
    \A q \in Channels : found[q] # NoInfo =>
      \A r \in ackedBefore[q] : request[q].path \in DOMAIN listed[r] =>
        \E s \in Reports \ ackedAt[r] :
          /\ request[q].path \in DOMAIN listed[s]
          /\ found[q] = listed[s][request[q].path]

\* As long as assignments have not overlapped, the answer to a report means that
\* its entries are in the map, or in their place those of a report that was not
\* yet answered when this one came: an older report never undoes a newer one.
AckedIsInForce ==
  orderly =>
    \A r \in Reports : report[r] = "acked" =>
      \A p \in DOMAIN listed[r] :
        \E s \in Reports \ ackedAt[r] :
          p \in DOMAIN listed[s] /\ routerInfo[p] = listed[s][p]

\* A request whose identity is the certificate of its peer is let through to the
\* service, whether or not that can be reached, when the API supports it.
RpcIsLetThrough ==
  \A q \in Channels :
    pc[q] = "over" /\ Permits(found[q], request[q]) /\ request[q].type = "rpc"
      => outcome[q] \in {"forwarded", "unreachable"}

=============================================================================
