------------------------ MODULE ServiceRouterProofs ------------------------
(***************************************************************************)
(* Theorems about the service router, for every set of reports, channels,  *)
(* paths, API infos and requests, and about the wrapper in front of it,    *)
(* for every set of applications and deployments.                          *)
(*                                                                         *)
(* The steps of the router are taken apart from the requests of Next, so   *)
(* that the lemmas also serve the router behind the wrapper.               *)
(***************************************************************************)
EXTENDS TLSWrapper, TLAPS

\* A report: nothing is listed before it comes, and what it was told to be older
\* than has been answered.
ReportInv(r) ==
  /\ report[r] = "none" => listed[r] = NoEntry
  /\ report[r] = "acked" => toAdd[r] = {}
  /\ r \notin ackedAt[r]
  /\ \A s \in ackedAt[r] : report[s] = "acked"

\* An entry that a report has assigned is in force, or one that is no older.
InForce(r) ==
  \A p \in DOMAIN listed[r] \ toAdd[r] :
    \E s \in Reports \ ackedAt[r] :
      p \in DOMAIN listed[s] /\ routerInfo[p] = listed[s][p]

\* A request, from its arrival to its end.
RequestInv(q) ==
  /\ pc[q] # "idle" => request[q] \in RequestType
  /\ pc[q] = "over" <=> outcome[q] # "none"
  /\ pc[q] \in {"idle", "routing"} => found[q] = NoInfo
  /\ pc[q] = "passed" => Permits(found[q], request[q])
  /\ outcome[q] = "40001" => request[q].target = "noDeploy"
  /\ outcome[q] \in {"forwarded", "unreachable"} => request[q].absolute
  /\ outcome[q] \in Outcomes \ {"none", "forwarded", "unreachable", "502"} =>
       ~Permits(found[q], request[q]) \/ ~request[q].named

\* What was known stays known: no entry is ever taken out of the map.
KnownInv(q) ==
  /\ \A p \in knownAt[q] : routerInfo[p] # NoInfo
  /\ outcome[q] = "40402" /\ q \notin raced =>
       request[q].path \notin knownAt[q]

\* What a request found is of a report no older than the one r.
NoOlder(q, r) ==
  \E s \in Reports \ ackedAt[r] :
    /\ request[q].path \in DOMAIN listed[s]
    /\ found[q] = listed[s][request[q].path]

\* NotSuperseded, for one request.
CheckInv(q) ==
  /\ \A r \in ackedBefore[q] : report[r] = "acked"
  /\ orderly /\ found[q] # NoInfo =>
       \A r \in ackedBefore[q] :
         request[q].path \in DOMAIN listed[r] => NoOlder(q, r)

IInv ==
  /\ TypeOK
  /\ \A r \in Reports : ReportInv(r)
  /\ orderly => \A r \in Reports : InForce(r)
  /\ \A q \in Channels : RequestInv(q) /\ KnownInv(q) /\ CheckInv(q)
  /\ RoutedAsReported

-----------------------------------------------------------------------------
(***************************************************************************)
(* Facts about the operators                                               *)
(***************************************************************************)

LEMMA EntriesType ==
  ASSUME NEW e \in Entries
  PROVE  DOMAIN e \subseteq Paths /\ \A p \in DOMAIN e : e[p] \in Infos
BY DEF Entries

LEMMA NoEntryType == NoEntry \in Entries /\ DOMAIN NoEntry = {}
BY DEF NoEntry, Entries

\* A lookup reads an API info or nothing, and nothing only if the path has none,
\* or in a data race.
LEMMA ReadableType ==
  ASSUME TypeOK, NEW p \in Paths, NEW i \in Readable(p)
  PROVE  /\ i \in Infos \cup {NoInfo}
         /\ i = NoInfo => routerInfo[p] = NoInfo \/ Races
<1>1. CASE i = routerInfo[p]
  BY <1>1 DEF TypeOK
<1>2. ASSUME NEW r \in Reports, p \in adding[r], i = listed[r][p]
      PROVE  i \in Infos
  BY <1>2, EntriesType DEF TypeOK
<1>3. CASE i = NoInfo /\ Races
  BY <1>3
<1> QED
  BY <1>1, <1>2, <1>3, RouterAssumption DEF Readable

\* While assignments do not overlap, it reads an entry no older than those of
\* the reports that have been answered.
LEMMA ReadableInForce ==
  ASSUME IInv, orderly, NEW p \in Paths, NEW i \in Readable(p), i # NoInfo,
         NEW r \in Reports, report[r] = "acked", p \in DOMAIN listed[r]
  PROVE  \E s \in Reports \ ackedAt[r] : p \in DOMAIN listed[s]
                                       /\ i = listed[s][p]
<1>1. CASE i = routerInfo[p]
  BY <1>1 DEF IInv, ReportInv, InForce
<1>2. ASSUME NEW s \in Reports, p \in adding[s], i = listed[s][p]
      PROVE  s \notin ackedAt[r] /\ p \in DOMAIN listed[s]
  <2>1. p \in toAdd[s] /\ p \in DOMAIN listed[s]
    BY <1>2 DEF IInv, TypeOK
  <2>2. report[s] # "acked"
    BY <2>1 DEF IInv, ReportInv
  <2> QED
    BY <2>1, <2>2 DEF IInv, ReportInv
<1> QED
  BY <1>1, <1>2 DEF Readable

-----------------------------------------------------------------------------
LEMMA InitIInv == Init => IInv
<1> SUFFICES ASSUME Init PROVE IInv
  OBVIOUS
<1>1. TypeOK
  BY NoEntryType DEF Init, TypeOK, Outcomes
<1>2. \A r \in Reports : ReportInv(r) /\ InForce(r)
  BY NoEntryType DEF Init, ReportInv, InForce
<1>3. \A q \in Channels : RequestInv(q) /\ KnownInv(q) /\ CheckInv(q)
  BY DEF Init, RequestInv, KnownInv, CheckInv, Outcomes
<1>4. RoutedAsReported
  BY DEF Init, RoutedAsReported
<1> QED
  BY <1>1, <1>2, <1>3, <1>4 DEF IInv

-----------------------------------------------------------------------------
(***************************************************************************)
(* The steps of the reports                                                *)
(***************************************************************************)

\* The requests do not notice a step that leaves them alone, takes no entry out
\* of the map and changes no report that has come.
LEMMA RequestsUntouched ==
  ASSUME IInv, UNCHANGED requestVars, orderly' => orderly,
         \A p \in Paths : routerInfo[p] # NoInfo => routerInfo'[p] # NoInfo,
         \A s \in Reports :
           /\ report[s] # "none" => UNCHANGED <<listed[s], ackedAt[s]>>
           /\ report[s] = "acked" => report'[s] = "acked"
  PROVE  /\ \A q \in Channels : RequestInv(q)' /\ KnownInv(q)' /\ CheckInv(q)'
         /\ RoutedAsReported'
<1>1. \A q \in Channels : knownAt[q] \subseteq Paths
  BY DEF IInv, TypeOK
<1>2. \A q \in Channels : RequestInv(q)'
  BY DEF IInv, RequestInv, requestVars
<1>3. \A q \in Channels : KnownInv(q)'
  BY <1>1 DEF IInv, KnownInv, requestVars, pastVars
<1>4. ASSUME NEW q \in Channels PROVE CheckInv(q)'
  <2>1. /\ UNCHANGED <<request, found, ackedBefore>>
        /\ ackedBefore[q] \subseteq Reports
        /\ CheckInv(q)
    BY DEF requestVars, pastVars, IInv, TypeOK
  <2>2. \A r \in ackedBefore[q] : report[r] = "acked" /\ report'[r] = "acked"
    BY <2>1 DEF CheckInv
  <2>3. ASSUME orderly', found'[q] # NoInfo, NEW r \in ackedBefore[q],
               request[q].path \in DOMAIN listed'[r]
        PROVE  NoOlder(q, r)'
    <3>1. /\ r \in Reports
          /\ listed'[r] = listed[r] /\ ackedAt'[r] = ackedAt[r]
      BY <2>1, <2>2
    <3>2. NoOlder(q, r)
      BY <2>1, <2>3, <3>1 DEF CheckInv
    <3>3. PICK s \in Reports \ ackedAt[r] :
            /\ request[q].path \in DOMAIN listed[s]
            /\ found[q] = listed[s][request[q].path]
      BY <3>2 DEF NoOlder
    <3>4. listed'[s] = listed[s]
      BY <3>3, NoEntryType DEF IInv, ReportInv
    <3> QED
      BY <2>1, <3>1, <3>3, <3>4 DEF NoOlder
  <2> QED
    BY <2>1, <2>2, <2>3 DEF CheckInv
<1>5. RoutedAsReported'
  BY DEF IInv, RoutedAsReported, requestVars
<1> QED
  BY <1>2, <1>3, <1>4, <1>5

LEMMA ReportStep ==
  ASSUME IInv, NEW r \in Reports, ReportHTTPAPI(r) PROVE IInv'
<1>1. PICK e \in Entries :
        /\ listed' = [listed EXCEPT ![r] = e]
        /\ toAdd' = [toAdd EXCEPT ![r] = DOMAIN e]
  BY DEF ReportHTTPAPI, Arrives
<1>2. /\ report[r] = "none"
      /\ report' = [report EXCEPT ![r] = "adding"]
      /\ ackedAt' = [ackedAt EXCEPT ![r] = {s \in Reports : report[s] = "acked"}]
      /\ UNCHANGED <<adding, routerInfo, dead, orderly, requestVars>>
  BY DEF ReportHTTPAPI, Arrives, tableVars
<1>3. adding[r] = {} /\ listed[r] = NoEntry
  BY <1>2, NoEntryType DEF IInv, TypeOK, ReportInv
<1>4. TypeOK'
  BY <1>1, <1>2, <1>3, EntriesType DEF IInv, TypeOK, requestVars, pastVars
<1>5. \A s \in Reports : ReportInv(s)'
  BY <1>1, <1>2 DEF IInv, TypeOK, ReportInv
<1>6. ASSUME orderly', NEW s \in Reports PROVE InForce(s)'
  <2>1. CASE s = r
    BY <1>1, <2>1 DEF IInv, TypeOK, InForce
  <2>2. CASE s # r
    <3>1. InForce(s)
      BY <1>2, <1>6 DEF IInv
    <3>2. \A t \in Reports : t # r => listed'[t] = listed[t]
      BY <1>1 DEF IInv, TypeOK
    <3>3. toAdd'[s] = toAdd[s] /\ ackedAt'[s] = ackedAt[s]
      BY <1>1, <1>2, <2>2 DEF IInv, TypeOK
    <3> QED
      BY <1>2, <1>3, <2>2, <3>1, <3>2, <3>3, NoEntryType DEF InForce
  <2> QED
    BY <2>1, <2>2
<1>7. \A s \in Reports : report[s] # "none" =>
        /\ UNCHANGED <<listed[s], ackedAt[s]>>
        /\ report'[s] = report[s]
  BY <1>1, <1>2 DEF IInv, TypeOK
<1>8. /\ \A q \in Channels : RequestInv(q)' /\ KnownInv(q)' /\ CheckInv(q)'
      /\ RoutedAsReported'
  BY <1>2, <1>7, RequestsUntouched
<1> QED
  BY <1>4, <1>5, <1>6, <1>8 DEF IInv

LEMMA BeginAddStep ==
  ASSUME IInv, NEW r \in Reports, BeginAdd(r) PROVE IInv'
<1>1. PICK p \in toAdd[r] : adding' = [adding EXCEPT ![r] = {p}]
  BY DEF BeginAdd
<1>2. /\ orderly' \in BOOLEAN /\ (orderly' => orderly)
      /\ UNCHANGED <<routerInfo, dead, listed, toAdd, report, ackedAt,
                     requestVars>>
  BY DEF BeginAdd, IInv, TypeOK
<1>3. TypeOK'
  BY <1>1, <1>2 DEF IInv, TypeOK, requestVars, pastVars
<1>4. \A s \in Reports : ReportInv(s)'
  BY <1>2 DEF IInv, ReportInv
<1>5. orderly' => \A s \in Reports : InForce(s)'
  BY <1>2 DEF IInv, InForce
<1>6. /\ \A q \in Channels : RequestInv(q)' /\ KnownInv(q)' /\ CheckInv(q)'
      /\ RoutedAsReported'
  BY <1>2, RequestsUntouched
<1> QED
  BY <1>3, <1>4, <1>5, <1>6 DEF IInv

\* The report that assigns has not been answered, so no other is newer for having
\* seen its answer: for every report, it may stand in.
LEMMA EndAddStep ==
  ASSUME IInv, NEW r \in Reports, EndAdd(r) PROVE IInv'
<1>1. PICK p \in adding[r] :
        /\ \/ routerInfo' = [routerInfo EXCEPT ![p] = listed[r][p]]
           \/ ~orderly /\ UNCHANGED routerInfo
        /\ toAdd' = [toAdd EXCEPT ![r] = @ \ {p}]
        /\ adding' = [adding EXCEPT ![r] = {}]
  BY DEF EndAdd
<1>2. UNCHANGED <<dead, orderly, listed, report, ackedAt, requestVars>>
  BY DEF EndAdd
<1>3. p \in toAdd[r] /\ p \in DOMAIN listed[r] /\ p \in Paths
  BY DEF IInv, TypeOK
<1>4. listed[r][p] \in Infos
  BY <1>3, EntriesType DEF IInv, TypeOK
<1>5. report[r] # "acked"
  BY <1>3 DEF IInv, ReportInv
<1>6. TypeOK'
  BY <1>1, <1>2, <1>4 DEF IInv, TypeOK, requestVars, pastVars
<1>7. \A s \in Reports : ReportInv(s)'
  BY <1>1, <1>2, <1>5 DEF IInv, TypeOK, ReportInv
<1>8. ASSUME orderly', NEW s \in Reports PROVE InForce(s)'
  <2>1. routerInfo' = [routerInfo EXCEPT ![p] = listed[r][p]]
    BY <1>1, <1>2, <1>8
  <2>2. r \notin ackedAt[s]
    BY <1>5 DEF IInv, ReportInv
  <2>3. ASSUME NEW x \in (DOMAIN listed[s] \ toAdd[s])'
        PROVE  \E t \in Reports \ ackedAt[s] :
                 x \in DOMAIN listed[t] /\ routerInfo'[x] = listed[t][x]
    <3>1. CASE x = p
      BY <1>3, <2>1, <2>2, <3>1 DEF IInv, TypeOK
    <3>2. CASE x # p
      <4>1. x \in DOMAIN listed[s] \ toAdd[s]
        BY <1>1, <1>2, <3>2 DEF IInv, TypeOK
      <4>2. InForce(s)
        BY <1>2, <1>8 DEF IInv
      <4>3. routerInfo'[x] = routerInfo[x]
        BY <2>1, <3>2, <4>1, EntriesType DEF IInv, TypeOK
      <4> QED
        BY <4>1, <4>2, <4>3 DEF InForce
    <3> QED
      BY <3>1, <3>2
  <2> QED
    BY <1>2, <2>3 DEF InForce
<1>9. \A x \in Paths : routerInfo[x] # NoInfo => routerInfo'[x] # NoInfo
  BY <1>1, <1>4, RouterAssumption DEF IInv, TypeOK
<1>10. /\ \A q \in Channels : RequestInv(q)' /\ KnownInv(q)' /\ CheckInv(q)'
       /\ RoutedAsReported'
  BY <1>2, <1>9, RequestsUntouched
<1> QED
  BY <1>6, <1>7, <1>8, <1>10 DEF IInv

LEMMA AckReportStep ==
  ASSUME IInv, NEW r \in Reports, AckReport(r) PROVE IInv'
<1>1. /\ report[r] = "adding" /\ toAdd[r] = {}
      /\ report' = [report EXCEPT ![r] = "acked"]
      /\ UNCHANGED <<routerInfo, dead, orderly, listed, toAdd, adding, ackedAt,
                     requestVars>>
  BY DEF AckReport, tableVars
<1>2. TypeOK'
  BY <1>1 DEF IInv, TypeOK, requestVars, pastVars
<1>3. \A s \in Reports : ReportInv(s)'
  BY <1>1 DEF IInv, TypeOK, ReportInv
<1>4. orderly' => \A s \in Reports : InForce(s)'
  BY <1>1 DEF IInv, InForce
<1>5. /\ \A q \in Channels : RequestInv(q)' /\ KnownInv(q)' /\ CheckInv(q)'
      /\ RoutedAsReported'
  <2>1. \A s \in Reports : report[s] = "acked" => report'[s] = "acked"
    BY <1>1 DEF IInv, TypeOK
  <2> QED
    BY <1>1, <2>1, RequestsUntouched
<1> QED
  BY <1>2, <1>3, <1>4, <1>5 DEF IInv

LEMMA MapFaultStep == ASSUME IInv, MapFault PROVE IInv'
<1>1. dead' = TRUE /\ UNCHANGED <<routerInfo, orderly, reportVars, requestVars>>
  BY DEF MapFault
<1>2. TypeOK'
  BY <1>1 DEF IInv, TypeOK, reportVars, requestVars, pastVars
<1>3. /\ \A s \in Reports : ReportInv(s)'
      /\ orderly' => \A s \in Reports : InForce(s)'
  BY <1>1 DEF IInv, ReportInv, InForce, reportVars
<1>4. /\ \A q \in Channels : RequestInv(q)' /\ KnownInv(q)' /\ CheckInv(q)'
      /\ RoutedAsReported'
  BY <1>1, RequestsUntouched DEF reportVars
<1> QED
  BY <1>2, <1>3, <1>4 DEF IInv

-----------------------------------------------------------------------------
(***************************************************************************)
(* The steps of a request                                                  *)
(***************************************************************************)

\* A step of the request of q alone keeps what is about the reports, and about
\* the other requests.
LEMMA OneRequest ==
  ASSUME IInv, NEW q \in Channels, UNCHANGED <<tableVars, reportVars>>,
         \A x \in Channels \ {q} :
           /\ UNCHANGED <<request[x], pc[x], found[x], outcome[x], knownAt[x],
                          ackedBefore[x]>>
           /\ x \in raced' <=> x \in raced,
         TypeOK', RequestInv(q)', KnownInv(q)', CheckInv(q)',
         outcome'[q] \in {"forwarded", "unreachable", "502"} =>
           Permits(found'[q], request'[q])
  PROVE  IInv'
<1>1. \A s \in Reports : ReportInv(s)'
  BY DEF IInv, ReportInv, reportVars
<1>2. orderly' => \A s \in Reports : InForce(s)'
  BY DEF IInv, InForce, reportVars, tableVars
<1>3. ASSUME NEW x \in Channels, x # q
      PROVE  RequestInv(x)' /\ KnownInv(x)' /\ CheckInv(x)'
  <2>1. /\ UNCHANGED <<routerInfo, orderly, listed, report, ackedAt, request[x],
                       pc[x], found[x], outcome[x], knownAt[x], ackedBefore[x]>>
        /\ x \in raced' <=> x \in raced
    BY <1>3 DEF tableVars, reportVars
  <2>2. RequestInv(x) /\ KnownInv(x) /\ CheckInv(x)
    BY DEF IInv
  <2> QED
    BY <2>1, <2>2 DEF RequestInv, KnownInv, CheckInv, NoOlder
<1>4. ASSUME NEW x \in Channels
      PROVE  /\ outcome'[x] \in {"forwarded", "unreachable", "502"} =>
                  Permits(found'[x], request'[x])
             /\ outcome'[x] \in {"40402", "40403", "40300", "40003", "closed"} =>
                  ~Permits(found'[x], request'[x]) \/ ~request'[x].named
  <2>1. CASE x = q
    BY <2>1 DEF RequestInv, Outcomes
  <2>2. CASE x # q
    <3>1. UNCHANGED <<request[x], found[x], outcome[x]>>
      BY <2>2
    <3> QED
      BY <3>1 DEF IInv, RoutedAsReported
  <2> QED
    BY <2>1, <2>2
<1>5. RoutedAsReported'
  BY <1>4 DEF RoutedAsReported
<1> QED
  BY <1>1, <1>2, <1>3, <1>5 DEF IInv

\* The request may be any of its type.
LEMMA HandleRequestStep ==
  ASSUME IInv, NEW q \in Channels, NEW r \in RequestType, HandleRequest(q, r)
  PROVE  IInv'
<1>1. /\ pc[q] = "idle" /\ request' = [request EXCEPT ![q] = r]
      /\ knownAt' = [knownAt EXCEPT ![q] = {p \in Paths : routerInfo[p] # NoInfo}]
      /\ ackedBefore' = [ackedBefore EXCEPT ![q] =
           {s \in Reports : report[s] = "acked"}]
      /\ UNCHANGED <<tableVars, reportVars, found, raced>>
  BY DEF HandleRequest
<1>2. \/ /\ ~r.named
         /\ pc' = [pc EXCEPT ![q] = "over"]
         /\ outcome' = [outcome EXCEPT ![q] = "closed"]
      \/ /\ r.target = "noDeploy"
         /\ pc' = [pc EXCEPT ![q] = "over"]
         /\ outcome' = [outcome EXCEPT ![q] = "40001"]
      \/ /\ pc' = [pc EXCEPT ![q] = "over"]
         /\ outcome' = [outcome EXCEPT ![q] = "40002"]
      \/ /\ pc' = [pc EXCEPT ![q] = "routing"]
         /\ outcome' = outcome
  BY DEF HandleRequest, Ends
<1>3. found[q] = NoInfo /\ outcome[q] = "none"
  BY <1>1 DEF IInv, RequestInv, TypeOK
<1>4. TypeOK'
  BY <1>1, <1>2 DEF IInv, TypeOK, tableVars, reportVars, Outcomes
<1>5. RequestInv(q)'
  <2>1. /\ request'[q] = r /\ found'[q] = NoInfo
        /\ \/ pc'[q] = "over" /\ outcome'[q] = "closed" /\ ~r.named
           \/ pc'[q] = "over" /\ outcome'[q] = "40001" /\ r.target = "noDeploy"
           \/ pc'[q] = "over" /\ outcome'[q] = "40002"
           \/ pc'[q] = "routing" /\ outcome'[q] = "none"
    BY <1>1, <1>2, <1>3 DEF IInv, TypeOK
  <2> QED
    BY <2>1 DEF RequestInv, Permits
<1>6. KnownInv(q)'
  BY <1>1, <1>2, <1>3 DEF IInv, TypeOK, KnownInv, tableVars
<1>7. \A x \in Channels \ {q} :
        /\ UNCHANGED <<request[x], pc[x], found[x], outcome[x], knownAt[x],
                       ackedBefore[x]>>
        /\ x \in raced' <=> x \in raced
  BY <1>1, <1>2 DEF IInv, TypeOK
<1>8. outcome'[q] \notin {"forwarded", "unreachable", "502"}
  BY <1>2, <1>3 DEF IInv, TypeOK
<1>9. CheckInv(q)'
  BY <1>1, <1>3 DEF IInv, TypeOK, CheckInv, reportVars
<1> QED
  BY <1>1, <1>4, <1>5, <1>6, <1>7, <1>8, <1>9, OneRequest

LEMMA LookupStep ==
  ASSUME IInv, NEW q \in Channels, GetAPIInfoByPath(q) PROVE IInv'
<1>1. /\ pc[q] = "routing"
      /\ UNCHANGED <<tableVars, reportVars, request, pastVars>>
      /\ raced' = IF Races THEN raced \cup {q} ELSE raced
  BY DEF GetAPIInfoByPath, Remembers
<1>2. PICK i \in Readable(request[q].path) :
        /\ found' = [found EXCEPT ![q] = i]
        /\ \/ /\ i = NoInfo
              /\ pc' = [pc EXCEPT ![q] = "over"]
              /\ outcome' = [outcome EXCEPT ![q] = "40402"]
           \/ /\ i # NoInfo
              /\ pc' = [pc EXCEPT ![q] = "found"]
              /\ outcome' = outcome
  BY DEF GetAPIInfoByPath, Ends
<1>3. request[q] \in RequestType /\ request[q].path \in Paths
  BY <1>1 DEF IInv, RequestInv, RequestType
<1>4. /\ i \in Infos \cup {NoInfo}
      /\ i = NoInfo => routerInfo[request[q].path] = NoInfo \/ Races
  BY <1>3, ReadableType DEF IInv
<1>5. outcome[q] = "none"
  BY <1>1 DEF IInv, RequestInv, TypeOK
<1>6. TypeOK'
  BY <1>1, <1>2, <1>4 DEF IInv, TypeOK, tableVars, reportVars, pastVars,
      Outcomes
<1>7. RequestInv(q)'
  BY <1>1, <1>2, <1>3, <1>5 DEF IInv, TypeOK, RequestInv, Permits
<1>8. KnownInv(q)'
  BY <1>1, <1>2, <1>4, <1>5 DEF IInv, TypeOK, KnownInv, tableVars, pastVars
<1>9. \A x \in Channels \ {q} :
        /\ UNCHANGED <<request[x], pc[x], found[x], outcome[x], knownAt[x],
                       ackedBefore[x]>>
        /\ x \in raced' <=> x \in raced
  BY <1>1, <1>2 DEF IInv, TypeOK, pastVars
<1>10. outcome'[q] \notin {"forwarded", "unreachable", "502"}
  BY <1>2, <1>5 DEF IInv, TypeOK
<1>11. CheckInv(q)'
  <2>1. /\ UNCHANGED <<orderly, report, listed, ackedAt, request, ackedBefore>>
        /\ found'[q] = i
        /\ CheckInv(q) /\ ackedBefore[q] \subseteq Reports
    BY <1>1, <1>2 DEF IInv, TypeOK, tableVars, reportVars, pastVars
  <2>2. ASSUME orderly, i # NoInfo, NEW r \in ackedBefore[q],
               request[q].path \in DOMAIN listed[r]
        PROVE  NoOlder(q, r)'
    <3>1. r \in Reports /\ report[r] = "acked"
      BY <2>1 DEF CheckInv
    <3>2. \E s \in Reports \ ackedAt[r] :
            request[q].path \in DOMAIN listed[s]
            /\ i = listed[s][request[q].path]
      BY <1>3, <2>2, <3>1, ReadableInForce
    <3> QED
      BY <2>1, <3>2 DEF NoOlder
  <2> QED
    BY <2>1, <2>2 DEF CheckInv
<1> QED
  BY <1>1, <1>6, <1>7, <1>8, <1>9, <1>10, <1>11, OneRequest

\* What the checks of the Director come to.
LEMMA DirectPermits ==
  ASSUME NEW i \in Infos, NEW r \in RequestType
  PROVE  /\ r.method \notin i.methods => ~Permits(i, r)
         /\ r.type # "" /\ r.value = "none" => ~Permits(i, r)
         /\ IdentityType(r) \notin SupportedIdentityTypes(i) => ~Permits(i, r)
         /\ r.type = "jwt" /\ r.value = "bad" => ~Permits(i, r)
         /\ /\ r.method \in i.methods
            /\ r.type = "" \/ r.value # "none"
            /\ IdentityType(r) \in SupportedIdentityTypes(i)
            /\ r.type = "jwt" => r.value = "good"
            => Permits(i, r)
BY RouterAssumption DEF Permits, IdentityType, SupportedIdentityTypes

LEMMA DirectStep ==
  ASSUME IInv, NEW q \in Channels, Direct(q) PROVE IInv'
<1> DEFINE r == request[q]
           i == found[q]
<1>1. /\ pc[q] = "found"
      /\ UNCHANGED <<tableVars, reportVars, request, found, raced, pastVars>>
  BY DEF Direct
<1>2. i \in Infos /\ r \in RequestType /\ outcome[q] = "none"
  BY <1>1 DEF IInv, TypeOK, RequestInv
<1>3. \/ /\ ~Permits(i, r)
         /\ pc' = [pc EXCEPT ![q] = "over"]
         /\ \E o \in {"40403", "closed", "40300", "40003"} :
              outcome' = [outcome EXCEPT ![q] = o]
      \/ /\ Permits(i, r)
         /\ pc' = [pc EXCEPT ![q] = "passed"]
         /\ outcome' = outcome
  BY <1>2, DirectPermits DEF Direct, Ends
<1>4. TypeOK'
  BY <1>1, <1>3 DEF IInv, TypeOK, tableVars, reportVars, pastVars, Outcomes
<1>5. RequestInv(q)'
  BY <1>1, <1>2, <1>3 DEF IInv, TypeOK, RequestInv
<1>6. KnownInv(q)'
  BY <1>1, <1>2, <1>3 DEF IInv, TypeOK, KnownInv, tableVars, pastVars
<1>7. \A x \in Channels \ {q} :
        /\ UNCHANGED <<request[x], pc[x], found[x], outcome[x], knownAt[x],
                       ackedBefore[x]>>
        /\ x \in raced' <=> x \in raced
  BY <1>1, <1>3 DEF IInv, TypeOK, pastVars
<1>8. outcome'[q] \notin {"forwarded", "unreachable", "502"}
  BY <1>2, <1>3 DEF IInv, TypeOK
<1>9. CheckInv(q)'
  BY <1>1 DEF IInv, CheckInv, NoOlder, tableVars, reportVars, pastVars
<1> QED
  BY <1>1, <1>4, <1>5, <1>6, <1>7, <1>8, <1>9, OneRequest

LEMMA RoundTripStep ==
  ASSUME IInv, NEW q \in Channels, RoundTrip(q) PROVE IInv'
<1>1. /\ pc[q] = "passed"
      /\ UNCHANGED <<tableVars, reportVars, request, found, raced, pastVars>>
      /\ pc' = [pc EXCEPT ![q] = "over"]
      /\ \E o \in {"forwarded", "unreachable", "502"} :
           /\ outcome' = [outcome EXCEPT ![q] = o]
           /\ o # "502" => request[q].absolute
  BY DEF RoundTrip, Ends
<1>2. request[q] \in RequestType /\ Permits(found[q], request[q])
  BY <1>1 DEF IInv, RequestInv
<1>3. TypeOK'
  BY <1>1 DEF IInv, TypeOK, tableVars, reportVars, pastVars, Outcomes
<1>4. RequestInv(q)'
  BY <1>1, <1>2 DEF IInv, TypeOK, RequestInv
<1>5. KnownInv(q)'
  BY <1>1 DEF IInv, TypeOK, KnownInv, tableVars, pastVars
<1>6. \A x \in Channels \ {q} :
        /\ UNCHANGED <<request[x], pc[x], found[x], outcome[x], knownAt[x],
                       ackedBefore[x]>>
        /\ x \in raced' <=> x \in raced
  BY <1>1 DEF IInv, TypeOK, pastVars
<1>7. Permits(found'[q], request'[q])
  BY <1>1, <1>2
<1>8. CheckInv(q)'
  BY <1>1 DEF IInv, CheckInv, NoOlder, tableVars, reportVars, pastVars
<1> QED
  BY <1>1, <1>3, <1>4, <1>5, <1>6, <1>7, <1>8, OneRequest

-----------------------------------------------------------------------------
(***************************************************************************)
(* The theorems                                                            *)
(***************************************************************************)

LEMMA RouterStepIInv == IInv /\ RouterStep => IInv'
BY ReportStep, BeginAddStep, EndAddStep, AckReportStep, MapFaultStep,
   LookupStep, DirectStep, RoundTripStep
DEF RouterStep

LEMMA StutterIInv == IInv /\ UNCHANGED vars => IInv'
<1> SUFFICES ASSUME IInv, UNCHANGED vars PROVE IInv'
  OBVIOUS
<1>1. UNCHANGED <<routerInfo, dead, orderly, listed, toAdd, adding, report,
                  ackedAt, requestVars>>
  BY DEF vars, tableVars, reportVars
<1>2. TypeOK'
  BY <1>1 DEF IInv, TypeOK, requestVars, pastVars
<1>3. /\ \A s \in Reports : ReportInv(s)'
      /\ orderly' => \A s \in Reports : InForce(s)'
  BY <1>1 DEF IInv, ReportInv, InForce
<1>4. /\ \A q \in Channels : RequestInv(q)' /\ KnownInv(q)' /\ CheckInv(q)'
      /\ RoutedAsReported'
  BY <1>1, RequestsUntouched
<1> QED
  BY <1>2, <1>3, <1>4 DEF IInv

\* What the invariant says of the properties of ServiceRouter.
LEMMA IInvImplies ==
  IInv => /\ TypeOK /\ RoutedAsReported /\ NoFalse404 /\ AckedIsInForce
          /\ NotSuperseded
<1> SUFFICES ASSUME IInv PROVE NoFalse404 /\ AckedIsInForce /\ NotSuperseded
  BY DEF IInv
<1>1. NoFalse404
  BY DEF IInv, KnownInv, NoFalse404
<1>2. ASSUME orderly, NEW r \in Reports, report[r] = "acked",
             NEW p \in DOMAIN listed[r]
      PROVE  \E s \in Reports \ ackedAt[r] :
               p \in DOMAIN listed[s] /\ routerInfo[p] = listed[s][p]
  BY <1>2 DEF IInv, ReportInv, InForce
<1>3. AckedIsInForce
  BY <1>2 DEF AckedIsInForce
<1>4. NotSuperseded
  BY DEF IInv, CheckInv, NoOlder, NotSuperseded
<1> QED
  BY <1>1, <1>3, <1>4

LEMMA IInvHolds == Spec => []IInv
<1>1. IInv /\ [Next]_vars => IInv'
  BY RouterStepIInv, StutterIInv, HandleRequestStep, RouterAssumption DEF Next
<1> QED
  BY <1>1, InitIInv, PTL DEF Spec

\* The types; a request is only checked against an API that was found.
THEOREM TypeCorrect == Spec => []TypeOK
BY IInvHolds, IInvImplies, PTL

\* The decision about a request is that of the one entry it found, for any number
\* of reports that change the map meanwhile.
THEOREM DecidedByOneEntry == Spec => []RoutedAsReported
BY IInvHolds, IInvImplies, PTL

\* A path that was in the map when a request came is found by a lookup without a
\* data race, whatever is reported.
THEOREM KnownPathsAreFound == Spec => []NoFalse404
BY IInvHolds, IInvImplies, PTL

\* As long as no two assignments overlap, no older report undoes a newer one.
THEOREM AcknowledgedIsInForce == Spec => []AckedIsInForce
BY IInvHolds, IInvImplies, PTL

\* As long as no two assignments overlap, a request is checked against what the
\* reports that had been answered when it came say, or something no older.
THEOREM ChecksAreUpToDate == Spec => []NotSuperseded
BY IInvHolds, IInvImplies, PTL

-----------------------------------------------------------------------------
(***************************************************************************)
(* The wrapper (TLSWrapper)                                                *)
(*                                                                         *)
(* What comes through it is a request like any other to the router, so the *)
(* invariant of the router holds; what the wrapper adds is that the        *)
(* request and the answer of a channel belong together.                    *)
(***************************************************************************)

\* Without a call there is no answer.  A call that goes nowhere is answered at
\* once; any other is the request of its channel, and is answered what became of
\* that, or 502.
CallInv(q) ==
  /\ call[q] = NoCall => answer[q] = "none"
  /\ call[q] # NoCall /\ call[q].deploy \notin DeployInfos =>
       answer[q] = "40400" /\ pc[q] = "idle"
  /\ call[q] # NoCall /\ call[q].deploy \in DeployInfos =>
       \/ answer[q] \in {"none", "502"}
       \/ pc[q] = "over" /\ answer[q] = outcome[q]
  /\ call[q] # NoCall /\ pc[q] # "idle" => request[q] = Wrapped(call[q])

WrapperInv ==
  /\ IInv
  /\ call \in [Channels -> AppRequests \cup {NoCall}]
  /\ answer \in [Channels -> Outcomes \cup {"40400"}]
  /\ \A q \in Channels : CallInv(q)

-----------------------------------------------------------------------------
LEMMA WrappedType == ASSUME NEW a \in AppRequests PROVE Wrapped(a) \in RequestType
BY WrapperAssumption DEF Wrapped, RequestType, AppRequestType

LEMMA InitWrapper == WrapperInit => WrapperInv
<1> SUFFICES ASSUME WrapperInit PROVE WrapperInv
  OBVIOUS
<1>1. IInv
  BY InitIInv DEF WrapperInit
<1>2. /\ call \in [Channels -> AppRequests \cup {NoCall}]
      /\ answer \in [Channels -> Outcomes \cup {"40400"}]
      /\ \A q \in Channels : call[q] = NoCall /\ answer[q] = "none"
  BY DEF WrapperInit, Outcomes
<1> QED
  BY <1>1, <1>2 DEF WrapperInv, CallInv

-----------------------------------------------------------------------------
(***************************************************************************)
(* The router behind the wrapper                                           *)
(***************************************************************************)

\* The router changes no request, starts none and reopens none.
LEMMA RouterKeepsRequests ==
  ASSUME IInv, RouterStep, NEW q \in Channels
  PROVE  /\ request'[q] = request[q]
         /\ pc[q] = "idle" <=> pc'[q] = "idle"
         /\ pc[q] = "over" => pc'[q] = "over" /\ outcome'[q] = outcome[q]
<1>1. CASE \E r \in Reports :
             ReportHTTPAPI(r) \/ BeginAdd(r) \/ EndAdd(r) \/ AckReport(r)
  BY <1>1 DEF ReportHTTPAPI, BeginAdd, EndAdd, AckReport, requestVars
<1>2. ASSUME NEW x \in Channels, GetAPIInfoByPath(x) \/ Direct(x) \/ RoundTrip(x)
      PROVE  /\ request' = request
             /\ pc[x] \in {"routing", "found", "passed"}
             /\ pc'[x] \in {"found", "passed", "over"}
             /\ \A y \in Channels \ {x} : UNCHANGED <<pc[y], outcome[y]>>
  <2>1. CASE GetAPIInfoByPath(x)
    BY <2>1 DEF GetAPIInfoByPath, Ends, IInv, TypeOK
  <2>2. CASE Direct(x)
    BY <2>2 DEF Direct, Ends, IInv, TypeOK
  <2>3. CASE RoundTrip(x)
    BY <2>3 DEF RoundTrip, Ends, IInv, TypeOK
  <2> QED
    BY <1>2, <2>1, <2>2, <2>3
<1>3. ASSUME NEW x \in Channels, GetAPIInfoByPath(x) \/ Direct(x) \/ RoundTrip(x)
      PROVE  /\ request'[q] = request[q]
             /\ pc[q] = "idle" <=> pc'[q] = "idle"
             /\ pc[q] = "over" => pc'[q] = "over" /\ outcome'[q] = outcome[q]
  BY <1>2, <1>3
<1>4. CASE MapFault
  BY <1>4 DEF MapFault, requestVars
<1> QED
  BY <1>1, <1>3, <1>4 DEF RouterStep

\* A step after which each channel has the call, answer and request it had, and
\* is still where it was or further on.
LEMMA CallsKept ==
  ASSUME WrapperInv, IInv', UNCHANGED <<call, answer>>,
         \A q \in Channels :
           call[q] # NoCall =>
             /\ request'[q] = request[q]
             /\ pc[q] = "idle" <=> pc'[q] = "idle"
             /\ pc[q] = "over" => pc'[q] = "over" /\ outcome'[q] = outcome[q]
  PROVE  WrapperInv'
<1>1. ASSUME NEW q \in Channels PROVE CallInv(q)'
  BY DEF WrapperInv, CallInv
<1> QED
  BY <1>1 DEF WrapperInv

LEMMA BehindWrapper ==
  ASSUME WrapperInv, RouterStep, UNCHANGED <<call, answer>> PROVE WrapperInv'
BY RouterStepIInv, RouterKeepsRequests, CallsKept DEF WrapperInv

LEMMA DirectRequestStep ==
  ASSUME WrapperInv, NEW q \in Channels, DirectRequest(q) PROVE WrapperInv'
<1>1. PICK r \in Requests : HandleRequest(q, r)
  BY DEF DirectRequest
<1>2. IInv'
  BY <1>1, HandleRequestStep, RouterAssumption DEF WrapperInv
<1>3. call[q] = NoCall /\ UNCHANGED <<call, answer>>
  BY DEF DirectRequest
<1>4. \A x \in Channels \ {q} : UNCHANGED <<request[x], pc[x], outcome[x]>>
  BY <1>1 DEF HandleRequest, Ends, WrapperInv, IInv, TypeOK
<1> QED
  BY <1>2, <1>3, <1>4, CallsKept

-----------------------------------------------------------------------------
(***************************************************************************)
(* The steps of the wrapper                                                *)
(***************************************************************************)

LEMMA WrapperHandlesStep ==
  ASSUME WrapperInv, NEW q \in Channels, WrapperHandles(q) PROVE WrapperInv'
<1>1. PICK a \in AppRequests :
        /\ call' = [call EXCEPT ![q] = a]
        /\ \/ /\ a.deploy \notin DeployInfos
              /\ answer' = [answer EXCEPT ![q] = "40400"]
           \/ /\ a.deploy \in DeployInfos
              /\ UNCHANGED answer
  BY DEF WrapperHandles
<1>2. pc[q] = "idle" /\ call[q] = NoCall /\ UNCHANGED vars
  BY DEF WrapperHandles
<1>3. IInv' /\ UNCHANGED <<request, pc, outcome>>
  BY <1>2, StutterIInv DEF WrapperInv, vars, requestVars
<1>4. /\ call' \in [Channels -> AppRequests \cup {NoCall}]
      /\ answer' \in [Channels -> Outcomes \cup {"40400"}]
  BY <1>1 DEF WrapperInv
<1>5. answer[q] = "none"
  BY <1>2 DEF WrapperInv, CallInv
<1>6. ASSUME NEW x \in Channels PROVE CallInv(x)'
  <2>1. CASE x = q
    <3>1. call'[q] = a /\ a # NoCall
      BY <1>1, WrapperAssumption DEF WrapperInv
    <3>2. answer'[q] = IF a.deploy \in DeployInfos THEN "none" ELSE "40400"
      BY <1>1, <1>5 DEF WrapperInv
    <3> QED
      BY <1>2, <1>3, <2>1, <3>1, <3>2 DEF CallInv
  <2>2. CASE x # q
    BY <1>1, <1>3, <2>2 DEF WrapperInv, CallInv
  <2> QED
    BY <2>1, <2>2
<1> QED
  BY <1>3, <1>4, <1>6 DEF WrapperInv

LEMMA SendsStep ==
  ASSUME WrapperInv, NEW q \in Channels, Sends(q) PROVE WrapperInv'
<1>1. /\ call[q] \in AppRequests /\ call[q] # NoCall /\ answer[q] = "none"
      /\ HandleRequest(q, Wrapped(call[q]))
      /\ UNCHANGED <<call, answer>>
  BY DEF Sends, Waiting, WrapperInv
<1>2. IInv'
  BY <1>1, WrappedType, HandleRequestStep DEF WrapperInv
<1>3. /\ request'[q] = Wrapped(call[q])
      /\ \A x \in Channels \ {q} : UNCHANGED <<request[x], pc[x], outcome[x]>>
  BY <1>1 DEF HandleRequest, Ends, WrapperInv, IInv, TypeOK
<1>4. ASSUME NEW x \in Channels PROVE CallInv(x)'
  <2>1. CASE x = q
    BY <1>1, <1>3, <2>1 DEF WrapperInv, CallInv
  <2>2. CASE x # q
    <3>1. UNCHANGED <<request[x], pc[x], outcome[x]>>
      BY <1>3, <2>2
    <3> QED
      BY <1>1, <3>1 DEF WrapperInv, CallInv
  <2> QED
    BY <2>1, <2>2
<1> QED
  BY <1>1, <1>2, <1>4 DEF WrapperInv

\* The answer is what became of the request, or 502.
LEMMA AnswerStep ==
  ASSUME WrapperInv, NEW q \in Channels, Returns(q) \/ TransportFails(q)
  PROVE  WrapperInv'
<1>1. PICK w \in Outcomes :
        /\ \/ w = "502"
           \/ pc[q] = "over" /\ w = outcome[q]
        /\ answer' = [answer EXCEPT ![q] = w]
  <2>1. outcome[q] \in Outcomes /\ "502" \in Outcomes
    BY DEF WrapperInv, IInv, TypeOK, Outcomes
  <2> QED
    BY <2>1 DEF Returns, TransportFails
<1>2. /\ call[q] # NoCall /\ answer[q] = "none"
      /\ UNCHANGED <<vars, call>>
  BY DEF Returns, TransportFails, Waiting
<1>3. IInv' /\ UNCHANGED <<request, pc, outcome>>
  BY <1>2, StutterIInv DEF WrapperInv, vars, requestVars
<1>4. answer' \in [Channels -> Outcomes \cup {"40400"}]
  BY <1>1 DEF WrapperInv
<1>5. ASSUME NEW x \in Channels PROVE CallInv(x)'
  <2>1. CASE x = q
    BY <1>1, <1>2, <1>3, <2>1 DEF WrapperInv, CallInv
  <2>2. CASE x # q
    BY <1>1, <1>2, <1>3, <2>2 DEF WrapperInv, CallInv
  <2> QED
    BY <2>1, <2>2
<1> QED
  BY <1>2, <1>3, <1>4, <1>5 DEF WrapperInv

-----------------------------------------------------------------------------
(***************************************************************************)
(* The theorems                                                            *)
(***************************************************************************)

LEMMA WrapperStep == WrapperInv /\ [WrapperNext]_wrapperVars => WrapperInv'
<1>1. ASSUME WrapperInv, UNCHANGED wrapperVars PROVE WrapperInv'
  <2>1. IInv' /\ UNCHANGED <<request, pc, outcome, call, answer>>
    BY <1>1, StutterIInv DEF WrapperInv, wrapperVars, vars, requestVars
  <2> QED
    BY <1>1, <2>1, CallsKept
<1> QED
  BY <1>1, WrapperHandlesStep, SendsStep, AnswerStep, DirectRequestStep,
     BehindWrapper
  DEF WrapperNext

LEMMA WrapperInvHolds == WrapperSpec => []WrapperInv
BY InitWrapper, WrapperStep, PTL DEF WrapperSpec

LEMMA WrapperAnswersTell == WrapperInv => AnswerTells
<1> SUFFICES ASSUME WrapperInv, NEW q \in Channels,
                    call[q] # NoCall, answer[q] # "none"
             PROVE  LET a == call[q]
                        api == <<a.service>> \o a.path
                    IN  /\ answer[q] = "40400" <=> a.deploy \notin DeployInfos
                        /\ answer[q] = "40400" => pc[q] = "idle"
                        /\ answer[q] = "40402" =>
                             api \notin knownAt[q] \/ q \in raced
                        /\ answer[q] \in {"40403", "40300", "40003"} =>
                             ~Permits(found[q], Wrapped(a))
                        /\ pc[q] = "over" /\ Permits(found[q], Wrapped(a)) =>
                             answer[q] = "502"
                        /\ answer[q] \notin {"40001", "forwarded"}
  BY DEF AnswerTells
<1> DEFINE a == call[q]
           r == Wrapped(a)
<1>1. /\ r.path = <<a.service>> \o a.path
      /\ r.target # "noDeploy" /\ ~r.absolute /\ r.named
  BY DEF Wrapped
<1>2. outcome[q] \in Outcomes /\ RequestInv(q) /\ KnownInv(q) /\ CallInv(q)
  BY DEF WrapperInv, IInv, TypeOK
<1>3. CASE a.deploy \notin DeployInfos
  BY <1>2, <1>3 DEF CallInv
<1>4. CASE a.deploy \in DeployInfos
  <2>1. \/ answer[q] = "502"
        \/ pc[q] = "over" /\ answer[q] = outcome[q]
    BY <1>2, <1>4 DEF CallInv
  <2>2. CASE pc[q] = "over"
    <3>1. request[q] = r
      BY <1>2, <2>2 DEF CallInv
    <3>2. /\ outcome[q] # "40001" /\ outcome[q] # "forwarded"
          /\ outcome[q] # "unreachable"
          /\ outcome[q] \in Outcomes \ {"none", "forwarded", "unreachable",
                                        "502"} => ~Permits(found[q], r)
          /\ outcome[q] # "none"
          /\ outcome[q] = "40402" => r.path \notin knownAt[q] \/ q \in raced
      BY <1>1, <1>2, <2>2, <3>1 DEF RequestInv, KnownInv
    <3> QED
      BY <1>1, <1>2, <1>4, <2>1, <2>2, <3>2 DEF Outcomes
  <2>3. CASE pc[q] # "over"
    BY <1>4, <2>1, <2>3
  <2> QED
    BY <2>2, <2>3
<1> QED
  BY <1>3, <1>4

\* What an application is answered tells it what was decided about its request,
\* for any deployments, services, reports and other requests.
THEOREM AnswersTell == WrapperSpec => []AnswerTells
BY WrapperInvHolds, WrapperAnswersTell, PTL

\* The properties of the router hold behind the wrapper too.
THEOREM RouterBehindWrapper ==
  WrapperSpec => [](/\ TypeOK /\ RoutedAsReported /\ NoFalse404
                    /\ AckedIsInForce /\ NotSuperseded)
<1>1. WrapperInv => /\ TypeOK /\ RoutedAsReported /\ NoFalse404
                    /\ AckedIsInForce /\ NotSuperseded
  BY IInvImplies DEF WrapperInv
<1> QED
  BY <1>1, WrapperInvHolds, PTL

=============================================================================
