------------------------------ MODULE MCCallers ------------------------------
(***************************************************************************)
(* An instance of Callers for TLC: one known and one unknown deployment,   *)
(* and headers that say nothing, claim to be somebody else's, or are of a  *)
(* type HandleIdentity does not know.                                      *)
(***************************************************************************)
EXTENDS Callers, TLC

OneDeploy == "hdu" :> "host"
TwoServices == {"company", "storage"}

SentHeaders ==
  {[identity |-> "", from |-> NoPeer],
   [identity |-> "cert-student", from |-> "somebody"],
   [identity |-> "cert-rpc", from |-> "somebody"]}

\* A request that is refused, or goes over HTTP, differs in nothing but that.
SomeWrapInputs ==
  [deploy : {"hdu"}, service : {"storage"}, valid : {TRUE}, tunnel : {"ws"},
   headers : {h \in SentHeaders : h.identity = "cert-student"}]
  \cup [deploy : {"hdu"}, service : {"storage"}, valid : BOOLEAN,
        tunnel : {"http"}, headers : {NoHeaders}]
  \cup [deploy : {"unknown"}, service : {"storage"}, valid : {TRUE},
        tunnel : {"http"}, headers : {NoHeaders}]

\* A certificate that names nobody matters to cert-rpc only.
SomeBrowserInputs ==
  [sidecar : {<<"host", "company">>}, valid : {TRUE}, tunnel : {"ws"},
   headers : SentHeaders, peer : {"user"}]
  \cup [sidecar : {<<"host", "company">>}, valid : {TRUE},
        tunnel : {"ws", "http"},
        headers : {h \in SentHeaders : h.identity = "cert-rpc"},
        peer : {NoPeer}]
  \cup [sidecar : {<<"host", "company">>}, valid : BOOLEAN, tunnel : {"other"},
        headers : {NoHeaders}, peer : {"user"}]

=============================================================================
