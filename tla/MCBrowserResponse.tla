------------------------- MODULE MCBrowserResponse -------------------------
(***************************************************************************)
(* An instance of BrowserResponse for TLC.  The headers, certificates and  *)
(* refusals of a call are looked at in MCCallers: here a call goes over    *)
(* the websocket, has a scheme for which there is no tunnel, or ends the   *)
(* process of its sidecar.                                                 *)
(***************************************************************************)
EXTENDS BrowserResponse, TLC

OneDeploy == "hdu" :> "host"
OneService == {"company"}

SomeInputs ==
  [sidecar : {<<"host", "company">>}, valid : {TRUE}, tunnel : {"ws", "other"},
   headers : {NoHeaders}, peer : {"user"}]
  \cup [sidecar : {<<"host", "company">>}, valid : {TRUE}, tunnel : {"http"},
        headers : {[identity |-> "cert-rpc", from |-> NoPeer]},
        peer : {NoPeer}]

=============================================================================
