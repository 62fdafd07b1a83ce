----------------------------- MODULE RemoteCall -----------------------------
(***************************************************************************)
(* What a tunnel promises its callers, whatever carries it: NewHttpClient  *)
(* (http_handler/http_client.go) and NewWSClient (ws_handler/ws_client.go) *)
(* send one request to a DoTransfer (transfer.go) of the remote sidecar,   *)
(* which has its backend service execute it.                               *)
(*   - a request is executed at most once, and no DoTransfer executes two; *)
(*   - a call that is answered was executed;                               *)
(*   - a call that failed may have been executed, or may yet be.           *)
(***************************************************************************)
CONSTANTS
  Calls,   \* the calls of the clients
  Servers  \* the runs of DoTransfer

VARIABLES
  executedBy,  \* the runs of DoTransfer that had a call executed
  outcome      \* of a call: "active", then "done" or "failed"

vars == <<executedBy, outcome>>

Init ==
  /\ executedBy = [c \in Calls |-> {}]
  /\ outcome = [c \in Calls |-> "active"]

Execute(c, s) ==
  /\ executedBy[c] = {}
  /\ \A d \in Calls : s \notin executedBy[d]
  /\ executedBy' = [executedBy EXCEPT ![c] = {s}]
  /\ UNCHANGED outcome

Answer(c) ==
  /\ outcome[c] = "active"
  /\ executedBy[c] # {}
  /\ outcome' = [outcome EXCEPT ![c] = "done"]
  /\ UNCHANGED executedBy

Fail(c) ==
  /\ outcome[c] = "active"
  /\ outcome' = [outcome EXCEPT ![c] = "failed"]
  /\ UNCHANGED executedBy

Next ==
  \E c \in Calls :
    \/ \E s \in Servers : Execute(c, s)
    \/ Answer(c)
    \/ Fail(c)

Spec == Init /\ [][Next]_vars

=============================================================================
