-------------------------- MODULE BrowserResponse --------------------------
(***************************************************************************)
(* What a page does with the response its promise was resolved with        *)
(* (wrapHttpResponse of cmd/wasm/main.go): text(), json() and              *)
(* arrayBuffer() each start a promise of their own, whose goroutine reads  *)
(* the body of the response to its end (wasm/body_reader.go).  All of them *)
(* read the same body, from where the last one left it.                    *)
(*                                                                         *)
(* The goroutines of a page run one at a time, and the body is in memory,  *)
(* so a goroutine that reads it is not interrupted.                        *)
(***************************************************************************)
EXTENDS Callers, Naturals, FiniteSets

CONSTANTS
  Readers,  \* the calls of text(), json() and arrayBuffer(), on any response
  Bodies    \* the bodies of responses: see BodyKinds

\* A JSON object, other text, nothing.
BodyKinds == {"object", "text", ""}
Methods   == {"text", "json", "arrayBuffer"}

ASSUME ResponseAssumption == IsFiniteSet(Readers) /\ Bodies \subseteq BodyKinds

VARIABLES
  body,      \* what each response came with
  unread,    \* what is still to be read of it
  reads,     \* the response and the method of each reader
  promise,   \* of each reader: "none", "spawned", "resolved", "rejected"
  value      \* what it was resolved with

readerVars   == <<reads, promise, value>>
bodyVars     == <<body, unread, readerVars>>
responseVars == <<vars, bodyVars>>

NoRead == [call |-> NoInput, method |-> "text"]

ResponseInit ==
  /\ Init
  /\ body = [c \in BrowserCalls |-> ""]
  /\ unread = [c \in BrowserCalls |-> ""]
  /\ reads = [r \in Readers |-> NoRead]
  /\ promise = [r \in Readers |-> "none"]
  /\ value = [r \in Readers |-> ""]

\* A call settles; when it is resolved, with a response.
WrapHttpResponse(c) ==
  /\ Settle(c)
  /\ \/ /\ result'[c] = "resolved"
        /\ \E b \in Bodies : /\ body' = [body EXCEPT ![c] = b]
                             /\ unread' = [unread EXCEPT ![c] = b]
     \/ /\ result'[c] # "resolved"
        /\ UNCHANGED <<body, unread>>
  /\ UNCHANGED readerVars

\* The page calls a method of a response.
CallReader(r) ==
  /\ ~exited
  /\ promise[r] = "none"
  /\ promise' = [promise EXCEPT ![r] = "spawned"]
  /\ \E c \in BrowserCalls, m \in Methods :
       /\ result[c] = "resolved"
       /\ reads' = [reads EXCEPT ![r] = [call |-> c, method |-> m]]
  /\ UNCHANGED <<vars, body, unread, value>>

\* Mutant: the body is there again for the next reader.
ReadRewinds(r) ==
  LET c == reads[r].call
  IN  /\ ~exited
      /\ promise[r] = "spawned"
      /\ promise' = [promise EXCEPT ![r] =
           IF reads[r].method = "json" /\ unread[c] # "object"
           THEN "rejected" ELSE "resolved"]
      /\ value' = [value EXCEPT ![r] = unread[c]]
      /\ UNCHANGED <<vars, body, unread, reads>>

\* ReadAndClose, which does not close, and the end of the promise: json() is
\* rejected unless what it read is an object.
Read(r) ==
  LET c == reads[r].call
  IN  /\ ~exited
      /\ promise[r] = "spawned"
      /\ unread' = [unread EXCEPT ![c] = ""]
      /\ \/ /\ reads[r].method = "json" /\ unread[c] # "object"
            /\ promise' = [promise EXCEPT ![r] = "rejected"]
            /\ UNCHANGED value
         \/ /\ reads[r].method = "json" => unread[c] = "object"
            /\ promise' = [promise EXCEPT ![r] = "resolved"]
            /\ value' = [value EXCEPT ![r] = unread[c]]
      /\ UNCHANGED <<vars, body, reads>>

\* The calls of the page, as in Callers, where Settle has become
\* WrapHttpResponse.  There are no calls of /wrap in its program.
PageStep ==
  \/ \E c \in BrowserCalls : \/ TLSRequest(c) \/ RunPromise(c) \/ Connects(c)
                            \/ DoTransfer(c) \/ TransferPanics(c)
                            \/ TunnelAnswers(c) \/ TunnelFails(c)
  \/ \E s \in Sidecars : Restarts(s)

ResponseNext ==
  \/ PageStep /\ UNCHANGED bodyVars
  \/ \E c \in BrowserCalls : WrapHttpResponse(c)
  \/ \E r \in Readers : CallReader(r) \/ Read(r)

ResponseSpec == ResponseInit /\ [][ResponseNext]_responseVars

-----------------------------------------------------------------------------
(***************************************************************************)
(* Properties                                                              *)
(***************************************************************************)
ReadersOf(c, outcomes) ==
  {r \in Readers : reads[r].call = c /\ promise[r] \in outcomes}

\* Of the readers of a response one gets its body, whichever goroutine runs
\* first, and it gets all of it; every other is resolved with nothing, or
\* rejected for want of JSON.  A json() that is rejected was too late, came to a
\* body that is no object, or both.
BodyGoesToOne ==
  \A c \in BrowserCalls :
    LET over == ReadersOf(c, {"resolved", "rejected"})
    IN  /\ \A r \in over : value[r] \in {"", body[c]}
        /\ Cardinality({r \in over : value[r] # ""}) =< 1
        /\ body[c] = "object" /\ over # {} => \E r \in over : value[r] = "object"
        /\ unread[c] # body[c] => over # {}

=============================================================================
