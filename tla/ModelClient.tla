---------------------------- MODULE ModelClient ----------------------------
(***************************************************************************)
(* One request to the model service (llm_client.py).  A request with tools *)
(* ("chat") is streamed and regenerated as a whole; a request for a JSON   *)
(* object ("json") is opened with the same retries, which start over each  *)
(* time the answer cannot be parsed.  What the service answers is open.    *)
(***************************************************************************)
EXTENDS Naturals

CONSTANTS
  STATUS_RETRIES,     \* retries after a transient HTTP status
  CONNECTION_RETRIES, \* retries after a failed connection
  JSON_RETRIES        \* retries after an answer that is not an object

VARIABLE call  \* the request

Call == [phase : {"idle", "sent", "answered", "rejected", "failed"},
         how : {"chat", "json"},
         status : 0..STATUS_RETRIES,
         connection : 0..CONNECTION_RETRIES,
         parse : 0..JSON_RETRIES]

NoCall == [phase |-> "idle", how |-> "chat",
           status |-> 0, connection |-> 0, parse |-> 0]

\* Only services of the openai format are asked with tools; for the others
\* the tools are described in a request for an object.
Protocol(tools, format) ==
  IF tools /\ format = "openai" THEN "chat" ELSE "json"

Send(tools, format) ==
  call' = [NoCall EXCEPT !.phase = "sent", !.how = Protocol(tools, format)]

Sent == call.phase = "sent"
End(p) == call' = [NoCall EXCEPT !.phase = p, !.how = call.how]

\* 429, 500, 502, ...: wait and open the request again.
TransientStatus ==
  /\ Sent
  /\ IF call.status < STATUS_RETRIES
       THEN call' = [call EXCEPT !.status = @ + 1]
       ELSE End("failed")

\* No connection, a timeout; for a streamed answer a broken stream too.
NoConnection ==
  /\ Sent
  /\ IF call.connection < CONNECTION_RETRIES
       THEN call' = [call EXCEPT !.connection = @ + 1]
       ELSE End("failed")

\* 400, 404 and 422 mean that the service knows no tools.
ToolsRejected ==
  /\ Sent /\ call.how = "chat"
  /\ End("rejected")

\* Any other status, or a JSON answer that ends while it is read.
HardFailure ==
  /\ Sent
  /\ End("failed")

(* Mutant: an unparsable answer is asked for again without counting. *)
NotJsonUncounted ==
  /\ Sent /\ call.how = "json"
  /\ call' = [call EXCEPT !.status = 0, !.connection = 0]

\* The answer holds no object: the request is made again from scratch.
NotJson ==
  /\ Sent /\ call.how = "json"
  /\ IF call.parse < JSON_RETRIES
       THEN call' = [call EXCEPT !.parse = @ + 1,
                                 !.status = 0, !.connection = 0]
       ELSE End("failed")

Answered ==
  /\ Sent
  /\ End("answered")

ClientStep ==
  TransientStatus \/ NoConnection \/ HardFailure \/ NotJson \/ Answered
=============================================================================
