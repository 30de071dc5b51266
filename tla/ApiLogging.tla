----------------------------- MODULE ApiLogging -----------------------------
(***************************************************************************)
(* One HTTP request in the logging middleware                              *)
(* (services/api/app/middleware/api_logging.py): it wraps receive and send *)
(* of the application, limits the size of the request body, keeps previews *)
(* of both bodies, writes a record of the call and answers for an          *)
(* application that raises before it has answered.                         *)
(*                                                                         *)
(* The application is any that keeps to ASGI: it reads as much as it wants *)
(* and sends one response in pieces, it may raise at any moment, and it    *)
(* may handle what receive or send raises and go on.  (The framework turns *)
(* an error of receive in the body of a route into an answer of its own.)  *)
(***************************************************************************)
EXTENDS Naturals, Sequences

CONSTANTS
  Limits,           \* max_request_size_bytes; 0: no limit
  RequestPreview,   \* max_request_body_bytes
  ResponsePreview,  \* max_response_body_bytes
  Sizes,            \* the sizes of a piece of a body
  Statuses,         \* the statuses the application answers with
  MaxBody           \* bound on the size of a body

ASSUME SizesAssumption == Limits \union Sizes \union {RequestPreview, ResponsePreview, MaxBody} \subseteq Nat
ASSUME StatusesAssumption == Statuses \subseteq Nat \ {0, 413, 500}

VARIABLES
  skipped,   \* the path is one of skip_paths
  limit,     \* max_request_size_bytes of this server
  client,    \* what the client does
  app,       \* what the application has done
  call,      \* where __call__ is, and its variables
  wire,      \* what the client was sent
  log        \* the records written

vars == <<skipped, limit, client, app, call, wire, log>>

-----------------------------------------------------------------------------

\* sent: the whole request body has been read.  gone: the connection is closed.
Client == [sent : BOOLEAN, gone : BOOLEAN]

\* step: how far its response is.  error: what receive or send raised in it last.
\* read: how much of the request body it was handed.
App == [step : {"none", "started", "complete"}, error : {"none", "too_large", "other"}, read : Nat]

\* at: awaiting the application; about to send the start, then the body, of an answer of its
\* own; returned; raised to the server.
Call == [at : {"app", "start", "body", "returned", "raised"},
         request_body_len : Nat, request_preview : Nat,
         response_started : BOOLEAN, status_code : Nat,
         response_body_len : Nat, response_preview : Nat]

\* starts: how many responses were started.  garbled: a message was out of place.
Wire == [starts : Nat, status : Nat, len : Nat, complete : BOOLEAN, garbled : BOOLEAN]

\* A record "too_large" does not say whether the body was cut: request_cut means nothing
\* there.  The response belongs to "api_call".
Entry == [kind : {"api_call", "too_large", "unhandled_error"}, status : Nat, request_len : Nat,
          request_cut : BOOLEAN, response_len : Nat, response_cut : BOOLEAN]

Lesser(a, b) == IF a < b THEN a ELSE b

-----------------------------------------------------------------------------

Init ==
  /\ skipped \in BOOLEAN
  /\ limit \in Limits
  /\ client = [sent |-> FALSE, gone |-> FALSE]
  /\ app = [step |-> "none", error |-> "none", read |-> 0]
  /\ call = [at |-> "app", request_body_len |-> 0, request_preview |-> 0,
             response_started |-> FALSE, status_code |-> 0,
             response_body_len |-> 0, response_preview |-> 0]
  /\ wire = [starts |-> 0, status |-> 0, len |-> 0, complete |-> FALSE, garbled |-> FALSE]
  /\ log = <<>>

\* The client closes the connection.
Disconnect ==
  /\ ~client.gone /\ call.at \notin {"returned", "raised"}
  /\ client' = [client EXCEPT !.gone = TRUE]
  /\ UNCHANGED <<skipped, limit, app, call, wire, log>>

-----------------------------------------------------------------------------
(* What reaches the client.  A message to a closed connection is dropped, or *)
(* sending it raises.                                                        *)

StartReaches(status) ==
  wire' = [wire EXCEPT !.starts = @ + 1, !.status = status,
                       !.garbled = @ \/ wire.starts > 0]

BodyReaches(n, more) ==
  wire' = [wire EXCEPT !.len = @ + n, !.complete = ~more,
                       !.garbled = @ \/ wire.starts = 0 \/ wire.complete]

\* Either the message arrives and nothing is raised, or the connection is closed.
Sends(message, raised) ==
  \/ ~client.gone /\ message /\ ~raised
  \/ client.gone /\ UNCHANGED wire

-----------------------------------------------------------------------------
(* receive_wrapper and send_wrapper, called by the application.              *)

Running == call.at = "app" /\ app.error = "none"

\* Mutant: the size is checked before the piece is counted.
TooLarge_before(len, n) == limit > 0 /\ len > limit

\* The size after a piece of n bytes exceeds the limit.
TooLarge(len, n) == limit > 0 /\ len + n > limit

\* A piece of the request body is counted, kept in the preview, and handed on unless the body
\* is now too large.
receive_wrapper(n) ==
  /\ Running /\ ~client.gone /\ ~client.sent
  /\ app.step # "complete"
  /\ call.request_body_len + n <= MaxBody /\ app.read + n <= MaxBody
  /\ \E last \in BOOLEAN : client' = [client EXCEPT !.sent = last]
  /\ IF skipped
     THEN app' = [app EXCEPT !.read = @ + n] /\ UNCHANGED call
     ELSE /\ call' = [call EXCEPT
               !.request_body_len = @ + n,
               !.request_preview = IF n > 0 /\ @ < RequestPreview THEN Lesser(@ + n, RequestPreview) ELSE @]
          /\ app' = IF TooLarge(call.request_body_len, n) THEN [app EXCEPT !.error = "too_large"]
                    ELSE [app EXCEPT !.read = @ + n]
  /\ UNCHANGED <<skipped, limit, wire, log>>

Record(kind) ==
  [kind |-> kind, status |-> call.status_code,
   request_len |-> call.request_body_len,
   request_cut |-> call.request_body_len > call.request_preview,
   response_len |-> call.response_body_len,
   response_cut |-> call.response_body_len > call.response_preview]

\* Mutant: only the status of the response is noted.
Started_unnoted(status) == [call EXCEPT !.status_code = status]

\* The start is noted before it is passed on.
Started(status) == [call EXCEPT !.response_started = TRUE, !.status_code = status]

send_start(status) ==
  /\ Running /\ app.step = "none"
  /\ call' = IF skipped THEN call ELSE Started(status)
  /\ \E raised \in BOOLEAN :
       /\ Sends(StartReaches(status), raised)
       /\ app' = [app EXCEPT !.step = "started", !.error = IF raised THEN "other" ELSE "none"]
  /\ UNCHANGED <<skipped, limit, client, log>>

\* Mutant: the piece that ends the body is not kept.
Counted_without_last(n, more) ==
  [call EXCEPT !.response_body_len = @ + n,
               !.response_preview = IF more THEN Lesser(@ + n, ResponsePreview) ELSE @]

\* Mutant: a piece is kept whole as long as the preview is not full.
Counted_whole(n, more) ==
  [call EXCEPT !.response_body_len = @ + n,
               !.response_preview = IF @ < ResponsePreview THEN @ + n ELSE @]

\* A piece of the response body is counted and kept in the preview.
Counted(n, more) ==
  [call EXCEPT !.response_body_len = @ + n,
               !.response_preview = IF @ < ResponsePreview THEN Lesser(@ + n, ResponsePreview) ELSE @]

\* The record of the call is written when the last piece is about to be sent.
send_body(n, more) ==
  /\ Running /\ app.step = "started"
  /\ call.response_body_len + n <= MaxBody /\ wire.len + n <= MaxBody
  /\ call' = IF skipped THEN call ELSE Counted(n, more)
  /\ log' = IF skipped \/ more THEN log
            ELSE Append(log, [Record("api_call") EXCEPT
                                !.response_len = call'.response_body_len,
                                !.response_cut = call'.response_body_len > call'.response_preview])
  /\ \E raised \in BOOLEAN :
       /\ Sends(BodyReaches(n, more), raised)
       /\ app' = [app EXCEPT !.step = IF more THEN "started" ELSE "complete",
                             !.error = IF raised THEN "other" ELSE "none"]
  /\ UNCHANGED <<skipped, limit, client>>

-----------------------------------------------------------------------------
(* The application.                                                          *)

\* It handles what receive or send raised.
Handle ==
  /\ call.at = "app" /\ app.error # "none"
  /\ app' = [app EXCEPT !.error = "none"]
  /\ UNCHANGED <<skipped, limit, client, call, wire, log>>

\* It returns after its response, or because the client has left.
Return ==
  /\ Running
  /\ app.step = "complete" \/ client.gone
  /\ call' = [call EXCEPT !.at = "returned"]
  /\ UNCHANGED <<skipped, limit, client, app, wire, log>>

\* Once a response has started nothing can be put in its place.
AfterError == IF call.response_started THEN "raised" ELSE "start"

\* The error of receive_wrapper comes out of the application.
RequestTooLarge ==
  /\ call.at = "app" /\ app.error = "too_large"
  /\ log' = Append(log, Record("too_large"))
  /\ call' = [call EXCEPT !.at = AfterError]
  /\ UNCHANGED <<skipped, limit, client, app, wire>>

\* Another error comes out of it: its own, at any moment, or one of send.
Raise ==
  /\ call.at = "app" /\ app.error # "too_large"
  /\ IF skipped
     THEN call' = [call EXCEPT !.at = "raised"] /\ UNCHANGED log
     ELSE /\ log' = Append(log, Record("unhandled_error"))
          /\ call' = [call EXCEPT !.at = AfterError]
  /\ app' = [app EXCEPT !.error = "other"]
  /\ UNCHANGED <<skipped, limit, client, wire>>

-----------------------------------------------------------------------------
(* The answers of the middleware, which do not go through send_wrapper.      *)

Answer == IF app.error = "too_large" THEN 413 ELSE 500

AnswerStart ==
  /\ call.at = "start"
  /\ \E raised \in BOOLEAN :
       /\ Sends(StartReaches(Answer), raised)
       /\ call' = [call EXCEPT !.at = IF raised THEN "raised" ELSE "body"]
  /\ UNCHANGED <<skipped, limit, client, app, log>>

AnswerBody ==
  /\ call.at = "body"
  /\ \E raised \in BOOLEAN :
       /\ Sends(BodyReaches(1, FALSE), raised)
       /\ call' = [call EXCEPT !.at = IF raised THEN "raised" ELSE "returned"]
  /\ UNCHANGED <<skipped, limit, client, app, log>>

-----------------------------------------------------------------------------

Next ==
  \/ Disconnect
  \/ \E n \in Sizes : receive_wrapper(n)
  \/ \E status \in Statuses : send_start(status)
  \/ \E n \in Sizes, more \in BOOLEAN : send_body(n, more)
  \/ Handle \/ Return \/ RequestTooLarge \/ Raise
  \/ AnswerStart \/ AnswerBody

Spec == Init /\ [][Next]_vars

-----------------------------------------------------------------------------
(* Properties.                                                               *)

\* Every variable has its type, and the previews stay within their bounds.
TypeOK ==
  /\ skipped \in BOOLEAN /\ limit \in Limits
  /\ client \in Client /\ app \in App /\ call \in Call /\ wire \in Wire
  /\ log \in Seq(Entry)
  /\ call.request_preview <= RequestPreview /\ call.response_preview <= ResponsePreview

\* Whatever the application raises, handles or leaves half done, and whenever the client
\* leaves: no second response is started, no body goes out of place, and a call that
\* returns to a client that is still there has sent a whole response.
OneResponse ==
  /\ wire.starts <= 1 /\ ~wire.garbled
  /\ call.at = "returned" /\ ~client.gone => wire.complete

\* The application is never handed more than the limit, even if it handles the error and
\* reads on.
ReadWithinLimit == limit > 0 /\ ~skipped => app.read <= limit

Calls == {n \in DOMAIN log : log[n].kind = "api_call"}

\* The log agrees with the wire.  A call whose client stays has a record; a whole response
\* of the application has exactly one, with the status and the length the client got; the
\* answer 413 has one that says so; and a record that keeps a body marks it as cut just
\* when it is longer than what is kept of it.
LogAgreesWithWire ==
  /\ call.at \in {"returned", "raised"} /\ ~client.gone /\ ~skipped => log # <<>>
  /\ IF app.step = "complete" /\ ~skipped THEN \E n \in Calls : Calls = {n} ELSE Calls = {}
  /\ \A n \in Calls :
       /\ ~client.gone => log[n].status = wire.status /\ log[n].response_len = wire.len
       /\ log[n].response_cut = (log[n].response_len > ResponsePreview)
  /\ \A n \in DOMAIN log :
       log[n].kind # "too_large" => log[n].request_cut = (log[n].request_len > RequestPreview)
  /\ wire.status = 413 => \E n \in DOMAIN log : log[n].kind = "too_large" /\ log[n].request_len > limit
=============================================================================
