-------------------------- MODULE ApiLoggingProofs --------------------------
(***************************************************************************)
(* Proofs about ApiLogging, for every limit, every size of a preview and   *)
(* bodies of every size.                                                   *)
(*                                                                         *)
(* The argument.  An answer of the middleware is on its way only where the *)
(* application has not started one (PlaceInv), so what the client has seen *)
(* of a response can be told from where the two of them are, as long as    *)
(* the client is there to see it (WireInv).  What the application was      *)
(* handed is no more than what was counted, and a piece that takes the     *)
(* count over the limit is not handed on (ReadInv).  For the log, see      *)
(* LogInv.                                                                 *)
(***************************************************************************)
EXTENDS ApiLogging, TLAPS

ReadInv ==
  ~skipped => app.read <= call.request_body_len /\ (limit > 0 => app.read <= limit)

PlaceInv ==
  /\ app.error = "too_large" => ~skipped
  /\ call.at \in {"start", "body"} => ~skipped /\ ~call.response_started
  /\ ~skipped /\ app.step # "none" => call.response_started

WireInv ==
  /\ wire.starts <= 1 /\ ~wire.garbled
  /\ app.step = "none" /\ call.at \in {"app", "start"} => wire.starts = 0 /\ ~wire.complete
  /\ ~client.gone =>
       /\ call.at = "body" => wire.starts = 1 /\ ~wire.complete
       /\ call.at = "app" /\ app.step = "started" => wire.starts = 1 /\ ~wire.complete
       /\ app.step = "complete" \/ call.at = "returned" => wire.complete

IInv == TypeOK /\ ReadInv /\ PlaceInv /\ WireInv

-----------------------------------------------------------------------------
(* What the wrappers note has its type.                                      *)

LEMMA NumbersAreNaturals ==
  /\ Limits \subseteq Nat /\ Sizes \subseteq Nat
  /\ RequestPreview \in Nat /\ ResponsePreview \in Nat /\ MaxBody \in Nat
  BY SizesAssumption

\* A preview that is cut to its bound stays within it.
LEMMA LesserBounds ==
  ASSUME NEW a \in Nat, NEW b \in Nat
  PROVE  Lesser(a, b) \in Nat /\ Lesser(a, b) <= a /\ Lesser(a, b) <= b
  BY DEF Lesser

LEMMA RecordType ==
  ASSUME call \in Call, NEW kind \in {"api_call", "too_large", "unhandled_error"}
  PROVE  Record(kind) \in Entry
<1>1. /\ call.status_code \in Nat
      /\ call.request_body_len \in Nat /\ call.request_preview \in Nat
      /\ call.response_body_len \in Nat /\ call.response_preview \in Nat
    BY DEF Call
<1> QED
    BY <1>1 DEF Record, Entry

\* A message that is sent leaves a wire of the right type.
LEMMA StartType ==
  ASSUME wire \in Wire, NEW status \in Nat, StartReaches(status)
  PROVE  wire' \in Wire /\ wire'.starts = wire.starts + 1 /\ wire'.complete = wire.complete
         /\ (wire'.garbled <=> wire.garbled \/ wire.starts > 0)
<1> DEFINE garbled == wire.garbled \/ wire.starts > 0
<1>1. garbled \in BOOLEAN /\ wire.starts \in Nat /\ wire.starts + 1 \in Nat
    BY DEF Wire
<1>2. wire' = [wire EXCEPT !.starts = wire.starts + 1, !.status = status, !.garbled = garbled]
    BY DEF StartReaches
<1>3. garbled <=> wire.garbled \/ wire.starts > 0
    OBVIOUS
<1> HIDE DEF garbled
<1>4. wire' \in Wire /\ wire'.starts = wire.starts + 1 /\ wire'.complete = wire.complete
      /\ wire'.garbled = garbled
    BY <1>1, <1>2 DEF Wire
<1> QED
    BY <1>3, <1>4

LEMMA BodyType ==
  ASSUME wire \in Wire, NEW n \in Nat, NEW more \in BOOLEAN, BodyReaches(n, more)
  PROVE  wire' \in Wire /\ wire'.starts = wire.starts /\ (wire'.complete <=> ~more)
         /\ (wire'.garbled <=> wire.garbled \/ wire.starts = 0 \/ wire.complete)
<1> DEFINE garbled == wire.garbled \/ wire.starts = 0 \/ wire.complete
<1>1. garbled \in BOOLEAN /\ (~more) \in BOOLEAN /\ wire.len \in Nat /\ wire.len + n \in Nat
    BY DEF Wire
<1>2. wire' = [wire EXCEPT !.len = wire.len + n, !.complete = ~more, !.garbled = garbled]
    BY DEF BodyReaches
<1>3. garbled <=> wire.garbled \/ wire.starts = 0 \/ wire.complete
    OBVIOUS
<1> HIDE DEF garbled
<1>4. wire' \in Wire /\ wire'.starts = wire.starts /\ (wire'.complete <=> ~more)
      /\ wire'.garbled = garbled
    BY <1>1, <1>2 DEF Wire
<1> QED
    BY <1>3, <1>4

-----------------------------------------------------------------------------
(* The invariant.                                                            *)

\* Nothing is read or sent before the first step.
LEMMA InitIInv == Init => IInv
  BY NumbersAreNaturals
  DEF Init, IInv, TypeOK, Client, App, Call, Wire, Entry, ReadInv, PlaceInv, WireInv

\* Without a client nothing is asked of the wire any more.
LEMMA DisconnectKeepsIInv ==
  ASSUME IInv, Disconnect
  PROVE  IInv'
<1>1. client' \in Client /\ client'.gone
    BY DEF Disconnect, IInv, TypeOK, Client
<1> QED
    BY <1>1 DEF Disconnect, IInv, TypeOK, ReadInv, PlaceInv, WireInv

\* The piece that takes the count over the limit is not handed on.
LEMMA ReceiveKeepsIInv ==
  ASSUME IInv, NEW n \in Sizes, receive_wrapper(n)
  PROVE  IInv'
<1>1. n \in Nat /\ RequestPreview \in Nat /\ limit \in Nat
    BY NumbersAreNaturals DEF IInv, TypeOK
<1>2. app \in App /\ call \in Call /\ call.request_preview \in Nat /\ call.request_preview + n \in Nat
      /\ call.request_body_len \in Nat /\ app.read \in Nat
    BY <1>1 DEF IInv, TypeOK, App, Call
<1>3. client' \in Client /\ client'.gone = client.gone
    BY DEF receive_wrapper, IInv, TypeOK, Client
<1>4. app' \in App /\ app'.step = app.step
    BY <1>1, <1>2 DEF receive_wrapper, App
<1>5. /\ call' \in Call /\ call'.request_preview <= RequestPreview
      /\ call'.response_preview = call.response_preview
      /\ call'.at = call.at /\ call'.response_started = call.response_started
  <2>1. CASE skipped
    BY <1>2, <2>1 DEF receive_wrapper, IInv, TypeOK
  <2>2. CASE ~skipped
    <3> DEFINE preview == IF n > 0 /\ call.request_preview < RequestPreview
                          THEN Lesser(call.request_preview + n, RequestPreview)
                          ELSE call.request_preview
    <3>1. preview \in Nat /\ preview <= RequestPreview
      BY <1>1, <1>2, LesserBounds DEF IInv, TypeOK
    <3>2. call' = [call EXCEPT !.request_body_len = @ + n, !.request_preview = preview]
      BY <2>2 DEF receive_wrapper
    <3>3. call.request_body_len + n \in Nat
      BY <1>1, <1>2
    <3> HIDE DEF preview
    <3>4. call' \in Call
      BY <1>2, <3>1, <3>2, <3>3 DEF Call
    <3> QED
      BY <1>2, <3>1, <3>2, <3>4 DEF Call
  <2> QED
    BY <2>1, <2>2
<1>6. TypeOK'
    BY <1>3, <1>4, <1>5 DEF receive_wrapper, IInv, TypeOK
<1>7. ReadInv'
  <2> SUFFICES ASSUME ~skipped
               PROVE  app'.read <= call'.request_body_len /\ (limit > 0 => app'.read <= limit)
    BY DEF receive_wrapper, ReadInv
  <2>1. call'.request_body_len = call.request_body_len + n
    BY <1>2 DEF receive_wrapper, Call
  <2>2. CASE TooLarge(call.request_body_len, n)
    <3>1. app'.read = app.read
      BY <1>2, <2>2 DEF receive_wrapper, App
    <3> QED
      BY <1>1, <1>2, <2>1, <3>1 DEF IInv, ReadInv
  <2>3. CASE ~TooLarge(call.request_body_len, n)
    <3>1. app'.read = app.read + n
      BY <1>2, <2>3 DEF receive_wrapper, App
    <3> QED
      BY <1>1, <1>2, <2>1, <2>3, <3>1 DEF IInv, ReadInv, TooLarge
  <2> QED
    BY <2>2, <2>3
<1>8. PlaceInv'
  <2>1. app'.error = "too_large" => ~skipped'
    BY <1>2 DEF receive_wrapper, Running, App
  <2> QED
    BY <1>4, <1>5, <2>1 DEF receive_wrapper, IInv, PlaceInv
<1>9. WireInv'
    BY <1>3, <1>4, <1>5 DEF receive_wrapper, IInv, WireInv
<1> QED
    BY <1>6, <1>7, <1>8, <1>9 DEF IInv

\* The start of a response of the application.
LEMMA SendStartKeepsIInv ==
  ASSUME IInv, NEW status \in Statuses, send_start(status)
  PROVE  IInv'
<1>1. status \in Nat /\ wire \in Wire /\ app \in App /\ call \in Call /\ wire.starts \in Nat
      /\ app.step = "none" /\ call.at = "app" /\ wire.starts = 0 /\ ~wire.complete /\ ~wire.garbled
    BY StatusesAssumption DEF send_start, Running, IInv, TypeOK, WireInv, Wire
<1>2. /\ wire' \in Wire /\ wire'.starts <= 1 /\ ~wire'.garbled
      /\ ~client.gone => wire'.starts = 1 /\ ~wire'.complete
    BY <1>1, StartType DEF send_start, Sends
<1>3. app' \in App /\ app'.step = "started" /\ app'.read = app.read /\ app'.error # "too_large"
    BY <1>1 DEF send_start, App
<1>4. /\ call' \in Call /\ call'.at = "app" /\ call'.request_body_len = call.request_body_len
      /\ call'.request_preview = call.request_preview
      /\ call'.response_preview = call.response_preview
      /\ ~skipped => call'.response_started
    BY <1>1 DEF send_start, Started, Call
<1> QED
    BY <1>1, <1>2, <1>3, <1>4 DEF send_start, IInv, TypeOK, ReadInv, PlaceInv, WireInv

\* A piece of its body.
LEMMA SendBodyKeepsIInv ==
  ASSUME IInv, NEW n \in Sizes, NEW more \in BOOLEAN, send_body(n, more)
  PROVE  IInv'
<1>1. /\ n \in Nat /\ ResponsePreview \in Nat
      /\ wire \in Wire /\ app \in App /\ call \in Call
      /\ app.step = "started" /\ call.at = "app" /\ wire.starts <= 1 /\ ~wire.garbled
      /\ ~client.gone => wire.starts = 1 /\ ~wire.complete
    BY NumbersAreNaturals DEF send_body, Running, IInv, TypeOK, WireInv
<1>2. /\ wire' \in Wire /\ wire'.starts <= 1 /\ ~wire'.garbled
      /\ ~client.gone => wire'.starts = 1 /\ (wire'.complete <=> ~more)
    BY <1>1, BodyType DEF send_body, Sends
<1>3. /\ app' \in App /\ app'.step = (IF more THEN "started" ELSE "complete")
      /\ app'.read = app.read /\ app'.error # "too_large"
    BY <1>1 DEF send_body, App
<1>4. /\ call' \in Call /\ call'.at = "app" /\ call'.request_body_len = call.request_body_len
      /\ call'.request_preview = call.request_preview
      /\ call'.response_preview <= ResponsePreview
      /\ call'.response_started = call.response_started
  <2>1. CASE skipped
    BY <1>1, <2>1 DEF send_body, IInv, TypeOK
  <2>2. CASE ~skipped
    <3> DEFINE preview == IF call.response_preview < ResponsePreview
                          THEN Lesser(call.response_preview + n, ResponsePreview)
                          ELSE call.response_preview
    <3>1. call.response_preview \in Nat /\ call.response_body_len \in Nat
          /\ call.response_preview + n \in Nat
      BY <1>1 DEF Call
    <3>2. preview \in Nat /\ preview <= ResponsePreview
      BY <1>1, <3>1, LesserBounds DEF IInv, TypeOK
    <3>3. call' = [call EXCEPT !.response_body_len = @ + n, !.response_preview = preview]
      BY <2>2 DEF send_body, Counted
    <3>4. call.response_body_len + n \in Nat
      BY <1>1, <3>1
    <3> HIDE DEF preview
    <3>5. call' \in Call
      BY <1>1, <3>2, <3>3, <3>4 DEF Call
    <3> QED
      BY <1>1, <3>2, <3>3, <3>5 DEF Call
  <2> QED
    BY <2>1, <2>2
<1>5. log' \in Seq(Entry)
  <2>1. Record("api_call") \in Entry
    BY <1>1, RecordType
  <2>2. call'.response_body_len \in Nat /\ call'.response_preview \in Nat
    BY <1>4 DEF Call
  <2> DEFINE entry == [Record("api_call") EXCEPT
                         !.response_len = call'.response_body_len,
                         !.response_cut = call'.response_body_len > call'.response_preview]
  <2>3. entry \in Entry
    <3> DEFINE len == call'.response_body_len
               cut == call'.response_body_len > call'.response_preview
    <3>1. len \in Nat /\ cut \in BOOLEAN
      BY <2>2
    <3>2. entry = [Record("api_call") EXCEPT !.response_len = len, !.response_cut = cut]
      OBVIOUS
    <3> HIDE DEF len, cut, entry
    <3> QED
      BY <2>1, <3>1, <3>2 DEF Entry
  <2>4. log' = log \/ log' = Append(log, entry)
    BY DEF send_body
  <2>5. log \in Seq(Entry)
    BY DEF IInv, TypeOK
  <2> HIDE DEF entry
  <2> QED
    BY <2>3, <2>4, <2>5
<1>6. UNCHANGED <<skipped, limit, client>>
    BY DEF send_body
<1>7. TypeOK'
    BY <1>2, <1>3, <1>4, <1>5, <1>6 DEF IInv, TypeOK
<1>8. ReadInv' /\ PlaceInv'
    BY <1>1, <1>3, <1>4, <1>6 DEF IInv, ReadInv, PlaceInv
<1>9. WireInv'
    BY <1>2, <1>3, <1>4, <1>6 DEF WireInv
<1> QED
    BY <1>7, <1>8, <1>9 DEF IInv

\* The steps of the application that send and receive nothing.
LEMMA ApplicationKeepsIInv ==
  ASSUME IInv, Handle \/ Return \/ RequestTooLarge \/ Raise
  PROVE  IInv'
<1>1. app \in App /\ call \in Call /\ log \in Seq(Entry)
    BY DEF IInv, TypeOK
<1>2. CASE Handle
  <2>1. app' \in App /\ app'.step = app.step /\ app'.read = app.read /\ app'.error = "none"
    BY <1>1, <1>2 DEF Handle, App
  <2> QED
    BY <1>2, <2>1 DEF Handle, IInv, TypeOK, ReadInv, PlaceInv, WireInv
<1>3. CASE Return
  <2>1. /\ call' \in Call /\ call'.at = "returned"
        /\ call'.request_body_len = call.request_body_len
        /\ call'.request_preview = call.request_preview
        /\ call'.response_preview = call.response_preview
        /\ call'.response_started = call.response_started
    BY <1>1, <1>3 DEF Return, Call
  <2> QED
    BY <1>3, <2>1 DEF Return, Running, IInv, TypeOK, ReadInv, PlaceInv, WireInv
<1>4. CASE RequestTooLarge \/ (Raise /\ ~skipped)
  <2>1. ~skipped
    BY <1>4 DEF RequestTooLarge, IInv, PlaceInv
  <2>2. log' \in Seq(Entry)
    BY <1>1, <1>4, RecordType DEF RequestTooLarge, Raise
  <2>3. app' \in App /\ app'.step = app.step /\ app'.read = app.read
    BY <1>1, <1>4 DEF RequestTooLarge, Raise, App
  <2>4. /\ call' \in Call /\ call'.at = AfterError /\ call.at = "app"
        /\ call'.request_body_len = call.request_body_len
        /\ call'.request_preview = call.request_preview
        /\ call'.response_preview = call.response_preview
        /\ call'.response_started = call.response_started
    BY <1>1, <1>4 DEF RequestTooLarge, Raise, AfterError, Call
  <2>5. UNCHANGED <<skipped, limit, client, wire>>
    BY <1>4 DEF RequestTooLarge, Raise
  <2>6. TypeOK'
    BY <2>2, <2>3, <2>4, <2>5 DEF IInv, TypeOK
  <2>7. ReadInv' /\ PlaceInv'
    BY <2>1, <2>3, <2>4, <2>5 DEF IInv, ReadInv, PlaceInv, AfterError
  <2>8. WireInv'
    BY <2>1, <2>3, <2>4, <2>5 DEF IInv, WireInv, PlaceInv, AfterError
  <2> QED
    BY <2>6, <2>7, <2>8 DEF IInv
<1>5. CASE Raise /\ skipped
  <2>1. /\ call' \in Call /\ call'.at = "raised"
        /\ call'.request_preview = call.request_preview
        /\ call'.response_preview = call.response_preview
    BY <1>1, <1>5 DEF Raise, Call
  <2>2. app' \in App /\ app'.step = app.step /\ app'.error = "other"
    BY <1>1, <1>5 DEF Raise, App
  <2> QED
    BY <1>5, <2>1, <2>2 DEF Raise, IInv, TypeOK, ReadInv, PlaceInv, WireInv
<1> QED
    BY <1>2, <1>3, <1>4, <1>5

\* The answers of the middleware: the application has not started one.
LEMMA AnswerKeepsIInv ==
  ASSUME IInv, AnswerStart \/ AnswerBody
  PROVE  IInv'
<1>1. wire \in Wire /\ call \in Call /\ app.step = "none" /\ Answer \in Nat
      /\ wire.starts \in Nat /\ wire.starts <= 1 /\ ~wire.garbled
  <2>1. wire \in Wire /\ call \in Call /\ wire.starts <= 1 /\ ~wire.garbled
    BY DEF IInv, TypeOK, WireInv
  <2>2. app.step = "none"
    BY DEF AnswerStart, AnswerBody, IInv, PlaceInv
  <2>3. Answer \in Nat /\ wire.starts \in Nat
    BY <2>1 DEF Answer, Wire
  <2> QED
    BY <2>1, <2>2, <2>3
<1>2. /\ call' \in Call /\ call'.request_body_len = call.request_body_len
      /\ call'.request_preview = call.request_preview
      /\ call'.response_preview = call.response_preview
      /\ call'.response_started = call.response_started
    BY <1>1 DEF AnswerStart, AnswerBody, Call
<1>3. UNCHANGED <<skipped, limit, client, app, log>>
    BY DEF AnswerStart, AnswerBody
<1>4. CASE AnswerStart
  <2>1. wire.starts = 0 /\ ~wire.complete
    BY <1>1, <1>4 DEF AnswerStart, IInv, WireInv
  <2>2. /\ wire' \in Wire /\ wire'.starts <= 1 /\ ~wire'.garbled
        /\ ~client.gone => wire'.starts = 1 /\ ~wire'.complete
    BY <1>1, <1>4, <2>1, StartType DEF AnswerStart, Sends
  <2>3. call'.at \in {"raised", "body"} /\ call.at = "start"
    BY <1>1, <1>4 DEF AnswerStart, Call
  <2> QED
    BY <1>1, <1>2, <1>3, <2>2, <2>3 DEF IInv, TypeOK, ReadInv, PlaceInv, WireInv
<1>5. CASE AnswerBody
  <2>1. ~client.gone => wire.starts = 1 /\ ~wire.complete
    BY <1>5 DEF AnswerBody, IInv, WireInv
  <2>2. /\ wire' \in Wire /\ wire'.starts <= 1 /\ ~wire'.garbled
        /\ ~client.gone => wire'.complete
    <3>1. CASE client.gone
      BY <1>1, <1>5, <3>1 DEF AnswerBody, Sends
    <3>2. CASE ~client.gone
      <4>1. BodyReaches(1, FALSE)
        BY <1>5, <3>2 DEF AnswerBody, Sends
      <4>2. /\ wire' \in Wire /\ wire'.starts = wire.starts /\ (wire'.complete <=> ~FALSE)
            /\ (wire'.garbled <=> wire.garbled \/ wire.starts = 0 \/ wire.complete)
        BY <1>1, <4>1, BodyType
      <4> QED
        BY <1>1, <2>1, <3>2, <4>2
    <3> QED
      BY <3>1, <3>2
  <2>3. call'.at \in {"raised", "returned"}
    BY <1>1, <1>5 DEF AnswerBody, Call
  <2> QED
    BY <1>1, <1>2, <1>3, <2>2, <2>3 DEF IInv, TypeOK, ReadInv, PlaceInv, WireInv
<1> QED
    BY <1>4, <1>5

\* Every step keeps the invariant.
LEMMA NextIInv == IInv /\ [Next]_vars => IInv'
<1> SUFFICES ASSUME IInv, [Next]_vars
             PROVE  IInv'
    OBVIOUS
<1>1. CASE UNCHANGED vars
    BY <1>1 DEF vars, IInv, TypeOK, ReadInv, PlaceInv, WireInv
<1>2. CASE Next
    BY <1>2, DisconnectKeepsIInv, ReceiveKeepsIInv, SendStartKeepsIInv, SendBodyKeepsIInv,
       ApplicationKeepsIInv, AnswerKeepsIInv DEF Next
<1> QED
    BY <1>1, <1>2

LEMMA Invariance == Spec => []IInv
  BY InitIInv, NextIInv, PTL DEF Spec

-----------------------------------------------------------------------------
(* The theorems.                                                             *)

\* Every variable of a request keeps its type and the previews stay within their bounds.
THEOREM TypeCorrect == Spec => []TypeOK
<1>1. IInv => TypeOK
    BY DEF IInv
<1> QED
    BY <1>1, Invariance, PTL

\* For bodies of every size: one response at most, none out of order, and a whole one for a
\* client that stays when the call returns.
THEOREM ResponseIsOne == Spec => []OneResponse
<1>1. IInv => OneResponse
    BY DEF IInv, WireInv, OneResponse
<1> QED
    BY <1>1, Invariance, PTL

\* For every limit, the application is never handed more of the body than that.
THEOREM LimitHolds == Spec => []ReadWithinLimit
<1>1. IInv => ReadWithinLimit
    BY DEF IInv, ReadInv, ReadWithinLimit
<1> QED
    BY <1>1, Invariance, PTL

-----------------------------------------------------------------------------
(* The log.  A preview is what was counted, cut to its bound, and while the  *)
(* client is there the middleware has counted what was sent, so that what a  *)
(* record says when it is written is what the wire says, then and later.     *)

CountInv ==
  /\ call.request_preview = Lesser(call.request_body_len, RequestPreview)
  /\ call.response_preview = Lesser(call.response_body_len, ResponsePreview)
  /\ ~skipped /\ app.step = "none" => call.response_body_len = 0
  /\ ~skipped /\ ~client.gone =>
       /\ app.step = "none" /\ call.at = "app" => wire.len = 0
       /\ app.step # "none" => /\ call.status_code = wire.status
                               /\ call.response_body_len = wire.len

\* What is right of a record, whatever its kind, when w is the wire and the client is gone
\* or still there.
Right(record, w, gone) ==
  /\ record.request_cut = (record.request_len > RequestPreview)
  /\ record.kind = "api_call" =>
       /\ record.response_cut = (record.response_len > ResponsePreview)
       /\ ~gone => record.status = w.status /\ record.response_len = w.len

RecordInv ==
  /\ \A n \in DOMAIN log : Right(log[n], wire, client.gone)
  /\ IF app.step = "complete" /\ ~skipped THEN \E n \in Calls : Calls = {n} ELSE Calls = {}
  /\ call.at # "app" /\ ~client.gone /\ ~skipped => log # <<>>
  /\ call.at \in {"start", "body", "raised"} /\ ~skipped => log # <<>>

TooLargeLogged == \E n \in DOMAIN log : log[n].kind = "too_large" /\ log[n].request_len > limit

TooLargeInv ==
  /\ app.error = "too_large" => call.request_body_len > limit
  /\ call.at \in {"start", "body"} /\ app.error = "too_large" => TooLargeLogged
  /\ wire.status = 413 => TooLargeLogged

LogInv == CountInv /\ RecordInv /\ TooLargeInv

LEMMA Appended ==
  ASSUME log \in Seq(Entry), NEW e \in Entry, log' = Append(log, e)
  PROVE  /\ DOMAIN log' = DOMAIN log \union {Len(log) + 1} /\ Len(log) + 1 \notin DOMAIN log
         /\ \A n \in DOMAIN log : log'[n] = log[n]
         /\ log'[Len(log) + 1] = e
         /\ log' # <<>>
  OBVIOUS

LEMMA InitLogInv == Init => LogInv
<1> SUFFICES ASSUME Init
             PROVE  LogInv
    OBVIOUS
<1>1. DOMAIN log = {} /\ Calls = {}
    BY DEF Init, Calls
<1>2. Lesser(0, RequestPreview) = 0 /\ Lesser(0, ResponsePreview) = 0
    BY NumbersAreNaturals DEF Lesser
<1> QED
    BY <1>1, <1>2 DEF Init, LogInv, CountInv, RecordInv, TooLargeInv

\* A step that writes no record and sends nothing, and takes the call no further than the
\* client or the log allows.
LEMMA QuietKeepsLogInv ==
  ASSUME LogInv, CountInv', UNCHANGED <<skipped, limit, wire, log>>,
         client.gone => client'.gone, app'.step = app.step,
         call'.request_body_len = call.request_body_len,
         app'.error = "too_large" => app.error = "too_large",
         \/ call'.at = call.at
         \/ call'.at = "returned" /\ (client'.gone \/ app.step = "complete")
  PROVE  LogInv'
<1>1. Calls' = Calls /\ TooLargeLogged' = TooLargeLogged
    BY DEF Calls, TooLargeLogged
<1>2. app.step = "complete" /\ ~skipped => log # <<>>
    BY DEF LogInv, RecordInv, Calls
<1>3. \A n \in DOMAIN log : Right(log[n], wire', client'.gone)
    BY DEF LogInv, RecordInv, Right
<1>4. RecordInv'
    BY <1>1, <1>2, <1>3 DEF LogInv, RecordInv
<1>5. TooLargeInv'
    BY <1>1 DEF LogInv, TooLargeInv
<1> QED
    BY <1>4, <1>5 DEF LogInv

\* The client leaves, or the application handles an error or returns.
LEMMA PassiveKeepsLogInv ==
  ASSUME IInv, LogInv, Disconnect \/ Handle \/ Return
  PROVE  LogInv'
<1>1. client \in Client /\ app \in App /\ call \in Call
    BY DEF IInv, TypeOK
<1>2. CASE Disconnect
  <2>1. client'.gone
    BY <1>1, <1>2 DEF Disconnect, Client
  <2>2. CountInv'
    BY <1>2, <2>1 DEF Disconnect, LogInv, CountInv
  <2> QED
    BY <1>2, <2>1, <2>2, QuietKeepsLogInv DEF Disconnect
<1>3. CASE Handle
  <2>1. app'.step = app.step /\ app'.error = "none"
    BY <1>1, <1>3 DEF Handle, App
  <2>2. CountInv'
    BY <1>3, <2>1 DEF Handle, LogInv, CountInv
  <2> QED
    BY <1>3, <2>1, <2>2, QuietKeepsLogInv DEF Handle
<1>4. CASE Return
  <2>1. /\ call'.at = "returned" /\ call.at = "app"
        /\ call'.request_body_len = call.request_body_len
        /\ call'.request_preview = call.request_preview
        /\ call'.response_body_len = call.response_body_len
        /\ call'.response_preview = call.response_preview
        /\ call'.status_code = call.status_code
    BY <1>1, <1>4 DEF Return, Running, Call
  <2>2. CountInv'
    BY <1>4, <2>1 DEF Return, LogInv, CountInv
  <2> QED
    BY <1>4, <2>1, <2>2, QuietKeepsLogInv DEF Return
<1> QED
    BY <1>2, <1>3, <1>4

\* A piece of the request is counted, and the one that is too large is remembered.
LEMMA ReceiveKeepsLogInv ==
  ASSUME IInv, LogInv, NEW n \in Sizes, receive_wrapper(n)
  PROVE  LogInv'
<1>1. /\ n \in Nat /\ RequestPreview \in Nat /\ limit \in Nat
      /\ client \in Client /\ app \in App /\ call \in Call
      /\ call.request_body_len \in Nat /\ call.request_preview \in Nat
    BY NumbersAreNaturals DEF IInv, TypeOK, Call
<1>2. /\ client'.gone = client.gone /\ app'.step = app.step
      /\ UNCHANGED <<skipped, limit, wire, log>>
      /\ call.at = "app" /\ app.error = "none"
    BY <1>1 DEF receive_wrapper, Running, Client, App
<1>3. /\ call'.at = call.at /\ call'.status_code = call.status_code
      /\ call'.response_body_len = call.response_body_len
      /\ call'.response_preview = call.response_preview
      /\ call'.request_preview = Lesser(call'.request_body_len, RequestPreview)
      /\ app'.error = "too_large" => call'.request_body_len > limit
  <2>1. CASE skipped
    <3>1. app'.error = app.error /\ call' = call
      BY <1>1, <2>1 DEF receive_wrapper, App
    <3> QED
      BY <1>2, <3>1 DEF LogInv, CountInv
  <2>2. CASE ~skipped
    <3>1. /\ call'.at = call.at /\ call'.status_code = call.status_code
          /\ call'.response_body_len = call.response_body_len
          /\ call'.response_preview = call.response_preview
          /\ call'.request_body_len = call.request_body_len + n
          /\ call'.request_preview =
               IF n > 0 /\ call.request_preview < RequestPreview
               THEN Lesser(call.request_preview + n, RequestPreview) ELSE call.request_preview
      BY <1>1, <2>2 DEF receive_wrapper, Call
    <3>2. call.request_preview = Lesser(call.request_body_len, RequestPreview)
      BY DEF LogInv, CountInv
    <3>3. call'.request_preview = Lesser(call.request_body_len + n, RequestPreview)
      BY <1>1, <3>1, <3>2 DEF Lesser
    <3>4. app'.error = "too_large" => TooLarge(call.request_body_len, n)
      BY <1>1, <1>2, <2>2 DEF receive_wrapper, App
    <3> QED
      BY <3>1, <3>3, <3>4 DEF TooLarge
  <2> QED
    BY <2>1, <2>2
<1>4. CountInv'
    BY <1>2, <1>3 DEF LogInv, CountInv
<1>5. RecordInv'
  <2>1. \A k \in DOMAIN log : Right(log[k], wire', client'.gone)
    BY <1>2 DEF LogInv, RecordInv, Right
  <2>2. Calls' = Calls
    BY <1>2 DEF Calls
  <2> QED
    BY <1>2, <1>3, <2>1, <2>2 DEF LogInv, RecordInv
<1>6. TooLargeInv'
    BY <1>2, <1>3 DEF LogInv, TooLargeInv, TooLargeLogged
<1> QED
    BY <1>4, <1>5, <1>6 DEF LogInv

\* The start is noted, and reaches the client that is there with the status that was noted.
LEMMA SendStartKeepsLogInv ==
  ASSUME IInv, LogInv, NEW status \in Statuses, send_start(status)
  PROVE  LogInv'
<1>1. /\ status \in Nat /\ status # 413
      /\ app \in App /\ call \in Call /\ wire \in Wire
      /\ app.step = "none" /\ call.at = "app"
      /\ UNCHANGED <<skipped, limit, client, log>>
    BY StatusesAssumption DEF send_start, Running, IInv, TypeOK
<1>2. app'.step = "started" /\ app'.error # "too_large"
    BY <1>1 DEF send_start, App
<1>3. /\ call'.at = "app" /\ call'.request_body_len = call.request_body_len
      /\ call'.request_preview = call.request_preview
      /\ call'.response_body_len = call.response_body_len
      /\ call'.response_preview = call.response_preview
      /\ ~skipped => call'.status_code = status
    BY <1>1 DEF send_start, Started, Call
<1>4. /\ ~client.gone => wire'.status = status /\ wire'.len = wire.len
      /\ client.gone => wire' = wire
    BY <1>1 DEF send_start, Sends, StartReaches, Wire
<1>5. Calls = {} /\ Calls' = Calls
    BY <1>1 DEF LogInv, RecordInv, Calls
<1>6. CountInv'
    BY <1>1, <1>2, <1>3, <1>4 DEF LogInv, CountInv
<1>7. RecordInv'
  <2>1. \A k \in DOMAIN log : log[k].kind # "api_call"
    BY <1>5 DEF Calls
  <2>2. \A k \in DOMAIN log : Right(log[k], wire', client'.gone)
    BY <1>1, <2>1 DEF LogInv, RecordInv, Right
  <2> QED
    BY <1>1, <1>2, <1>3, <1>5, <2>2 DEF LogInv, RecordInv
<1>8. TooLargeInv'
    BY <1>1, <1>2, <1>3, <1>4 DEF LogInv, TooLargeInv, TooLargeLogged
<1> QED
    BY <1>6, <1>7, <1>8 DEF LogInv

\* What the last piece of a response writes is what the client has then got.
LEMMA SendBodyKeepsLogInv ==
  ASSUME IInv, LogInv, NEW n \in Sizes, NEW more \in BOOLEAN, send_body(n, more)
  PROVE  LogInv'
<1>1. /\ n \in Nat /\ RequestPreview \in Nat /\ ResponsePreview \in Nat
      /\ app \in App /\ call \in Call /\ wire \in Wire /\ log \in Seq(Entry)
      /\ app.step = "started" /\ call.at = "app"
      /\ UNCHANGED <<skipped, limit, client>>
    BY NumbersAreNaturals DEF send_body, Running, IInv, TypeOK
<1>2. /\ call.request_body_len \in Nat /\ call.response_body_len \in Nat
      /\ call.status_code \in Nat /\ wire.len \in Nat
    BY <1>1 DEF Call, Wire
<1>3. app'.step = (IF more THEN "started" ELSE "complete") /\ app'.error # "too_large"
    BY <1>1 DEF send_body, App
<1>4. /\ call'.at = "app" /\ call'.request_body_len = call.request_body_len
      /\ call'.request_preview = call.request_preview
      /\ call'.status_code = call.status_code
      /\ ~skipped => call'.response_body_len = call.response_body_len + n
      /\ call'.response_preview = Lesser(call'.response_body_len, ResponsePreview)
  <2>1. call.response_preview = Lesser(call.response_body_len, ResponsePreview)
    BY DEF LogInv, CountInv
  <2>2. CASE skipped
    BY <1>1, <2>1, <2>2 DEF send_body
  <2>3. CASE ~skipped
    <3>1. /\ call'.at = "app" /\ call'.request_body_len = call.request_body_len
          /\ call'.request_preview = call.request_preview
          /\ call'.status_code = call.status_code
          /\ call'.response_body_len = call.response_body_len + n
          /\ call'.response_preview =
               IF call.response_preview < ResponsePreview
               THEN Lesser(call.response_preview + n, ResponsePreview)
               ELSE call.response_preview
      BY <1>1, <2>3 DEF send_body, Counted, Call
    <3>2. call'.response_preview = Lesser(call.response_body_len + n, ResponsePreview)
      BY <1>1, <1>2, <2>1, <3>1 DEF Lesser
    <3> QED
      BY <3>1, <3>2
  <2> QED
    BY <2>2, <2>3
<1>5. /\ ~client.gone => wire'.status = wire.status /\ wire'.len = wire.len + n
      /\ client.gone => wire' = wire
    BY <1>1 DEF send_body, Sends, BodyReaches, Wire
<1>6. CountInv'
    BY <1>1, <1>2, <1>3, <1>4, <1>5 DEF LogInv, CountInv
<1>7. Calls = {} /\ \A k \in DOMAIN log : log[k].kind # "api_call"
  <2>1. Calls = {}
    BY <1>1 DEF LogInv, RecordInv
  <2> QED
    BY <2>1 DEF Calls
<1>8. \A k \in DOMAIN log : Right(log[k], wire', client'.gone)
    BY <1>7 DEF LogInv, RecordInv, Right
<1>9. CASE skipped \/ more
  <2>1. log' = log
    BY <1>9 DEF send_body
  <2>2. Calls' = {}
    BY <1>7, <2>1 DEF Calls
  <2>3. RecordInv'
    <3>1. \A k \in DOMAIN log' : Right(log'[k], wire', client'.gone)
      BY <1>8, <2>1
    <3> QED
      BY <1>1, <1>3, <1>4, <1>9, <2>1, <2>2, <3>1 DEF RecordInv
  <2>4. TooLargeInv'
    BY <1>1, <1>3, <1>4, <1>5, <2>1 DEF LogInv, TooLargeInv, TooLargeLogged
  <2> QED
    BY <1>6, <2>3, <2>4 DEF LogInv
<1>10. CASE ~skipped /\ ~more
  <2> DEFINE last == Len(log) + 1
  <2>1. PICK len, cut, e :
          /\ len = call'.response_body_len
          /\ cut = (call'.response_body_len > call'.response_preview)
          /\ e = [Record("api_call") EXCEPT !.response_len = len, !.response_cut = cut]
          /\ log' = Append(log, e)
    BY <1>10 DEF send_body
  <2>2. Record("api_call") \in Entry
    BY <1>1, RecordType
  <2>3. len \in Nat /\ len = call.response_body_len + n /\ cut \in BOOLEAN
    BY <1>1, <1>2, <1>4, <1>10, <2>1
  <2>4. cut = (len > ResponsePreview)
    <3>1. (len > call'.response_preview) = (len > ResponsePreview)
      BY <1>1, <1>4, <2>1, <2>3 DEF Lesser
    <3> QED
      BY <2>1, <3>1, Zenon
  <2>5. /\ Record("api_call").kind = "api_call"
        /\ Record("api_call").status = call.status_code
        /\ Record("api_call").request_len = call.request_body_len
        /\ Record("api_call").request_cut = (call.request_body_len > call.request_preview)
    BY DEF Record
  <2>6. /\ e \in Entry /\ e.kind = "api_call" /\ e.status = call.status_code
        /\ e.request_len = call.request_body_len
        /\ e.request_cut = (call.request_body_len > call.request_preview)
        /\ e.response_len = len /\ e.response_cut = cut
    BY <2>1, <2>2, <2>3, <2>5 DEF Entry
  <2>7. /\ DOMAIN log' = DOMAIN log \union {last} /\ last \notin DOMAIN log
        /\ \A k \in DOMAIN log : log'[k] = log[k]
        /\ log'[last] = e /\ log' # <<>>
    BY <1>1, <2>1, <2>6, Appended
  <2> HIDE DEF last
  <2>8. e.request_cut = (e.request_len > RequestPreview)
    <3>1. (call.request_body_len > call.request_preview) = (call.request_body_len > RequestPreview)
      BY <1>1, <1>2 DEF LogInv, CountInv, Lesser
    <3> QED
      BY <2>6, <3>1, Zenon
  <2>9. ~client'.gone => e.status = wire'.status /\ e.response_len = wire'.len
    BY <1>1, <1>2, <1>5, <1>10, <2>3, <2>6 DEF LogInv, CountInv
  <2>10. Right(e, wire', client'.gone)
    <3>1. e.response_cut = (e.response_len > ResponsePreview)
      BY <2>4, <2>6, Zenon
    <3> QED
      BY <2>8, <2>9, <3>1 DEF Right
  <2>11. Calls' = {last}
    BY <1>7, <2>6, <2>7 DEF Calls
  <2>12. RecordInv'
    <3>1. \A k \in DOMAIN log' : Right(log'[k], wire', client'.gone)
      BY <1>8, <2>7, <2>10
    <3> QED
      BY <1>1, <1>3, <1>4, <1>10, <2>7, <2>11, <3>1 DEF RecordInv
  <2>13. TooLargeLogged => TooLargeLogged'
    BY <1>1, <2>7 DEF TooLargeLogged
  <2>14. TooLargeInv'
    BY <1>1, <1>3, <1>4, <1>5, <2>13 DEF LogInv, TooLargeInv
  <2> QED
    BY <1>6, <2>12, <2>14 DEF LogInv
<1> QED
    BY <1>9, <1>10

\* The record of an error that comes out of the application.
LEMMA ErrorKeepsLogInv ==
  ASSUME IInv, LogInv, RequestTooLarge \/ Raise
  PROVE  LogInv'
<1>1. /\ app \in App /\ call \in Call /\ log \in Seq(Entry) /\ call.at = "app"
      /\ RequestPreview \in Nat /\ call.request_body_len \in Nat
      /\ UNCHANGED <<skipped, limit, client, wire>>
    BY NumbersAreNaturals DEF RequestTooLarge, Raise, IInv, TypeOK, Call
<1>2. /\ call'.request_body_len = call.request_body_len
      /\ call'.request_preview = call.request_preview
      /\ call'.response_body_len = call.response_body_len
      /\ call'.response_preview = call.response_preview
      /\ call'.status_code = call.status_code
      /\ call'.at # "app"
    BY <1>1 DEF RequestTooLarge, Raise, AfterError, Call
<1>3. app'.step = app.step /\ (app'.error = "too_large" <=> RequestTooLarge)
    BY <1>1 DEF RequestTooLarge, Raise, App
<1>4. CountInv'
    BY <1>1, <1>2, <1>3 DEF LogInv, CountInv
<1>5. CASE Raise /\ skipped
  <2>1. log' = log /\ Calls' = Calls
    BY <1>5 DEF Raise, Calls
  <2>2. \A k \in DOMAIN log' : Right(log'[k], wire', client'.gone)
    BY <1>1, <2>1 DEF LogInv, RecordInv, Right
  <2>3. RecordInv'
    BY <1>1, <1>3, <1>5, <2>1, <2>2 DEF LogInv, RecordInv
  <2>4. app.error # "too_large" /\ app'.error # "too_large"
    BY <1>1, <1>5 DEF Raise, App
  <2>5. TooLargeInv'
    BY <1>1, <2>1, <2>4 DEF LogInv, TooLargeInv, TooLargeLogged
  <2> QED
    BY <1>4, <2>3, <2>5 DEF LogInv
<1>6. ASSUME NEW kind \in {"too_large", "unhandled_error"}, log' = Append(log, Record(kind)),
             kind = "too_large" <=> RequestTooLarge
      PROVE  LogInv'
  <2> DEFINE last == Len(log) + 1
  <2>1. PICK e \in Entry :
          /\ log' = Append(log, e)
          /\ e.kind = kind /\ e.request_len = call.request_body_len
          /\ e.request_cut = (call.request_body_len > call.request_preview)
    <3>1. /\ Record(kind).kind = kind /\ Record(kind).request_len = call.request_body_len
          /\ Record(kind).request_cut = (call.request_body_len > call.request_preview)
      BY DEF Record
    <3> QED
      BY <1>1, <1>6, <3>1, RecordType
  <2>2. /\ DOMAIN log' = DOMAIN log \union {last} /\ last \notin DOMAIN log
        /\ \A k \in DOMAIN log : log'[k] = log[k]
        /\ log'[last] = e /\ log' # <<>>
    BY <1>1, <2>1, Appended
  <2> HIDE DEF last
  <2>3. e.request_cut = (e.request_len > RequestPreview)
    <3>1. (call.request_body_len > call.request_preview) = (call.request_body_len > RequestPreview)
      BY <1>1 DEF LogInv, CountInv, Lesser
    <3> QED
      BY <2>1, <3>1, Zenon
  <2>4. \A k \in DOMAIN log' : Right(log'[k], wire', client'.gone)
    <3>1. Right(e, wire', client'.gone)
      BY <2>1, <2>3 DEF Right
    <3>2. \A k \in DOMAIN log : Right(log[k], wire', client'.gone)
      BY <1>1 DEF LogInv, RecordInv, Right
    <3> QED
      BY <2>2, <3>1, <3>2
  <2>5. Calls' = Calls
    BY <2>1, <2>2 DEF Calls
  <2>6. RecordInv'
    BY <1>1, <1>3, <2>2, <2>4, <2>5 DEF LogInv, RecordInv
  <2>7. TooLargeLogged => TooLargeLogged'
    BY <1>1, <2>2 DEF TooLargeLogged
  <2>8. app'.error = "too_large" => TooLargeLogged' /\ call.request_body_len > limit
    <3>1. SUFFICES ASSUME RequestTooLarge
                   PROVE  TooLargeLogged' /\ call.request_body_len > limit
      BY <1>3
    <3>2. call.request_body_len > limit
      BY <3>1 DEF RequestTooLarge, LogInv, TooLargeInv
    <3> QED
      BY <1>1, <1>6, <2>1, <2>2, <3>1, <3>2 DEF TooLargeLogged
  <2>9. TooLargeInv'
    BY <1>1, <1>2, <2>7, <2>8 DEF LogInv, TooLargeInv
  <2> QED
    BY <1>4, <2>6, <2>9 DEF LogInv
<1>7. CASE RequestTooLarge
    BY <1>6, <1>7 DEF RequestTooLarge
<1>8. CASE Raise /\ ~skipped
  <2>1. ~RequestTooLarge /\ log' = Append(log, Record("unhandled_error"))
    BY <1>8 DEF Raise, RequestTooLarge
  <2> QED
    BY <1>6, <2>1
<1> QED
    BY <1>5, <1>7, <1>8

\* The middleware answers 413 only after it has written why.
LEMMA AnswerKeepsLogInv ==
  ASSUME IInv, LogInv, AnswerStart \/ AnswerBody
  PROVE  LogInv'
<1>1. /\ call \in Call /\ wire \in Wire /\ app.step = "none" /\ ~skipped
      /\ call.at \in {"start", "body"}
      /\ UNCHANGED <<skipped, limit, client, app, log>>
    BY DEF AnswerStart, AnswerBody, IInv, TypeOK, PlaceInv
<1>2. /\ call'.request_body_len = call.request_body_len
      /\ call'.request_preview = call.request_preview
      /\ call'.response_body_len = call.response_body_len
      /\ call'.response_preview = call.response_preview
      /\ call'.status_code = call.status_code
      /\ call'.at \in {"body", "returned", "raised"}
    BY <1>1 DEF AnswerStart, AnswerBody, Call
<1>3. wire'.status = wire.status \/ (call.at = "start" /\ wire'.status = Answer)
    BY <1>1 DEF AnswerStart, AnswerBody, Sends, StartReaches, BodyReaches, Wire
<1>4. CountInv'
    BY <1>1, <1>2 DEF LogInv, CountInv
<1>5. Calls = {} /\ Calls' = {} /\ \A k \in DOMAIN log : log[k].kind # "api_call"
  <2>1. Calls = {}
    BY <1>1 DEF LogInv, RecordInv
  <2> QED
    BY <1>1, <2>1 DEF Calls
<1>6. RecordInv'
  <2>1. \A k \in DOMAIN log : Right(log[k], wire', client'.gone)
    BY <1>1, <1>5 DEF LogInv, RecordInv, Right
  <2>2. log # <<>>
    BY <1>1 DEF LogInv, RecordInv
  <2> QED
    BY <1>1, <1>5, <2>1, <2>2 DEF RecordInv
<1>7. TooLargeInv'
  <2>1. TooLargeLogged' = TooLargeLogged
    BY <1>1 DEF TooLargeLogged
  <2>2. app.error = "too_large" => TooLargeLogged /\ call.request_body_len > limit
    BY <1>1 DEF LogInv, TooLargeInv
  <2>3. wire'.status = 413 => TooLargeLogged
    BY <1>3, <2>2 DEF Answer, LogInv, TooLargeInv
  <2> QED
    BY <1>1, <1>2, <2>1, <2>2, <2>3 DEF TooLargeInv
<1> QED
    BY <1>4, <1>6, <1>7 DEF LogInv

LEMMA NextLogInv == IInv /\ LogInv /\ [Next]_vars => LogInv'
<1> SUFFICES ASSUME IInv, LogInv, [Next]_vars
             PROVE  LogInv'
    OBVIOUS
<1>1. CASE UNCHANGED vars
  <2>1. CountInv'
    BY <1>1 DEF vars, LogInv, CountInv
  <2> QED
    BY <1>1, <2>1, QuietKeepsLogInv DEF vars
<1>2. CASE Next
    BY <1>2, PassiveKeepsLogInv, ReceiveKeepsLogInv, SendStartKeepsLogInv,
       SendBodyKeepsLogInv, ErrorKeepsLogInv, AnswerKeepsLogInv DEF Next
<1> QED
    BY <1>1, <1>2

LEMMA LogInvariance == Spec => []LogInv
  BY InitLogInv, NextLogInv, Invariance, PTL DEF Spec

\* For bodies, limits and previews of every size, the log says what the client got.
THEOREM LogIsRight == Spec => []LogAgreesWithWire
<1>1. IInv /\ LogInv => LogAgreesWithWire
  <2> SUFFICES ASSUME IInv, LogInv
               PROVE  LogAgreesWithWire
    OBVIOUS
  <2>1. \A n \in Calls : n \in DOMAIN log /\ log[n].kind = "api_call"
    BY DEF Calls
  <2> QED
    BY <2>1 DEF LogInv, RecordInv, Right, TooLargeInv, TooLargeLogged, LogAgreesWithWire
<1> QED
    BY <1>1, Invariance, LogInvariance, PTL
=============================================================================
